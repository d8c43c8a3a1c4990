---------------------------- MODULE FiberVMProofs ----------------------------
(***************************************************************************)
(* Proofs about FiberVM, for any number of fibers, frames and activations, *)
(* and for the programs that Contained admits.                             *)
(***************************************************************************)
EXTENDS FiberVM, TLAPS, NaturalsInduction, WellFoundedInduction

\* No break crosses a C function in a fiber that C code resumed, and no transfer
\* happens while mrb_fiber_resume() waits: with either, CiPosition is refuted.
Contained == ~BreakInResumed /\ ~TransferInResumed

-----------------------------------------------------------------------------
(* The invariant.                                                          *)

\* What lies on what in the frames of one context.  A frame that mrb_yield() or
\* mrb_funcall pushed lies on the frame of the C function that called it, every
\* other one on bytecode.
Stack(s) ==
    /\ s \in Seq(Frame)
    /\ \A i \in 1 .. Len(s) :
         /\ s[i].cci \in {"NONE", "SKIP", "DIRECT"}
         /\ i = 1 => s[i].fn = "rb" /\ s[i].cci = "NONE"
         /\ i > 1 /\ s[i].cci = "NONE" => s[i - 1].fn = "rb"
         /\ i > 1 /\ s[i].cci # "NONE" => s[i - 1].fn = "c" /\ s[i - 1].cci = "NONE"
         /\ s[i].cci = "SKIP" => s[i].fn = "rb"
         /\ s[i].cci = "DIRECT" => s[i].fn = "c"
         /\ s[i].fn = "c" => s[i].handler = "none" /\ s[i].pend = -1
         /\ s[i].pend \in -1 .. i
         /\ s[i].home \in -1 .. (i - 1)

Status == {"none", "CREATED", "RUNNING", "RESUMED", "SUSPENDED", "TRANSFERRED", "TERMINATED"}

\* The contexts one by one: a context that does not run has C code on top, the
\* call by which it was left.
Contexts ==
    /\ cur \in Context
    /\ status \in [Context -> Status]
    /\ prev \in [Context -> Context \cup {NULL}]
    /\ vmexec \in [Context -> BOOLEAN]
    /\ ci \in [Context -> Seq(Frame)]
    /\ \A x \in Context : Stack(ci[x])
    /\ \A x \in Context : status[x] \in {"none", "TERMINATED"} <=> ci[x] = << >>
    /\ \A x \in Context : status[x] = "RUNNING" <=> x = cur
    /\ \A x \in Context : x # cur /\ ci[x] # << >> => ci[x][Len(ci[x])].fn = "c"
    /\ prev[Root] = NULL /\ status[Root] \in {"RUNNING", "RESUMED", "TRANSFERRED"}

\* A break from frame n of stack s to frame d leaves no C function behind, and
\* no break that an ensure clause has put off does.
Plain(s, d, n) == \A i \in d + 1 .. n : s[i].cci = "NONE"
PlainStack(s) == \A i \in 1 .. Len(s) : s[i].pend > 0 => Plain(s, s[i].pend, i)

\* The VM is at p with frames s, unwinding to frame b if that is not 0.  In a
\* context that C code resumed (v) a break leaves no C function.
At(s, v, p, b) ==
    /\ p \in {"rb", "c"} => s[Len(s)].fn = p
    /\ p \notin {"break", "catch"} => b = 0
    /\ p = "break" => b > 0
    /\ b <= Len(s)
    /\ b > 0 => s[Len(s)].cci # "DIRECT"
    /\ b > 0 /\ v => Plain(s, b, Len(s))

Position ==
    /\ pc \in Running /\ brk \in Nat
    /\ At(ci[cur], vmexec[cur], pc, brk)
    /\ \A x \in Context : vmexec[x] => PlainStack(ci[x])

\* S is the chain of resumers, and pos numbers it from the first to the running one
Path(S, pos) ==
    /\ S \in SUBSET Context /\ pos \in [Context -> Nat]
    /\ cur \in S
    /\ \A x \in S : x # cur => status[x] = "RESUMED" /\ pos[x] < pos[cur]
    /\ \A x \in S : prev[x] # NULL => prev[x] \in S /\ pos[x] = pos[prev[x]] + 1
    /\ \A x \in S : prev[x] = NULL => pos[x] = 0
    /\ \A x, y \in S : pos[x] = pos[y] => x = y
    /\ \A x \in S : x # cur => \E y \in S : prev[y] = x

Act == [by : {"top", "yield", "resume"}, cxt : Context, depth : Nat, cci : {"NONE", "DIRECT"}]

\* Activation e waits in a C function of the chain: below the frame that it runs,
\* or on top of the context that resumed another.
Waits(S, e) ==
    /\ e.cxt \in S
    /\ e.by = "yield" => /\ e.cci = "NONE" /\ e.depth > 0 /\ e.depth < Len(ci[e.cxt])
                         /\ ci[e.cxt][e.depth + 1].cci = "SKIP"
    /\ e.by = "resume" => /\ e.depth = Len(ci[e.cxt]) /\ e.cci = ci[e.cxt][e.depth].cci
                          /\ \E y \in S : prev[y] = e.cxt /\ vmexec[y]

Before(pos, d, e) == pos[d.cxt] < pos[e.cxt] \/ (d.cxt = e.cxt /\ d.depth < e.depth)

\* The C stack: activations wait along the chain, from its first context to the
\* running one and within a context from the bottom to the top, one for every
\* block that C code called and for every fiber of the chain that C code resumed.
CStack(S, pos) ==
    /\ nest \in Seq(Act)
    /\ pc = "done" <=> nest = << >>
    /\ \A n \in 1 .. Len(nest) : nest[n].by = "top" <=> n = 1
    /\ \A n \in 2 .. Len(nest) : Waits(S, nest[n])
    /\ \A m, n \in 2 .. Len(nest) : m < n => Before(pos, nest[m], nest[n])
    /\ \A x \in Context : \A i \in 1 .. Len(ci[x]) : ci[x][i].cci = "SKIP" =>
         \E n \in 2 .. Len(nest) : nest[n] = Activation("yield", x, i - 1, "NONE")
    /\ \A x \in Context : \A i \in 1 .. Len(ci[x]) : ci[x][i].cci = "DIRECT" =>
         IF x = cur THEN pc = "catch" ELSE \E y \in S : prev[y] = x /\ vmexec[y]
    /\ \A x \in Context : vmexec[x] /\ status[x] # "TERMINATED" =>
         /\ x \in S /\ prev[x] # NULL
         /\ \E n \in 2 .. Len(nest) : nest[n].by = "resume" /\ nest[n].cxt = prev[x]

Story(S, pos) == Path(S, pos) /\ CStack(S, pos)

FInv == Contexts /\ Position /\ \E S \in SUBSET Context, pos \in [Context -> Nat] : Story(S, pos)

-----------------------------------------------------------------------------
(* Stacks.                                                                 *)

\* All frames but the top one
LEMMA FrontFacts ==
    ASSUME NEW T, NEW s \in Seq(T), s # << >>
    PROVE  /\ Front(s) \in Seq(T) /\ Len(s) \in Nat /\ Len(s) > 0 /\ Len(Front(s)) = Len(s) - 1
           /\ \A i \in 1 .. Len(s) - 1 : Front(s)[i] = s[i]
<1>1. Len(s) \in Nat /\ Len(s) > 0
    OBVIOUS
<1>. DEFINE n == Len(s) - 1
<1>2. n \in Nat /\ n <= Len(s) /\ Front(s) = SubSeq(s, 1, n)
    BY <1>1 DEF Front
<1>. HIDE DEF n
<1>3. SubSeq(s, 1, n) \in Seq(T) /\ Len(SubSeq(s, 1, n)) = n
    BY <1>1, <1>2
<1>4. \A i \in 1 .. n : SubSeq(s, 1, n)[i] = s[i]
    BY <1>1, <1>2
<1>. QED BY <1>1, <1>2, <1>3, <1>4 DEF n

\* A frame is pushed that may lie on the top one.
LEMMA PushStack ==
    ASSUME NEW s, Stack(s), s # << >>, NEW f \in Frame, f.cci \in {"NONE", "SKIP", "DIRECT"},
           f.cci = "NONE" => s[Len(s)].fn = "rb",
           f.cci # "NONE" => s[Len(s)].fn = "c" /\ s[Len(s)].cci = "NONE",
           f.cci = "SKIP" => f.fn = "rb", f.cci = "DIRECT" => f.fn = "c",
           f.handler = "none", f.pend = -1, f.home \in -1 .. Len(s)
    PROVE  /\ Stack(Append(s, f)) /\ Append(s, f) # << >>
           /\ Len(Append(s, f)) = Len(s) + 1 /\ Append(s, f)[Len(s) + 1] = f
           /\ \A i \in 1 .. Len(s) : Append(s, f)[i] = s[i]
           /\ PlainStack(s) => PlainStack(Append(s, f))
<1>. DEFINE t == Append(s, f)
<1>1. s \in Seq(Frame) /\ Len(s) \in Nat /\ Len(s) > 0
    BY DEF Stack
<1>2. /\ t \in Seq(Frame) /\ t # << >> /\ Len(t) = Len(s) + 1 /\ t[Len(s) + 1] = f
      /\ \A i \in 1 .. Len(s) : t[i] = s[i]
    BY <1>1
<1>. HIDE DEF t
<1>3. Stack(t)
  <2>. SUFFICES ASSUME NEW i \in 1 .. Len(t)
                PROVE  /\ t[i].cci \in {"NONE", "SKIP", "DIRECT"}
                       /\ i = 1 => t[i].fn = "rb" /\ t[i].cci = "NONE"
                       /\ i > 1 /\ t[i].cci = "NONE" => t[i - 1].fn = "rb"
                       /\ i > 1 /\ t[i].cci # "NONE" => t[i - 1].fn = "c" /\ t[i - 1].cci = "NONE"
                       /\ t[i].cci = "SKIP" => t[i].fn = "rb"
                       /\ t[i].cci = "DIRECT" => t[i].fn = "c"
                       /\ t[i].fn = "c" => t[i].handler = "none" /\ t[i].pend = -1
                       /\ t[i].pend \in -1 .. i
                       /\ t[i].home \in -1 .. (i - 1)
      BY <1>2 DEF Stack
  <2>1. CASE i = Len(s) + 1
    <3>1. t[i] = f /\ t[i - 1] = s[Len(s)] /\ i > 1
        BY <1>1, <1>2, <2>1
    <3>. QED BY <1>1, <2>1, <3>1
  <2>2. CASE i # Len(s) + 1
    <3>1. i \in 1 .. Len(s) /\ t[i] = s[i] /\ (i > 1 => t[i - 1] = s[i - 1])
        BY <1>1, <1>2, <2>2
    <3>. QED BY <3>1 DEF Stack
  <2>. QED BY <2>1, <2>2
<1>4. ASSUME PlainStack(s) PROVE PlainStack(t)
  <2>. SUFFICES ASSUME NEW i \in 1 .. Len(t), t[i].pend > 0, NEW j \in t[i].pend + 1 .. i
                PROVE  t[j].cci = "NONE"
      BY DEF PlainStack, Plain
  <2>1. i \in 1 .. Len(s) /\ t[i] = s[i]
      BY <1>1, <1>2
  <2>2. s[i].pend \in -1 .. i
      BY <2>1 DEF Stack
  <2>3. j \in 1 .. Len(s)
      BY <1>1, <2>1, <2>2
  <2>. QED BY <1>2, <1>4, <2>1, <2>2, <2>3 DEF PlainStack, Plain
<1>. QED BY <1>2, <1>3, <1>4 DEF t

\* The top frame is popped, or more frames are.
LEMMA PopStack ==
    ASSUME NEW s, Stack(s), s # << >>
    PROVE  /\ Stack(Front(s)) /\ Front(s) \in Seq(Frame) /\ Len(Front(s)) = Len(s) - 1
           /\ Len(s) > 0
           /\ \A i \in 1 .. Len(s) - 1 : Front(s)[i] = s[i]
           /\ PlainStack(s) => PlainStack(Front(s))
<1>. DEFINE t == Front(s)
<1>1. s \in Seq(Frame) /\ Len(s) \in Nat /\ Len(s) > 0
    BY DEF Stack
<1>2. t \in Seq(Frame) /\ Len(t) = Len(s) - 1 /\ \A i \in 1 .. Len(s) - 1 : t[i] = s[i]
    BY <1>1, FrontFacts
<1>. HIDE DEF t
<1>3. Stack(t)
  <2>. SUFFICES ASSUME NEW i \in 1 .. Len(t)
                PROVE  i \in 1 .. Len(s) /\ t[i] = s[i] /\ (i > 1 => t[i - 1] = s[i - 1])
      BY SMTT(30), <1>2 DEF Stack
  <2>. QED BY <1>1, <1>2
<1>4. ASSUME PlainStack(s) PROVE PlainStack(t)
  <2>. SUFFICES ASSUME NEW i \in 1 .. Len(t), t[i].pend > 0, NEW j \in t[i].pend + 1 .. i
                PROVE  t[j].cci = "NONE"
      BY DEF PlainStack, Plain
  <2>1. i \in 1 .. Len(s) /\ t[i] = s[i]
      BY <1>1, <1>2
  <2>2. s[i].pend \in -1 .. i
      BY <2>1 DEF Stack
  <2>3. j \in 1 .. Len(s) - 1
      BY <1>1, <1>2, <2>1, <2>2
  <2>. QED BY <1>2, <1>4, <2>1, <2>2, <2>3 DEF PlainStack, Plain
<1>. QED BY <1>1, <1>2, <1>3, <1>4 DEF t

\* The top frame enters or leaves a begin block or an ensure clause.
LEMMA TopStack ==
    ASSUME NEW s, Stack(s), s # << >>, NEW g \in Frame,
           g.fn = s[Len(s)].fn, g.cci = s[Len(s)].cci, g.home = s[Len(s)].home,
           g.fn = "rb", g.pend \in -1 .. Len(s),
           NEW t \in Seq(Frame), Len(t) = Len(s), t[Len(s)] = g,
           \A i \in 1 .. Len(s) : i # Len(s) => t[i] = s[i]
    PROVE  /\ Stack(t) /\ t # << >>
           /\ PlainStack(s) /\ (g.pend > 0 => Plain(s, g.pend, Len(s))) => PlainStack(t)
<1>1. s \in Seq(Frame) /\ Len(s) \in Nat /\ Len(s) > 0
    BY DEF Stack
<1>2. /\ t \in Seq(Frame) /\ Len(t) = Len(s) /\ t # << >> /\ t[Len(s)] = g
      /\ \A i \in 1 .. Len(s) : i # Len(s) => t[i] = s[i]
    BY <1>1
<1>3. \A i \in 1 .. Len(s) : t[i].fn = s[i].fn /\ t[i].cci = s[i].cci /\ t[i].home = s[i].home
    BY <1>1, <1>2
<1>4. Stack(t)
  <2>. SUFFICES ASSUME NEW i \in 1 .. Len(s)
                PROVE  /\ t[i].cci \in {"NONE", "SKIP", "DIRECT"}
                       /\ i = 1 => t[i].fn = "rb" /\ t[i].cci = "NONE"
                       /\ i > 1 /\ t[i].cci = "NONE" => t[i - 1].fn = "rb"
                       /\ i > 1 /\ t[i].cci # "NONE" => t[i - 1].fn = "c" /\ t[i - 1].cci = "NONE"
                       /\ t[i].cci = "SKIP" => t[i].fn = "rb"
                       /\ t[i].cci = "DIRECT" => t[i].fn = "c"
                       /\ t[i].fn = "c" => t[i].handler = "none" /\ t[i].pend = -1
                       /\ t[i].pend \in -1 .. i
                       /\ t[i].home \in -1 .. (i - 1)
      BY <1>2 DEF Stack
  <2>1. i > 1 => i - 1 \in 1 .. Len(s)
      BY <1>1
  <2>2. t[i].fn = "c" => t[i] = s[i]
      BY <1>1, <1>2
  <2>3. t[i].pend \in -1 .. i
      BY <1>1, <1>2 DEF Stack
  <2>4. /\ s[i].cci \in {"NONE", "SKIP", "DIRECT"}
        /\ i = 1 => s[i].fn = "rb" /\ s[i].cci = "NONE"
        /\ i > 1 /\ s[i].cci = "NONE" => s[i - 1].fn = "rb"
        /\ i > 1 /\ s[i].cci # "NONE" => s[i - 1].fn = "c" /\ s[i - 1].cci = "NONE"
        /\ s[i].cci = "SKIP" => s[i].fn = "rb"
        /\ s[i].cci = "DIRECT" => s[i].fn = "c"
        /\ s[i].fn = "c" => s[i].handler = "none" /\ s[i].pend = -1
        /\ s[i].home \in -1 .. (i - 1)
      BY DEF Stack
  <2>5. /\ t[i].fn = s[i].fn /\ t[i].cci = s[i].cci /\ t[i].home = s[i].home
        /\ i > 1 => t[i - 1].fn = s[i - 1].fn /\ t[i - 1].cci = s[i - 1].cci
      BY <1>3, <2>1
  <2>. QED BY <2>2, <2>3, <2>4, <2>5
<1>5. ASSUME PlainStack(s), g.pend > 0 => Plain(s, g.pend, Len(s)) PROVE PlainStack(t)
  <2>. SUFFICES ASSUME NEW i \in 1 .. Len(s), t[i].pend > 0, NEW j \in t[i].pend + 1 .. i
                PROVE  t[j].cci = "NONE"
      BY <1>2 DEF PlainStack, Plain
  <2>1. t[i].pend \in Int /\ j \in 1 .. Len(s)
      BY <1>2, <1>4 DEF Stack
  <2>2. s[j].cci = "NONE"
      BY <1>1, <1>2, <1>5, <2>1 DEF PlainStack, Plain
  <2>. QED BY <1>3, <2>1, <2>2
<1>. QED BY <1>2, <1>4, <1>5

-----------------------------------------------------------------------------
(* Steps within the running context.                                       *)

SameSkips(s, t) == \A i \in Nat : (i \in 1 .. Len(s) /\ s[i].cci = "SKIP")
                                    <=> (i \in 1 .. Len(t) /\ t[i].cci = "SKIP")
NoDirect(s) == \A i \in 1 .. Len(s) : s[i].cci # "DIRECT"

\* No frame of s that is missing in t has an ensure clause that is due.
Keeps(s, t) == \A i \in 1 .. Len(s) : i > Len(t) => s[i].handler # "ensure"

\* What every step does: it leaves no ensure clause behind, an activation that
\* ends goes back to the C function that called it, and the outermost one stays.
Tidy ==
    /\ \A x \in Context : Keeps(ci[x], ci'[x])
    /\ Len(nest') < Len(nest) /\ pc' = "c" =>
         cur' = Last(nest).cxt /\ Len(ci'[Last(nest).cxt]) = Caller(Last(nest))
    /\ nest' # << >> => nest # << >> /\ nest'[1] = nest[1]

\* A stack that is not cut, and one that loses its top
LEMMA KeepsAll ==
    ASSUME NEW s \in Seq(Frame), NEW t \in Seq(Frame), Len(t) >= Len(s)
    PROVE  Keeps(s, t)
<1>1. Len(s) \in Nat /\ Len(t) \in Nat
    OBVIOUS
<1>2. \A i \in 1 .. Len(s) : ~(i > Len(t))
    BY <1>1
<1>. QED BY <1>2 DEF Keeps

\* No ensure clause is due in the top frame, which is popped.
LEMMA KeepsBelow ==
    ASSUME NEW s \in Seq(Frame), s # << >>, s[Len(s)].handler # "ensure"
    PROVE  Keeps(s, Front(s))
<1>1. Len(s) \in Nat /\ Len(Front(s)) = Len(s) - 1
    BY FrontFacts
<1>2. \A i \in 1 .. Len(s) : i > Len(s) - 1 => i = Len(s)
    BY <1>1
<1>. QED BY <1>1, <1>2 DEF Keeps

\* The contexts that a step leaves alone lose nothing.
LEMMA KeepsRest ==
    ASSUME FInv, NEW D, \A x \in Context \ D : ci'[x] = ci[x], \A x \in D : Keeps(ci[x], ci'[x])
    PROVE  \A x \in Context : Keeps(ci[x], ci'[x])
<1>. SUFFICES ASSUME NEW x \in Context \ D PROVE Keeps(ci[x], ci'[x])
    OBVIOUS
<1>1. ci[x] \in Seq(Frame) /\ ci'[x] = ci[x]
    BY DEF FInv, Contexts
<1>2. Len(ci[x]) >= Len(ci[x])
    BY <1>1
<1>. QED BY <1>1, <1>2, KeepsAll

\* The C stack stays.
LEMMA TidySame ==
    ASSUME FInv, nest' = nest, \A x \in Context : Keeps(ci[x], ci'[x])
    PROVE  Tidy
<1>1. nest \in Seq(Act)
    BY DEF FInv, Story, CStack
<1>2. ~(Len(nest') < Len(nest))
    BY <1>1
<1>. QED BY <1>2 DEF Tidy

\* C code calls a block or resumes a fiber.
LEMMA TidyCall ==
    ASSUME FInv, pc # "done", NEW a \in Act, nest' = Append(nest, a), \A x \in Context : Keeps(ci[x], ci'[x])
    PROVE  Tidy
<1>1. nest \in Seq(Act) /\ nest # << >>
    BY DEF FInv, Story, CStack
<1>2. Len(nest) \in Nat /\ Len(nest) > 0 /\ Len(nest') = Len(nest) + 1 /\ nest'[1] = nest[1]
    BY <1>1
<1>3. ~(Len(nest') < Len(nest))
    BY <1>2
<1>. QED BY <1>1, <1>2, <1>3 DEF Tidy

\* The innermost activation ends.
LEMMA TidyEnd ==
    ASSUME FInv, pc # "done", nest' = Front(nest), \A x \in Context : Keeps(ci[x], ci'[x]),
           pc' = "c" => cur' = Last(nest).cxt /\ Len(ci'[Last(nest).cxt]) = Caller(Last(nest))
    PROVE  Tidy
<1>1. nest \in Seq(Act) /\ nest # << >>
    BY DEF FInv, Story, CStack
<1>2. /\ nest' \in Seq(Act) /\ Len(nest) \in Nat /\ Len(nest) > 0 /\ Len(nest') = Len(nest) - 1
      /\ \A i \in 1 .. Len(nest) - 1 : nest'[i] = nest[i]
    BY <1>1, FrontFacts
<1>3. ASSUME nest' # << >> PROVE nest'[1] = nest[1]
  <2>1. Len(nest') > 0
      BY <1>2, <1>3
  <2>. QED BY <1>2, <2>1
<1>. QED BY <1>1, <1>3 DEF Tidy

\* The running context is nobody's resumer on the chain.
LEMMA NotResumer ==
    ASSUME Contexts, NEW S, NEW pos, Path(S, pos), NEW y \in S, prev[y] # NULL
    PROVE  prev[y] # cur /\ prev[y] \in S
<1>1. prev[y] \in S /\ pos[y] = pos[prev[y]] + 1
    BY DEF Path
<1>2. pos[y] \in Nat /\ pos[prev[y]] \in Nat /\ pos[cur] \in Nat /\ pos[y] <= pos[cur]
    BY <1>1 DEF Path
<1>. QED BY <1>1, <1>2

\* No context is the null pointer.
LEMMA ContextNotNull == \A x \in Context : x # NULL
    BY FiberAssumption DEF Context

\* The contexts stay as they are while the running one changes its frames.
LEMMA OwnContexts ==
    ASSUME Contexts, UNCHANGED <<cur, status, prev, vmexec>>, NEW t, Stack(t), t # << >>,
           ci' = [ci EXCEPT ![cur] = t]
    PROVE  /\ Contexts' /\ ci'[cur] = t
           /\ \A x \in Context : x # cur => ci'[x] = ci[x]
<1>1. ci \in [Context -> Seq(Frame)] /\ cur \in Context /\ t \in Seq(Frame)
    BY DEF Contexts, Stack
<1>2. /\ ci' \in [Context -> Seq(Frame)] /\ ci'[cur] = t
      /\ \A x \in Context : x # cur => ci'[x] = ci[x]
    BY <1>1
<1>3. \A x \in Context : Stack(ci'[x])
    BY <1>2 DEF Contexts
<1>4. \A x \in Context : status[x] \in {"none", "TERMINATED"} <=> ci'[x] = << >>
    BY <1>2 DEF Contexts
<1>5. \A x \in Context : x # cur /\ ci'[x] # << >> => ci'[x][Len(ci'[x])].fn = "c"
    BY <1>2 DEF Contexts
<1>6. Contexts'
    BY <1>2, <1>3, <1>4, <1>5 DEF Contexts, Stack
<1>. QED BY <1>2, <1>6

\* The C stack fits as long as the blocks that C code called keep their frames.
LEMMA OwnStory ==
    ASSUME Contexts, NEW S, NEW pos, Story(S, pos), UNCHANGED <<cur, status, prev, vmexec, nest>>,
           pc # "done", pc' # "done", NEW t \in Seq(Frame),
           ci'[cur] = t, \A x \in Context : x # cur => ci'[x] = ci[x],
           SameSkips(ci[cur], t), NoDirect(t) \/ pc' = "catch"
    PROVE  Story(S, pos)'
<1>1. Path(S, pos) /\ CStack(S, pos)
    BY DEF Story
<1>2. Path(S, pos)'
    BY <1>1 DEF Path
<1>3. cur \in Context /\ S \subseteq Context /\ ci \in [Context -> Seq(Frame)]
    BY <1>1 DEF Contexts, Path
<1>4. \A n \in 2 .. Len(nest) : Waits(S, nest[n])'
  <2>. SUFFICES ASSUME NEW n \in 2 .. Len(nest) PROVE Waits(S, nest[n])'
      OBVIOUS
  <2>. DEFINE e == nest[n]
  <2>1. Waits(S, e) /\ e \in Act /\ nest'[n] = e
      BY <1>1 DEF CStack
  <2>. HIDE DEF e
  <2>2. CASE e.cxt # cur
    <3>1. ci'[e.cxt] = ci[e.cxt]
        BY <1>3, <2>1, <2>2 DEF Act
    <3>. QED BY <2>1, <3>1 DEF Waits
  <2>3. CASE e.cxt = cur /\ e.by = "yield"
    <3>1. e.depth \in Nat /\ e.depth > 0 /\ e.depth < Len(ci[cur]) /\ ci[cur][e.depth + 1].cci = "SKIP"
        BY <2>1, <2>3 DEF Waits, Act
    <3>2. e.depth + 1 \in 1 .. Len(ci[cur]) /\ Len(ci[cur]) \in Nat /\ Len(t) \in Nat
        BY <1>3, <3>1
    <3>3. e.depth + 1 \in 1 .. Len(t) /\ t[e.depth + 1].cci = "SKIP"
        BY <3>1, <3>2 DEF SameSkips
    <3>4. e.depth < Len(t)
        BY <3>1, <3>2, <3>3
    <3>. QED BY <2>1, <2>3, <3>1, <3>3, <3>4 DEF Waits
  <2>4. CASE e.cxt = cur /\ e.by = "resume"
    <3>1. \E y \in S : prev[y] = cur
        BY <2>1, <2>4 DEF Waits
    <3>. QED BY <1>1, <1>3, <3>1, NotResumer, ContextNotNull
  <2>5. e.by # "top"
    <3>1. n \in 1 .. Len(nest) /\ n # 1
        BY <1>1 DEF CStack
    <3>. QED BY <1>1, <3>1 DEF CStack, e
  <2>. QED BY <2>1, <2>2, <2>3, <2>4, <2>5 DEF Act
<1>5. ASSUME NEW x \in Context, NEW i \in 1 .. Len(ci'[x]), ci'[x][i].cci = "SKIP"
      PROVE  \E n \in 2 .. Len(nest) : nest[n] = Activation("yield", x, i - 1, "NONE")
  <2>1. i \in 1 .. Len(ci[x]) /\ ci[x][i].cci = "SKIP"
    <3>1. CASE x # cur
        BY <1>5, <3>1
    <3>2. CASE x = cur
        BY <1>5, <3>2 DEF SameSkips
    <3>. QED BY <3>1, <3>2
  <2>. QED BY <1>1, <2>1 DEF CStack
<1>6. ASSUME NEW x \in Context, NEW i \in 1 .. Len(ci'[x]), ci'[x][i].cci = "DIRECT"
      PROVE  IF x = cur THEN pc' = "catch" ELSE \E y \in S : prev[y] = x /\ vmexec[y]
  <2>1. CASE x # cur
      BY <1>1, <1>6, <2>1 DEF CStack
  <2>2. CASE x = cur
      BY <1>6, <2>2 DEF NoDirect
  <2>. QED BY <2>1, <2>2
<1>7. CStack(S, pos)'
    BY <1>1, <1>4, <1>5, <1>6 DEF CStack, Before, Act, Activation
<1>. QED BY <1>2, <1>7 DEF Story

\* A step of the running context that leaves the C stack alone
LEMMA OwnStep ==
    ASSUME FInv, UNCHANGED <<cur, status, prev, vmexec, nest>>,
           pc # "done", pc' \in Running \ {"done"}, brk' \in Nat,
           NEW t, Stack(t), t # << >>, ci' = [ci EXCEPT ![cur] = t],
           SameSkips(ci[cur], t), NoDirect(t) \/ pc' = "catch",
           At(t, vmexec[cur], pc', brk'), vmexec[cur] => PlainStack(t), Keeps(ci[cur], t)
    PROVE  FInv' /\ Tidy
<1>1. Contexts /\ Position
    BY DEF FInv
<1>2. Contexts' /\ ci'[cur] = t /\ \A x \in Context : x # cur => ci'[x] = ci[x]
    BY <1>1, OwnContexts
<1>3. Position'
    BY <1>1, <1>2 DEF Position
<1>4. PICK S \in SUBSET Context, pos \in [Context -> Nat] : Story(S, pos)
    BY DEF FInv
<1>5. t \in Seq(Frame)
    BY DEF Stack
<1>6. Story(S, pos)'
    BY <1>1, <1>2, <1>4, <1>5, OwnStory
<1>7. FInv'
    BY <1>2, <1>3, <1>6 DEF FInv
<1>8. \A x \in Context : Keeps(ci[x], ci'[x])
  <2>1. PICK D : D = {cur}
      OBVIOUS
  <2>2. (\A x \in Context \ D : ci'[x] = ci[x]) /\ \A x \in D : Keeps(ci[x], ci'[x])
      BY <1>2, <2>1
  <2>. QED BY <2>2, KeepsRest
<1>9. Tidy
    BY <1>8, TidySame
<1>. QED BY <1>7, <1>9

\* The running context has frames, none of them mrb_funcall's unless one is thrown away.
LEMMA Here ==
    ASSUME FInv
    PROVE  /\ Contexts /\ Position /\ cur \in Context
           /\ ci \in [Context -> Seq(Frame)] /\ ci[cur] \in Seq(Frame)
           /\ Stack(ci[cur]) /\ ci[cur] # << >> /\ Depth = Len(ci[cur])
           /\ Depth \in Nat /\ Depth > 0 /\ Top = ci[cur][Len(ci[cur])] /\ Top \in Frame
           /\ brk \in Nat /\ vmexec[cur] \in BOOLEAN
           /\ vmexec[cur] => PlainStack(ci[cur])
           /\ pc # "catch" => NoDirect(ci[cur])
<1>1. Contexts /\ Position
    BY DEF FInv
<1>2. /\ cur \in Context /\ ci \in [Context -> Seq(Frame)] /\ Stack(ci[cur]) /\ status[cur] = "RUNNING"
      /\ vmexec[cur] \in BOOLEAN
    BY <1>1 DEF Contexts
<1>3. ci[cur] # << >> /\ ci[cur] \in Seq(Frame)
    BY <1>1, <1>2 DEF Contexts
<1>4. Depth = Len(ci[cur]) /\ Depth \in Nat /\ Depth > 0 /\ Top = ci[cur][Len(ci[cur])] /\ Top \in Frame
    BY <1>3 DEF Depth, Top
<1>5. pc # "catch" => NoDirect(ci[cur])
    BY <1>2 DEF FInv, Story, CStack, NoDirect
<1>6. brk \in Nat /\ (vmexec[cur] => PlainStack(ci[cur]))
    BY <1>1, <1>2 DEF Position
<1>. QED BY <1>1, <1>2, <1>3, <1>4, <1>5, <1>6

\* A call from bytecode
LEMMA PushOwn ==
    ASSUME FInv, UNCHANGED <<cur, status, prev, vmexec, nest>>, InRuby,
           NEW f \in Frame, f.cci = "NONE", f.handler = "none", f.pend = -1, f.home \in -1 .. Depth,
           ci' = [ci EXCEPT ![cur] = Append(@, f)],
           pc' \in {"rb", "c", "catch"}, pc' # "catch" => f.fn = pc', brk' = 0
    PROVE  FInv' /\ Tidy
<1>. DEFINE s == ci[cur]
            t == Append(s, f)
<1>1. Stack(s) /\ s # << >> /\ Len(s) \in Nat /\ Len(s) = Depth /\ s[Len(s)].fn = "rb" /\ NoDirect(s) /\ pc = "rb"
      /\ (vmexec[cur] => PlainStack(s)) /\ ci \in [Context -> Seq(Frame)] /\ cur \in Context
    BY Here DEF InRuby
<1>2. /\ Stack(t) /\ t # << >> /\ Len(t) = Len(s) + 1 /\ t[Len(s) + 1] = f
      /\ \A i \in 1 .. Len(s) : t[i] = s[i]
      /\ PlainStack(s) => PlainStack(t)
    BY <1>1, PushStack
<1>3. ci' = [ci EXCEPT ![cur] = t]
    OBVIOUS
<1>. HIDE DEF s, t
<1>4. SameSkips(s, t) /\ NoDirect(t)
  <2>1. \A i \in Nat : i \in 1 .. Len(t) <=> i \in 1 .. Len(s) \/ i = Len(s) + 1
      BY <1>1, <1>2
  <2>2. t[Len(s) + 1].cci = "NONE"
      BY <1>2
  <2>3. \A i \in 1 .. Len(t) : i \in Nat
      BY <1>1, <1>2
  <2>4. SameSkips(s, t)
    <3>. SUFFICES ASSUME NEW i \in Nat
                  PROVE  (i \in 1 .. Len(s) /\ s[i].cci = "SKIP")
                           <=> (i \in 1 .. Len(t) /\ t[i].cci = "SKIP")
        BY DEF SameSkips
    <3>. QED BY <1>1, <1>2, <2>1, <2>2
  <2>5. NoDirect(t)
      BY <1>1, <1>2, <2>1, <2>2, <2>3 DEF NoDirect
  <2>. QED BY <2>4, <2>5
<1>5. At(t, vmexec[cur], pc', brk')
    BY <1>1, <1>2 DEF At
<1>6. pc # "done" /\ pc' \in Running \ {"done"} /\ brk' \in Nat
    BY <1>1 DEF Running
<1>7. Keeps(s, t)
    BY <1>1, <1>2, KeepsAll DEF Stack
<1>. QED BY <1>1, <1>2, <1>3, <1>4, <1>5, <1>6, <1>7, OwnStep DEF s

\* A frame that no activation runs is popped: what is below it is bytecode.
LEMMA PopOwn ==
    ASSUME FInv, UNCHANGED <<cur, status, prev, vmexec, nest>>, pc \in {"rb", "c", "raise", "break"},
           Depth > 1, Top.cci = "NONE", Top.handler # "ensure", ci' = [ci EXCEPT ![cur] = Front(@)],
           \/ pc' = "rb" /\ brk' = 0
           \/ pc' = pc /\ brk' = brk /\ pc \in {"raise", "break"} /\ brk < Depth
    PROVE  FInv' /\ Tidy /\ ci'[cur] = Front(ci[cur])
<1>. DEFINE s == ci[cur]
            t == Front(s)
<1>1. Stack(s) /\ s # << >> /\ s \in Seq(Frame) /\ Len(s) \in Nat /\ Len(s) = Depth /\ NoDirect(s) /\ s[Len(s)].cci = "NONE"
      /\ (vmexec[cur] => PlainStack(s)) /\ ci \in [Context -> Seq(Frame)] /\ cur \in Context
      /\ brk \in Nat /\ Position
    BY Here
<1>2. /\ Stack(t) /\ Len(t) = Len(s) - 1 /\ t \in Seq(Frame)
      /\ \A i \in 1 .. Len(s) - 1 : t[i] = s[i]
      /\ PlainStack(s) => PlainStack(t)
    BY <1>1, PopStack
<1>3. ci' = [ci EXCEPT ![cur] = t] /\ ci'[cur] = t
    BY <1>1
<1>4. At(s, vmexec[cur], pc, brk)
    BY <1>1 DEF Position
<1>. HIDE DEF s, t
<1>5. SameSkips(s, t) /\ NoDirect(t) /\ t # << >> /\ t[Len(t)].fn = "rb"
    BY <1>1, <1>2 DEF SameSkips, NoDirect, Stack
<1>6. At(t, vmexec[cur], pc', brk')
  <2>1. CASE pc' = "rb" /\ brk' = 0
      BY <1>1, <1>2, <1>5, <2>1 DEF At
  <2>2. CASE pc' = pc /\ brk' = brk /\ pc \in {"raise", "break"} /\ brk < Depth
    <3>1. brk <= Len(t) /\ t[Len(t)].cci # "DIRECT"
        BY <1>1, <1>2, <1>5, <2>2 DEF NoDirect
    <3>2. brk > 0 /\ vmexec[cur] => Plain(t, brk, Len(t))
        BY <1>1, <1>2, <1>4 DEF At, Plain
    <3>. QED BY <1>1, <1>4, <2>2, <3>1, <3>2 DEF At
  <2>. QED BY <2>1, <2>2
<1>7. pc # "done" /\ pc' \in Running \ {"done"} /\ brk' \in Nat
    BY <1>1 DEF Running
<1>8. Keeps(s, t)
  <2>1. s[Len(s)].handler # "ensure"
      BY Here DEF s
  <2>. QED BY <1>1, <2>1, KeepsBelow DEF t
<1>9. FInv' /\ Tidy
    BY <1>1, <1>2, <1>3, <1>5, <1>6, <1>7, <1>8, OwnStep DEF s
<1>. QED BY <1>3, <1>9 DEF s, t

\* The top frame enters or leaves a begin block or its ensure clause.
LEMMA TopOwn ==
    ASSUME FInv, UNCHANGED <<cur, status, prev, vmexec, nest>>, pc \in {"rb", "raise", "break"},
           NEW g \in Frame, g.fn = "rb", g.fn = Top.fn, g.cci = Top.cci, g.home = Top.home,
           g.pend \in -1 .. Depth, NEW u \in Seq(Frame), Len(u) = Depth, u[Depth] = g,
           \A i \in 1 .. Depth : i # Depth => u[i] = ci[cur][i], ci' = [ci EXCEPT ![cur] = u],
           pc' \in {"rb", "raise", "break"}, brk' \in Nat, brk' <= Depth, pc' = "break" <=> brk' > 0,
           vmexec[cur] /\ brk' > 0 => Plain(ci[cur], brk', Depth),
           vmexec[cur] /\ g.pend > 0 => Plain(ci[cur], g.pend, Depth)
    PROVE  FInv' /\ Tidy
<1>. DEFINE s == ci[cur]
            t == u
<1>1. Stack(s) /\ s # << >> /\ Len(s) \in Nat /\ Len(s) > 0 /\ Len(s) = Depth /\ NoDirect(s) /\ Top = s[Len(s)]
      /\ (vmexec[cur] => PlainStack(s)) /\ ci \in [Context -> Seq(Frame)] /\ cur \in Context
    BY Here
<1>2. ci' = [ci EXCEPT ![cur] = t]
    OBVIOUS
<1>. HIDE DEF s
<1>3. /\ g.fn = s[Len(s)].fn /\ g.cci = s[Len(s)].cci /\ g.home = s[Len(s)].home
      /\ g.pend \in -1 .. Len(s)
    BY <1>1
<1>4. /\ Stack(t) /\ t # << >> /\ Len(t) = Len(s) /\ t[Len(s)] = g
      /\ \A i \in 1 .. Len(s) : i # Len(s) => t[i] = s[i]
      /\ PlainStack(s) /\ (g.pend > 0 => Plain(s, g.pend, Len(s))) => PlainStack(t)
  <2>1. t \in Seq(Frame) /\ Len(t) = Len(s) /\ t[Len(s)] = g /\ \A i \in 1 .. Len(s) : i # Len(s) => t[i] = s[i]
      BY <1>1 DEF s
  <2>. HIDE DEF t
  <2>. QED BY <1>3, <1>1, <2>1, TopStack
<1>. HIDE DEF t
<1>5. \A i \in 1 .. Len(s) : t[i].cci = s[i].cci
    BY <1>1, <1>4
<1>6. SameSkips(s, t) /\ NoDirect(t)
    BY <1>1, <1>4, <1>5 DEF SameSkips, NoDirect
<1>7. ASSUME vmexec[cur], brk' > 0 PROVE Plain(t, brk', Len(t))
  <2>1. Plain(s, brk', Len(s))
      BY <1>1, <1>7 DEF s
  <2>2. Len(t) = Len(s) /\ Len(s) \in Nat
      BY <1>1, <1>4
  <2>3. ASSUME NEW b \in Nat, NEW i \in b + 1 .. Len(s) PROVE i \in 1 .. Len(s)
      BY <2>2
  <2>. QED BY <1>5, <2>1, <2>2, <2>3 DEF Plain
<1>8. At(t, vmexec[cur], pc', brk')
    BY <1>1, <1>4, <1>6, <1>7 DEF At, NoDirect
<1>9. pc # "done" /\ pc' \in Running \ {"done"}
    BY DEF Running
<1>10. vmexec[cur] => PlainStack(t)
    BY <1>1, <1>4 DEF s
<1>11. Keeps(s, t)
    BY <1>1, <1>4, KeepsAll DEF Stack
<1>. QED BY <1>1, <1>4, <1>2, <1>6, <1>8, <1>9, <1>10, <1>11, OwnStep DEF s

\* The frames stay, and unwinding begins.
LEMMA StayOwn ==
    ASSUME FInv, UNCHANGED <<cur, status, prev, vmexec, nest, ci>>, pc \in {"rb", "c"},
           pc' \in {"raise", "break", "catch", pc}, brk' \in Nat, brk' <= Depth,
           pc' \notin {"break", "catch"} => brk' = 0, pc' = "break" => brk' > 0,
           vmexec[cur] /\ brk' > 0 => Plain(ci[cur], brk', Depth)
    PROVE  FInv' /\ Tidy
<1>. DEFINE s == ci[cur]
<1>1. Stack(s) /\ s # << >> /\ Len(s) \in Nat /\ Len(s) > 0 /\ Len(s) = Depth /\ NoDirect(s)
      /\ (vmexec[cur] => PlainStack(s)) /\ ci \in [Context -> Seq(Frame)] /\ cur \in Context /\ Position
    BY Here
<1>2. ci' = [ci EXCEPT ![cur] = s]
    BY <1>1
<1>3. At(s, vmexec[cur], pc, brk)
    BY <1>1 DEF Position
<1>. HIDE DEF s
<1>4. SameSkips(s, s) /\ s[Len(s)].cci # "DIRECT"
    BY <1>1 DEF SameSkips, NoDirect
<1>5. At(s, vmexec[cur], pc', brk')
    BY <1>1, <1>3, <1>4 DEF At, s
<1>6. pc # "done" /\ pc' \in Running \ {"done"}
    BY DEF Running
<1>7. Keeps(s, s)
    BY <1>1, KeepsAll DEF Stack
<1>. QED BY <1>1, <1>2, <1>4, <1>5, <1>6, <1>7, OwnStep DEF s

-----------------------------------------------------------------------------
(* The method a block is written in.                                       *)

Home(i) == ci[cur][i].home
Scope(g, i) == IF i > 0 /\ Home(i) > 0 THEN g[Home(i)] ELSE IF i > 0 /\ Home(i) = -1 THEN -1 ELSE i
Scopes(g, n) == g = [i \in 0 .. n |-> Scope(g, i)]

\* The home of a block is a frame below it.
LEMMA HomeBelow ==
    ASSUME FInv
    PROVE  \A i \in 1 .. Depth : Home(i) \in Int /\ Home(i) >= -1 /\ Home(i) < i
    BY Here DEF Stack, Home

\* Every set of numbers that is not empty has a least member.
LEMMA LeastNumber ==
    ASSUME NEW B \in SUBSET Nat, B # {}
    PROVE  \E n \in B : \A m \in B : n <= m
<1>1. PICK n \in B : \A m \in B : ~(<<m, n>> \in OpToRel(<, Nat))
    BY WFMin, NatLessThanWellFounded
<1>2. \A m \in B : ~(m < n)
    BY <1>1 DEF OpToRel
<1>. QED BY <1>2

\* The recursion in Method has a solution, so that Method is one.
LEMMA MethodExists ==
    ASSUME FInv
    PROVE  \A n \in 0 .. Depth : \E g : Scopes(g, n)
<1>. DEFINE B == {n \in Nat : n <= Depth /\ ~\E g : Scopes(g, n)}
<1>1. Depth \in Nat
    BY Here
<1>. SUFFICES ASSUME B # {} PROVE FALSE
    BY <1>1
<1>2. PICK n \in B : \A m \in B : n <= m
    BY LeastNumber
<1>3. n \in Nat /\ n <= Depth /\ ~\E g : Scopes(g, n)
    OBVIOUS
<1>4. CASE n = 0
  <2>1. Scopes([i \in 0 .. 0 |-> 0], 0)
      BY DEF Scopes, Scope
  <2>. QED BY <1>3, <1>4, <2>1
<1>5. CASE n > 0
  <2>1. n - 1 \in Nat /\ n - 1 <= Depth /\ n - 1 \notin B
      BY <1>1, <1>2, <1>3, <1>5
  <2>2. PICK g : Scopes(g, n - 1)
      BY <2>1
  <2>. DEFINE h == [i \in 0 .. n |-> IF i < n THEN g[i] ELSE Scope(g, n)]
  <2>3. Home(n) \in Int /\ Home(n) >= -1 /\ Home(n) < n
      BY <1>3, <1>5, HomeBelow
  <2>4. \A i \in 0 .. n : h[i] = Scope(h, i)
    <3>. SUFFICES ASSUME NEW i \in 0 .. n PROVE h[i] = Scope(h, i)
        OBVIOUS
    <3>1. \A j \in 0 .. n - 1 : h[j] = g[j]
        BY <1>3
    <3>2. CASE i = n
      <4>1. h[i] = Scope(g, n)
          BY <1>3, <3>2
      <4>2. Home(n) > 0 => h[Home(n)] = g[Home(n)]
          BY <1>3, <2>3, <3>1
      <4>. QED BY <1>5, <3>2, <4>1, <4>2 DEF Scope
    <3>3. CASE i # n
      <4>1. i \in 0 .. n - 1 /\ h[i] = g[i]
          BY <1>3, <3>1, <3>3
      <4>2. g[i] = Scope(g, i)
          BY <2>2, <4>1 DEF Scopes
      <4>3. i > 0 => Home(i) \in Int /\ Home(i) >= -1 /\ Home(i) < i
          BY <1>1, <1>3, <4>1, HomeBelow
      <4>4. i > 0 /\ Home(i) > 0 => h[Home(i)] = g[Home(i)]
          BY <1>3, <3>1, <4>1, <4>3
      <4>. QED BY <4>1, <4>2, <4>4 DEF Scope
    <3>. QED BY <3>2, <3>3
  <2>5. h = [i \in 0 .. n |-> Scope(h, i)]
      BY <2>4
  <2>. QED BY <1>3, <2>5 DEF Scopes
<1>. QED BY <1>3, <1>4, <1>5

\* A method is found at or below the block, or in another context.
LEMMA MethodBelow ==
    ASSUME FInv
    PROVE  Method[Depth] \in -1 .. Depth
<1>1. Depth \in Nat
    BY Here
<1>2. Method = [i \in 0 .. Depth |-> Scope(Method, i)]
  <2>1. \E g : g = [i \in 0 .. Depth |-> Scope(g, i)]
      BY <1>1, MethodExists DEF Scopes
  <2>. QED BY <2>1 DEF Method, Scope, Home
<1>. DEFINE B == {n \in Nat : n <= Depth /\ Method[n] \notin -1 .. n}
<1>. SUFFICES ASSUME B # {} PROVE FALSE
    BY <1>1
<1>3. PICK n \in B : \A m \in B : n <= m
    BY LeastNumber
<1>4. n \in Nat /\ n <= Depth /\ Method[n] \notin -1 .. n /\ Method[n] = Scope(Method, n)
    BY <1>1, <1>2, <1>3
<1>5. n > 0 /\ Home(n) > 0
    BY <1>4 DEF Scope
<1>6. Home(n) \in Nat /\ Home(n) < n /\ Method[n] = Method[Home(n)]
    BY <1>1, <1>4, <1>5, HomeBelow DEF Scope
<1>7. Home(n) \notin B
    BY <1>3, <1>4, <1>6
<1>8. Method[Home(n)] \in -1 .. Home(n)
    BY <1>1, <1>4, <1>6, <1>7
<1>. QED BY <1>4, <1>6, <1>8

-----------------------------------------------------------------------------
(* Actions within the running context.                                     *)

\* The frames that are pushed are frames.
LEMMA FrameTypes ==
    \A c \in {"NONE", "SKIP", "DIRECT"} :
        (\A h \in Int : RubyFrame(c, h) \in Frame) /\ (\A p \in BOOLEAN : CFrame(c, p) \in Frame)
    BY DEF RubyFrame, CFrame, Frame, CINFO

\* OP_SEND pushes a frame with bytecode.
LEMMA KeepSendRuby == FInv /\ SendRuby => FInv' /\ Tidy
<1>. SUFFICES ASSUME FInv, SendRuby PROVE FInv' /\ Tidy
    OBVIOUS
<1>. DEFINE f == RubyFrame("NONE", 0)
<1>1. f \in Frame /\ f.cci = "NONE" /\ f.handler = "none" /\ f.pend = -1 /\ f.home \in -1 .. Depth /\ f.fn = "rb"
  <2>1. Depth \in Nat /\ Depth > 0
      BY Here
  <2>2. f \in Frame
      BY <2>1, FrameTypes
  <2>. QED BY <2>1, <2>2 DEF RubyFrame
<1>2. /\ UNCHANGED <<cur, status, prev, vmexec, nest>> /\ InRuby /\ ci' = [ci EXCEPT ![cur] = Append(@, f)]
      /\ pc' = "rb" /\ brk' = 0
    BY Here DEF SendRuby, Push, InRuby, Position, At
<1>. HIDE DEF f
<1>. QED BY <1>1, <1>2, PushOwn

\* OP_BLKCALL pushes the frame of a block.
LEMMA KeepBlkCall == FInv /\ BlkCall => FInv' /\ Tidy
<1>. SUFFICES ASSUME FInv, BlkCall PROVE FInv' /\ Tidy
    OBVIOUS
<1>. DEFINE f == RubyFrame("NONE", Depth - 1)
<1>1. f \in Frame /\ f.cci = "NONE" /\ f.handler = "none" /\ f.pend = -1 /\ f.home \in -1 .. Depth /\ f.fn = "rb"
  <2>1. Depth \in Nat /\ Depth > 0
      BY Here
  <2>2. f \in Frame
      BY <2>1, FrameTypes
  <2>. QED BY <2>1, <2>2 DEF RubyFrame
<1>2. /\ UNCHANGED <<cur, status, prev, vmexec, nest>> /\ InRuby /\ ci' = [ci EXCEPT ![cur] = Append(@, f)]
      /\ pc' = "rb" /\ brk' = 0
    BY Here DEF BlkCall, Push, InRuby, Position, At
<1>. HIDE DEF f
<1>. QED BY <1>1, <1>2, PushOwn

\* OP_SEND pushes the frame of a C function.
LEMMA KeepSendC ==
    ASSUME FInv, NEW p \in BOOLEAN, SendC(p)
    PROVE  FInv' /\ Tidy
<1>. DEFINE f == CFrame("NONE", p)
<1>1. f \in Frame /\ f.cci = "NONE" /\ f.handler = "none" /\ f.pend = -1 /\ f.home \in -1 .. Depth /\ f.fn = "c"
  <2>1. Depth \in Nat /\ Depth > 0
      BY Here
  <2>2. f \in Frame
      BY <2>1, FrameTypes
  <2>. QED BY <2>1, <2>2 DEF CFrame
<1>2. /\ UNCHANGED <<cur, status, prev, vmexec, nest>> /\ InRuby /\ ci' = [ci EXCEPT ![cur] = Append(@, f)]
      /\ pc' = "c" /\ brk' = 0
    BY Here DEF SendC, Push, InRuby, Position, At
<1>. HIDE DEF f
<1>. QED BY <1>1, <1>2, PushOwn

\* A C function is called from bytecode and raises.
LEMMA KeepCallRaises ==
    ASSUME FInv, InRuby, CallRaises
    PROVE  FInv' /\ Tidy
<1>. DEFINE f == CFrame("NONE", FALSE)
<1>1. f \in Frame /\ f.cci = "NONE" /\ f.handler = "none" /\ f.pend = -1 /\ f.home \in -1 .. Depth /\ f.fn = "c"
  <2>1. Depth \in Nat /\ Depth > 0
      BY Here
  <2>2. f \in Frame
      BY <2>1, FrameTypes
  <2>. QED BY <2>1, <2>2 DEF CFrame
<1>2. /\ UNCHANGED <<cur, status, prev, vmexec, nest>> /\ ci' = [ci EXCEPT ![cur] = Append(@, f)]
      /\ pc' = "catch" /\ brk' = 0
    BY DEF CallRaises, Push, Exception
<1>. HIDE DEF f
<1>. QED BY <1>1, <1>2, PushOwn

\* The top frame with another handler and another pending jump
With(h, p) == [Top EXCEPT !.handler = h, !.pend = p]

\* The top frame keeps what is not its handler or its pending jump.
LEMMA WithFacts ==
    ASSUME FInv, NEW h \in {"none", "rescue", "ensure"}, NEW p \in Int
    PROVE  /\ With(h, p) \in Frame /\ With(h, p).fn = Top.fn /\ With(h, p).cci = Top.cci
           /\ With(h, p).home = Top.home /\ With(h, p).pend = p
    BY Here DEF With, Frame

\* What the ensure clause of the top frame has put off stays within the stack.
LEMMA TopPend ==
    ASSUME FInv
    PROVE  /\ Top.pend \in -1 .. Depth
           /\ vmexec[cur] /\ Top.pend > 0 => Plain(ci[cur], Top.pend, Depth)
           /\ Top.fn = "c" => Top.handler = "none" /\ Top.pend = -1
    BY Here DEF Stack, PlainStack

\* A begin block is entered.
LEMMA KeepBegin ==
    ASSUME FInv, NEW h \in {"rescue", "ensure"}, Begin(h)
    PROVE  FInv' /\ Tidy
<1>. DEFINE g == With(h, Top.pend)
            u == [ci[cur] EXCEPT ![Depth] = g]
<1>1. Top \in Frame /\ Depth \in Nat /\ Top.pend \in -1 .. Depth /\ cur \in Context /\ ci \in [Context -> Seq(Frame)] /\ Depth = Len(ci[cur]) /\ Depth > 0
    BY Here, TopPend
<1>2. g \in Frame /\ g.fn = Top.fn /\ g.cci = Top.cci /\ g.home = Top.home /\ g.pend = Top.pend
    BY <1>1, WithFacts
<1>3. /\ UNCHANGED <<cur, status, prev, vmexec, nest>> /\ pc = "rb" /\ Top.fn = "rb" /\ pc' = "rb" /\ brk' = 0
      /\ Top.pend = -1
    BY Here DEF Begin, InRuby, Position, At
<1>4. ci' = [ci EXCEPT ![cur] = u]
    BY <1>1 DEF Begin, With, Top, Frame
<1>5. /\ u \in Seq(Frame) /\ Len(u) = Depth /\ u[Depth] = g
      /\ \A i \in 1 .. Depth : i # Depth => u[i] = ci[cur][i]
    BY <1>1, <1>2
<1>. HIDE DEF g, u
<1>6. /\ g.fn = "rb" /\ g.pend \in -1 .. Depth /\ pc \in {"rb", "raise", "break"}
      /\ pc' \in {"rb", "raise", "break"} /\ brk' \in Nat /\ brk' <= Depth /\ (pc' = "break" <=> brk' > 0)
      /\ (vmexec[cur] /\ brk' > 0 => Plain(ci[cur], brk', Depth))
      /\ (vmexec[cur] /\ g.pend > 0 => Plain(ci[cur], g.pend, Depth))
    BY <1>1, <1>2, <1>3
<1>. QED BY <1>2, <1>3, <1>4, <1>5, <1>6, TopOwn

\* A begin block ends.
LEMMA KeepEndBegin == FInv /\ EndBegin => FInv' /\ Tidy
<1>. SUFFICES ASSUME FInv, EndBegin PROVE FInv' /\ Tidy
    OBVIOUS
<1>. DEFINE g == With("none", Top.pend)
            u == [ci[cur] EXCEPT ![Depth] = g]
<1>1. Top \in Frame /\ Depth \in Nat /\ Top.pend \in -1 .. Depth /\ cur \in Context /\ ci \in [Context -> Seq(Frame)] /\ Depth = Len(ci[cur]) /\ Depth > 0
      /\ (vmexec[cur] /\ Top.pend > 0 => Plain(ci[cur], Top.pend, Depth))
    BY Here, TopPend
<1>2. g \in Frame /\ g.fn = Top.fn /\ g.cci = Top.cci /\ g.home = Top.home /\ g.pend = Top.pend
    BY <1>1, WithFacts
<1>3. /\ UNCHANGED <<cur, status, prev, vmexec, nest>> /\ pc = "rb" /\ Top.fn = "rb" /\ pc' = "rb" /\ brk' = 0
    BY Here DEF EndBegin, InRuby, Position, At
<1>4. ci' = [ci EXCEPT ![cur] = u]
    BY <1>1 DEF EndBegin, With, Top, Frame
<1>5. /\ u \in Seq(Frame) /\ Len(u) = Depth /\ u[Depth] = g
      /\ \A i \in 1 .. Depth : i # Depth => u[i] = ci[cur][i]
    BY <1>1, <1>2
<1>. HIDE DEF g, u
<1>6. /\ g.fn = "rb" /\ g.pend \in -1 .. Depth /\ pc \in {"rb", "raise", "break"}
      /\ pc' \in {"rb", "raise", "break"} /\ brk' \in Nat /\ brk' <= Depth /\ (pc' = "break" <=> brk' > 0)
      /\ (vmexec[cur] /\ brk' > 0 => Plain(ci[cur], brk', Depth))
      /\ (vmexec[cur] /\ g.pend > 0 => Plain(ci[cur], g.pend, Depth))
    BY <1>1, <1>2, <1>3
<1>. QED BY <1>2, <1>3, <1>4, <1>5, <1>6, TopOwn

\* The end of an ensure clause takes up the exception or the break it interrupted.
LEMMA KeepRaiseIf == FInv /\ RaiseIf => FInv' /\ Tidy
<1>. SUFFICES ASSUME FInv, RaiseIf PROVE FInv' /\ Tidy
    OBVIOUS
<1>. DEFINE g == With(Top.handler, -1)
            u == [ci[cur] EXCEPT ![Depth] = g]
<1>1. Top \in Frame /\ Depth \in Nat /\ Top.pend \in -1 .. Depth /\ cur \in Context /\ ci \in [Context -> Seq(Frame)] /\ Depth = Len(ci[cur]) /\ Depth > 0
      /\ (vmexec[cur] /\ Top.pend > 0 => Plain(ci[cur], Top.pend, Depth)) /\ Top.handler \in {"none", "rescue", "ensure"}
    BY Here, TopPend DEF Frame
<1>2. g \in Frame /\ g.fn = Top.fn /\ g.cci = Top.cci /\ g.home = Top.home /\ g.pend = -1
    BY <1>1, WithFacts
<1>3. /\ UNCHANGED <<cur, status, prev, vmexec, nest>> /\ pc = "rb" /\ Top.fn = "rb"
      /\ brk' = Top.pend /\ Top.pend # -1 /\ pc' = IF Top.pend = 0 THEN "raise" ELSE "break"
    BY DEF RaiseIf, InRuby
<1>4. ci' = [ci EXCEPT ![cur] = u]
    BY <1>1 DEF RaiseIf, With, Top, Frame
<1>5. /\ u \in Seq(Frame) /\ Len(u) = Depth /\ u[Depth] = g
      /\ \A i \in 1 .. Depth : i # Depth => u[i] = ci[cur][i]
    BY <1>1, <1>2
<1>. HIDE DEF g, u
<1>6. brk' \in Nat /\ brk' <= Depth /\ (pc' = "break" <=> brk' > 0) /\ pc' \in {"rb", "raise", "break"}
    BY <1>1, <1>3
<1>7. /\ g.fn = "rb" /\ g.pend \in -1 .. Depth /\ pc \in {"rb", "raise", "break"}
      /\ pc' \in {"rb", "raise", "break"} /\ brk' \in Nat /\ brk' <= Depth /\ (pc' = "break" <=> brk' > 0)
      /\ (vmexec[cur] /\ brk' > 0 => Plain(ci[cur], brk', Depth))
      /\ (vmexec[cur] /\ g.pend > 0 => Plain(ci[cur], g.pend, Depth))
    BY <1>1, <1>2, <1>3, <1>6
<1>. QED BY <1>2, <1>3, <1>4, <1>5, <1>7, TopOwn

\* An exception finds a handler in the top frame.
LEMMA KeepHandle == FInv /\ Handle => FInv' /\ Tidy
<1>. SUFFICES ASSUME FInv, Handle PROVE FInv' /\ Tidy
    OBVIOUS
<1>. DEFINE q == IF Top.handler = "ensure" THEN 0 ELSE -1
            g == With("none", q)
            u == [ci[cur] EXCEPT ![Depth] = g]
<1>1. Top \in Frame /\ Depth \in Nat /\ cur \in Context /\ ci \in [Context -> Seq(Frame)] /\ Depth = Len(ci[cur]) /\ Depth > 0
    BY Here
<1>2. g \in Frame /\ g.fn = Top.fn /\ g.cci = Top.cci /\ g.home = Top.home /\ g.pend = q
    BY <1>1, WithFacts
<1>3. /\ UNCHANGED <<cur, status, prev, vmexec, nest>> /\ pc = "raise" /\ Top.handler # "none" /\ pc' = "rb" /\ brk' = 0
    BY Here DEF Handle, Position, At
<1>4. ci' = [ci EXCEPT ![cur] = u]
    BY ZenonT(60), <1>1 DEF Handle, With, Top, Frame
<1>5. Top.fn = "rb"
    BY <1>1, <1>3, TopPend DEF Frame
<1>6. /\ u \in Seq(Frame) /\ Len(u) = Depth /\ u[Depth] = g
      /\ \A i \in 1 .. Depth : i # Depth => u[i] = ci[cur][i]
    BY <1>1, <1>2
<1>. HIDE DEF g, u
<1>7. /\ g.fn = "rb" /\ g.pend \in -1 .. Depth /\ pc \in {"rb", "raise", "break"}
      /\ pc' \in {"rb", "raise", "break"} /\ brk' \in Nat /\ brk' <= Depth /\ (pc' = "break" <=> brk' > 0)
      /\ (vmexec[cur] /\ brk' > 0 => Plain(ci[cur], brk', Depth))
      /\ (vmexec[cur] /\ g.pend > 0 => Plain(ci[cur], g.pend, Depth))
    BY <1>1, <1>2, <1>3, <1>5
<1>. QED BY <1>2, <1>3, <1>4, <1>6, <1>7, TopOwn

\* A break runs the ensure clause of the top frame first.
LEMMA KeepBreakEnsure == FInv /\ BreakEnsure => FInv' /\ Tidy
<1>. SUFFICES ASSUME FInv, BreakEnsure PROVE FInv' /\ Tidy
    OBVIOUS
<1>. DEFINE g == With("none", brk)
            u == [ci[cur] EXCEPT ![Depth] = g]
<1>1. Top \in Frame /\ Depth \in Nat /\ cur \in Context /\ ci \in [Context -> Seq(Frame)] /\ Depth = Len(ci[cur]) /\ Depth > 0
      /\ brk \in Nat /\ brk <= Depth /\ (brk > 0 /\ vmexec[cur] => Plain(ci[cur], brk, Depth))
    BY Here DEF Position, At
<1>2. g \in Frame /\ g.fn = Top.fn /\ g.cci = Top.cci /\ g.home = Top.home /\ g.pend = brk
    BY <1>1, WithFacts
<1>3. /\ UNCHANGED <<cur, status, prev, vmexec, nest>> /\ pc = "break" /\ Top.handler # "none" /\ pc' = "rb" /\ brk' = 0
    BY DEF BreakEnsure, Exception
<1>4. ci' = [ci EXCEPT ![cur] = u]
    BY <1>1 DEF BreakEnsure, With, Top, Frame
<1>5. Top.fn = "rb"
    BY <1>1, <1>3, TopPend DEF Frame
<1>6. /\ u \in Seq(Frame) /\ Len(u) = Depth /\ u[Depth] = g
      /\ \A i \in 1 .. Depth : i # Depth => u[i] = ci[cur][i]
    BY <1>1, <1>2
<1>. HIDE DEF g, u
<1>7. /\ g.fn = "rb" /\ g.pend \in -1 .. Depth /\ pc \in {"rb", "raise", "break"}
      /\ pc' \in {"rb", "raise", "break"} /\ brk' \in Nat /\ brk' <= Depth /\ (pc' = "break" <=> brk' > 0)
      /\ (vmexec[cur] /\ brk' > 0 => Plain(ci[cur], brk', Depth))
      /\ (vmexec[cur] /\ g.pend > 0 => Plain(ci[cur], g.pend, Depth))
    BY <1>1, <1>2, <1>3, <1>5
<1>. QED BY <1>2, <1>3, <1>4, <1>6, <1>7, TopOwn

\* Bytecode raises.
LEMMA KeepRaise == FInv /\ Raise => FInv' /\ Tidy
<1>. SUFFICES ASSUME FInv, Raise PROVE FInv' /\ Tidy
    OBVIOUS
<1>1. /\ UNCHANGED <<cur, status, prev, vmexec, nest, ci>> /\ pc = "rb" /\ pc' = "raise" /\ brk' = 0
      /\ Depth \in Nat
    BY Here DEF Raise, InRuby, Exception
<1>. QED BY <1>1, StayOwn

\* A C function raises.
LEMMA KeepRaiseInC == FInv /\ RaiseInC => FInv' /\ Tidy
<1>. SUFFICES ASSUME FInv, RaiseInC PROVE FInv' /\ Tidy
    OBVIOUS
<1>1. /\ UNCHANGED <<cur, status, prev, vmexec, nest, ci>> /\ pc = "c" /\ pc' = "catch" /\ brk' = 0
      /\ Depth \in Nat
    BY Here DEF RaiseInC, InC, Exception
<1>. QED BY <1>1, StayOwn

\* OP_RETURN unwinds to its own frame.
LEMMA KeepReturn == FInv /\ Return => FInv' /\ Tidy
<1>. SUFFICES ASSUME FInv, Return PROVE FInv' /\ Tidy
    OBVIOUS
<1>1. /\ UNCHANGED <<cur, status, prev, vmexec, nest, ci>> /\ pc = "rb" /\ pc' = "break" /\ brk' = Depth
      /\ Depth \in Nat /\ Depth > 0
    BY Here DEF Return, InRuby
<1>2. Plain(ci[cur], Depth, Depth)
    BY <1>1 DEF Plain
<1>. QED BY <1>1, <1>2, StayOwn

\* In a context that C code resumed no jump leaves a C function.
LEMMA KeepJumpTo ==
    ASSUME FInv, Contained, NEW d \in Int, d <= Depth, JumpTo(d)
    PROVE  FInv' /\ Tidy
<1>1. UNCHANGED <<cur, status, prev, vmexec, nest, ci>> /\ pc = "rb" /\ MayCross /\ Depth \in Nat
    BY Here DEF JumpTo, InRuby
<1>2. CASE pc' = "raise" /\ Exception
    BY <1>1, <1>2, StayOwn DEF Exception
<1>3. CASE d > 0 /\ pc' = "break" /\ brk' = d
  <2>1. ASSUME vmexec[cur] PROVE Plain(ci[cur], d, Depth)
    <3>1. \A i \in 1 .. Len(ci[cur]) : ci[cur][i].cci = "NONE"
        BY <1>1, <2>1, Here DEF Contained, MayCross
    <3>2. \A i \in d + 1 .. Depth : i \in 1 .. Len(ci[cur])
        BY <1>1, <1>3, Here
    <3>. QED BY <3>1, <3>2 DEF Plain
  <2>2. brk' \in Nat /\ brk' <= Depth /\ brk' > 0
      BY <1>3
  <2>. QED BY <1>1, <1>3, <2>1, <2>2, StayOwn
<1>. QED BY <1>2, <1>3 DEF JumpTo

\* OP_BREAK goes to a frame below, and crosses no C function in a fiber that C code resumed.
LEMMA KeepBreak == FInv /\ Contained /\ Break => FInv' /\ Tidy
<1>. SUFFICES ASSUME FInv, Contained, Break PROVE FInv' /\ Tidy
    OBVIOUS
<1>1. Depth \in Nat /\ Depth > 0 /\ Top.home = Home(Depth)
    BY Here DEF Home
<1>2. Top.home \in Int /\ Top.home < Depth
    BY <1>1, HomeBelow
<1>. DEFINE d == IF Top.home = -1 THEN -1 ELSE Top.home + 1
<1>3. d \in Int /\ d <= Depth /\ JumpTo(d)
    BY <1>1, <1>2 DEF Break
<1>. QED BY <1>3, KeepJumpTo

\* OP_RETURN_BLK goes to the method the block is written in, below it.
LEMMA KeepReturnBlk == FInv /\ Contained /\ ReturnBlk => FInv' /\ Tidy
<1>. SUFFICES ASSUME FInv, Contained, ReturnBlk PROVE FInv' /\ Tidy
    OBVIOUS
<1>1. Method[Depth] \in Int /\ Method[Depth] <= Depth /\ JumpTo(Method[Depth])
    BY MethodBelow, Here DEF ReturnBlk
<1>. QED BY <1>1, KeepJumpTo

\* A frame of C code is never the first, and lies on bytecode unless mrb_funcall pushed it.
LEMMA OnTop ==
    ASSUME FInv
    PROVE  /\ Top.cci \in {"NONE", "SKIP", "DIRECT"}
           /\ Top.fn = "c" => Depth > 1
           /\ Depth = 1 => Top.cci = "NONE"
           /\ Depth > 1 /\ Top.cci # "NONE" => ci[cur][Depth - 1].fn = "c" /\ ci[cur][Depth - 1].cci = "NONE"
           /\ pc # "catch" => Top.cci # "DIRECT"
           /\ Top.cci = "SKIP" => Top.fn = "rb"
    BY Here DEF Stack, NoDirect

\* A C function returns to bytecode.
LEMMA KeepReturnFromC == FInv /\ ReturnFromC => FInv' /\ Tidy
<1>. SUFFICES ASSUME FInv, ReturnFromC PROVE FInv' /\ Tidy
    OBVIOUS
<1>1. /\ UNCHANGED <<cur, status, prev, vmexec, nest>> /\ pc = "c" /\ Top.fn = "c" /\ pc' = "rb" /\ brk' = 0
      /\ ci' = [ci EXCEPT ![cur] = Front(@)]
    BY Here DEF ReturnFromC, InC, Pop, Position, At
<1>2. Depth > 1 /\ Top.cci = "NONE" /\ Top.handler # "ensure"
    BY <1>1, OnTop, TopPend
<1>. QED BY <1>1, <1>2, PopOwn

\* A frame that no activation runs is unwound.
LEMMA KeepUnwindNone ==
    ASSUME FInv, pc \in {"raise", "break"}, Top.cci = "NONE", Top.handler # "ensure", Depth > 1, brk < Depth,
           Pop, UNCHANGED <<cur, status, prev, vmexec, nest, pc, brk>>
    PROVE  FInv' /\ Tidy
<1>1. ci' = [ci EXCEPT ![cur] = Front(@)]
    BY DEF Pop
<1>. QED BY <1>1, PopOwn

\* A frame that no activation runs returns.
LEMMA KeepReturnNone ==
    ASSUME FInv, pc = "break", Top.cci = "NONE", Top.handler # "ensure", Depth > 1, brk' = 0,
           Pop, pc' = "rb", UNCHANGED <<cur, status, prev, vmexec, nest>>
    PROVE  FInv' /\ Tidy
<1>1. ci' = [ci EXCEPT ![cur] = Front(@)]
    BY DEF Pop
<1>. QED BY <1>1, PopOwn

\* Nothing lies on a frame of mrb_funcall.
LEMMA DirectOnTop ==
    ASSUME NEW s, Stack(s), NEW i \in 1 .. Len(s), i # Len(s)
    PROVE  s[i].cci # "DIRECT"
<1>. DEFINE j == i + 1
<1>1. Len(s) \in Nat /\ j \in 1 .. Len(s) /\ j > 1 /\ j - 1 = i
    BY DEF Stack
<1>. HIDE DEF j
<1>2. s[j - 1].fn = "rb" \/ s[j - 1].cci = "NONE"
    BY <1>1 DEF Stack
<1>3. s[i].cci = "DIRECT" => s[i].fn = "c"
    BY DEF Stack
<1>. QED BY <1>1, <1>2, <1>3

\* Only one frame of mrb_funcall can be on top.
LEMMA BelowDirectTop ==
    ASSUME NEW s, Stack(s), s # << >>
    PROVE  BelowDirect(s) = IF s[Len(s)].cci = "DIRECT" THEN Len(s) - 1 ELSE Len(s)
<1>. DEFINE N == {n \in 0 .. Len(s) : n <= 1 \/ s[n].cci # "DIRECT"}
            k == IF s[Len(s)].cci = "DIRECT" THEN Len(s) - 1 ELSE Len(s)
<1>1. Len(s) \in Nat /\ Len(s) > 0
    BY DEF Stack
<1>2. s[Len(s)].cci = "DIRECT" => Len(s) > 1 /\ s[Len(s) - 1].cci = "NONE"
    BY <1>1 DEF Stack
<1>3. k \in N /\ N \subseteq Int /\ \A n \in N : n <= k
    BY <1>1, <1>2
<1>. HIDE DEF N, k
<1>4. Max(N) = k
  <2>1. \E x \in N : \A n \in N : x >= n
      BY <1>3
  <2>2. Max(N) \in N /\ \A n \in N : Max(N) >= n
      BY <2>1 DEF Max
  <2>. DEFINE m == Max(N)
  <2>3. m \in Int /\ k \in Int /\ m >= k /\ m <= k
      BY <1>3, <2>2
  <2>. HIDE DEF m
  <2>4. m = k
      BY <2>3
  <2>. QED BY <2>4 DEF m
<1>. QED BY <1>4 DEF BelowDirect, N, k

\* The frames of a stack up to one of them
LEMMA Prefix ==
    ASSUME NEW s \in Seq(Frame), NEW k \in 0 .. Len(s), k = Len(s) \/ k = Len(s) - 1
    PROVE  SubSeq(s, 1, k) = IF k = Len(s) THEN s ELSE Front(s)
<1>1. Len(s) \in Nat /\ k \in Nat
    OBVIOUS
<1>2. CASE k = Len(s)
  <2>1. SubSeq(s, 1, Len(s)) = s
      OBVIOUS
  <2>. QED BY <1>2, <2>1
<1>3. CASE k = Len(s) - 1
    BY <1>1, <1>3 DEF Front
<1>. QED BY <1>2, <1>3

\* MRB_CATCH drops the frame of mrb_funcall.
LEMMA KeepCatch == FInv /\ Catch => FInv' /\ Tidy
<1>. SUFFICES ASSUME FInv, Catch PROVE FInv' /\ Tidy
    OBVIOUS
<1>. DEFINE s == ci[cur]
            k == BelowDirect(s)
            t == SubSeq(s, 1, k)
<1>1. /\ Stack(s) /\ s # << >> /\ Len(s) \in Nat /\ Len(s) > 0 /\ Len(s) = Depth /\ s \in Seq(Frame)
      /\ (vmexec[cur] => PlainStack(s)) /\ ci \in [Context -> Seq(Frame)] /\ cur \in Context
      /\ At(s, vmexec[cur], pc, brk) /\ brk \in Nat
    BY Here DEF Position
<1>2. /\ UNCHANGED <<cur, status, prev, vmexec, nest, brk>> /\ pc = "catch"
      /\ pc' = IF brk = 0 THEN "raise" ELSE "break"
      /\ ci' = [ci EXCEPT ![cur] = t]
    BY DEF Catch
<1>3. k = IF s[Len(s)].cci = "DIRECT" THEN Len(s) - 1 ELSE Len(s)
    BY <1>1, BelowDirectTop
<1>4. t = IF s[Len(s)].cci = "DIRECT" THEN Front(s) ELSE s
    BY <1>1, <1>3, Prefix
<1>. HIDE DEF s, k, t
<1>5. CASE s[Len(s)].cci # "DIRECT"
  <2>1. \A i \in 1 .. Len(s) : s[i].cci # "DIRECT"
      BY <1>1, <1>5, DirectOnTop
  <2>2. SameSkips(s, s) /\ NoDirect(s)
      BY <2>1 DEF SameSkips, NoDirect
  <2>3. At(s, vmexec[cur], pc', brk)
      BY <1>1, <1>2, <1>5 DEF At
  <2>4. Keeps(s, s)
      BY <1>1, KeepsAll
  <2>. QED BY <1>1, <1>2, <1>4, <1>5, <2>2, <2>3, <2>4, OwnStep DEF s, Running
<1>6. CASE s[Len(s)].cci = "DIRECT"
  <2>1. /\ Stack(t) /\ Len(t) = Len(s) - 1 /\ \A i \in 1 .. Len(s) - 1 : t[i] = s[i]
        /\ PlainStack(s) => PlainStack(t)
      BY <1>1, <1>4, <1>6, PopStack
  <2>2. Len(s) > 1 /\ s[Len(s) - 1].cci = "NONE"
      BY <1>1, <1>6 DEF Stack
  <2>3. \A i \in 1 .. Len(t) : t[i].cci # "DIRECT"
    <3>1. \A i \in 1 .. Len(t) : i \in 1 .. Len(s) /\ i # Len(s) /\ t[i] = s[i]
        BY <1>1, <2>1
    <3>. QED BY <1>1, <3>1, DirectOnTop
  <2>4. SameSkips(s, t) /\ NoDirect(t) /\ t # << >>
      BY <1>1, <1>6, <2>1, <2>2, <2>3 DEF SameSkips, NoDirect
  <2>5. brk = 0
      BY <1>1, <1>6 DEF At
  <2>6. At(t, vmexec[cur], pc', brk)
      BY <1>2, <2>1, <2>2, <2>5, <1>1 DEF At
  <2>7. Keeps(s, t)
    <3>1. s[Len(s)].handler # "ensure"
        BY <1>1, <1>6 DEF Stack
    <3>. QED BY <1>1, <1>4, <1>6, <3>1, KeepsBelow
  <2>. QED BY <1>1, <1>2, <2>1, <2>4, <2>5, <2>6, <2>7, OwnStep DEF s, Running
<1>. QED BY <1>5, <1>6

-----------------------------------------------------------------------------
(* The innermost activation.                                               *)

\* Activations after the first wait in C functions.
LEMMA ActFacts ==
    ASSUME NEW S, NEW pos, Story(S, pos)
    PROVE  /\ nest \in Seq(Act) /\ Len(nest) \in Nat
           /\ \A n \in 2 .. Len(nest) : /\ n \in 1 .. Len(nest) /\ nest[n] \in Act /\ Waits(S, nest[n])
                                        /\ nest[n].by \in {"yield", "resume"} /\ nest[n].depth \in Nat
<1>1. nest \in Seq(Act) /\ CStack(S, pos)
    BY DEF Story, CStack
<1>2. Len(nest) \in Nat /\ \A n \in 2 .. Len(nest) : n \in 1 .. Len(nest) /\ n # 1 /\ nest[n] \in Act
    BY <1>1
<1>3. \A n \in 2 .. Len(nest) : Waits(S, nest[n]) /\ nest[n].by # "top"
    BY <1>1, <1>2 DEF CStack
<1>. QED BY <1>1, <1>2, <1>3 DEF Act

\* A block that C code called has its activation.
LEMMA SkipHasAct ==
    ASSUME NEW S, NEW pos, CStack(S, pos), NEW x \in Context, NEW i \in 1 .. Len(ci[x]), ci[x][i].cci = "SKIP"
    PROVE  \E n \in 2 .. Len(nest) : nest[n] = Activation("yield", x, i - 1, "NONE")
    BY DEF CStack

\* C code that resumed a fiber waits in another context than the running one.
LEMMA ResumesElsewhere ==
    ASSUME Contexts, NEW S, NEW pos, Story(S, pos), NEW n \in 2 .. Len(nest), nest[n].by = "resume"
    PROVE  nest[n].cxt # cur
<1>1. PICK y \in S : prev[y] = nest[n].cxt
    BY ActFacts DEF Waits
<1>2. nest[n].cxt \in Context
    BY ActFacts DEF Act
<1>. QED BY <1>1, <1>2, NotResumer, ContextNotNull DEF Story

\* A block that C code called is on top: its activation is the innermost.
LEMMA LastYield ==
    ASSUME FInv, NEW S, NEW pos, Story(S, pos), Top.cci = "SKIP"
    PROVE  Len(nest) >= 2 /\ nest[Len(nest)] = Activation("yield", cur, Depth - 1, "NONE")
<1>1. Contexts /\ Depth \in 1 .. Len(ci[cur]) /\ Depth \in Nat /\ cur \in Context /\ Depth = Len(ci[cur])
    BY Here
<1>2. PICK n \in 2 .. Len(nest) : nest[n] = Activation("yield", cur, Depth - 1, "NONE")
    BY <1>1 DEF Story, CStack, Top
<1>. DEFINE m == Len(nest)
<1>3. m \in Nat /\ m \in 2 .. Len(nest) /\ nest[m] \in Act /\ Waits(S, nest[m]) /\ nest[m].depth \in Nat
      /\ nest[m].by \in {"yield", "resume"}
    BY <1>2, ActFacts
<1>4. ASSUME n < m PROVE FALSE
  <2>1. Before(pos, nest[n], nest[m])
      BY <1>2, <1>3, <1>4 DEF Story, CStack
  <2>2. nest[m].cxt \in S /\ pos[nest[m].cxt] \in Nat /\ pos[cur] \in Nat /\ pos[nest[m].cxt] <= pos[cur]
      BY <1>3 DEF Waits, Story, Path
  <2>3. nest[n].cxt = cur /\ nest[n].depth = Depth - 1
      BY <1>2 DEF Activation
  <2>4. nest[m].cxt = cur /\ Depth - 1 < nest[m].depth
      BY <2>1, <2>2, <2>3 DEF Before
  <2>5. nest[m].by = "yield"
      BY <1>1, <1>3, <2>4, ResumesElsewhere
  <2>. QED BY <1>1, <1>3, <2>4, <2>5 DEF Waits
<1>. QED BY <1>2, <1>3, <1>4

\* C code resumed the running fiber, which has called no block from C: the
\* innermost activation is the one that runs the fiber.
LEMMA LastResume ==
    ASSUME FInv, NEW S, NEW pos, Story(S, pos), vmexec[cur],
           \A i \in 1 .. Len(ci[cur]) : ci[cur][i].cci # "SKIP"
    PROVE  /\ Len(nest) >= 2 /\ prev[cur] # NULL
           /\ nest[Len(nest)].by = "resume" /\ nest[Len(nest)].cxt = prev[cur]
           /\ nest[Len(nest)].depth = Len(ci[prev[cur]])
           /\ nest[Len(nest)].cci = ci[prev[cur]][Len(ci[prev[cur]])].cci
<1>1. Contexts /\ cur \in Context /\ status[cur] = "RUNNING"
    BY Here DEF Contexts
<1>2. /\ cur \in S /\ prev[cur] # NULL
      /\ \E n \in 2 .. Len(nest) : nest[n].by = "resume" /\ nest[n].cxt = prev[cur]
    BY <1>1 DEF Story, CStack
<1>3. PICK n \in 2 .. Len(nest) : nest[n].by = "resume" /\ nest[n].cxt = prev[cur]
    BY <1>2
<1>. DEFINE m == Len(nest)
<1>4. m \in Nat /\ m \in 2 .. Len(nest) /\ nest[m] \in Act /\ Waits(S, nest[m]) /\ nest[m].depth \in Nat
      /\ nest[m].by \in {"yield", "resume"} /\ Waits(S, nest[n]) /\ nest[n].depth \in Nat
    BY <1>3, ActFacts
<1>5. nest[n].depth = Len(ci[prev[cur]]) /\ nest[n].cci = ci[prev[cur]][Len(ci[prev[cur]])].cci
    BY <1>3, <1>4 DEF Waits
<1>6. ASSUME n < m PROVE FALSE
  <2>1. Before(pos, nest[n], nest[m])
      BY <1>3, <1>4, <1>6 DEF Story, CStack
  <2>2. /\ nest[m].cxt \in S /\ pos[nest[m].cxt] \in Nat /\ pos[cur] \in Nat /\ pos[nest[m].cxt] <= pos[cur]
        /\ prev[cur] \in S /\ pos[prev[cur]] \in Nat /\ pos[cur] = pos[prev[cur]] + 1
    <3>1. nest[m].cxt \in S /\ Path(S, pos)
        BY <1>4 DEF Waits, Story
    <3>2. prev[cur] \in S /\ pos[cur] = pos[prev[cur]] + 1
        BY <1>2, <3>1 DEF Path
    <3>3. \A x \in S : pos[x] \in Nat /\ (x # cur => pos[x] < pos[cur])
        BY <3>1 DEF Path
    <3>. QED BY <1>2, <3>1, <3>2, <3>3
  <2>3. nest[m].cxt = cur \/ (nest[m].cxt = prev[cur] /\ nest[n].depth < nest[m].depth)
    <3>1. CASE pos[prev[cur]] < pos[nest[m].cxt]
      <4>1. pos[nest[m].cxt] = pos[cur]
          BY <2>2, <3>1
      <4>. QED BY <1>2, <2>2, <4>1 DEF Story, Path
    <3>2. CASE nest[n].cxt = nest[m].cxt /\ nest[n].depth < nest[m].depth
        BY <1>3, <3>2
    <3>. QED BY <1>3, <2>1, <3>1, <3>2 DEF Before
  <2>4. CASE nest[m].cxt = cur
    <3>1. nest[m].by = "yield"
        BY <1>1, <1>4, <2>4, ResumesElsewhere
    <3>2. nest[m].depth < Len(ci[cur]) /\ nest[m].depth > 0 /\ ci[cur][nest[m].depth + 1].cci = "SKIP"
        BY <1>4, <2>4, <3>1 DEF Waits
    <3>3. nest[m].depth + 1 \in 1 .. Len(ci[cur])
        BY <1>4, <3>2, Here
    <3>. QED BY <3>2, <3>3
  <2>5. CASE nest[m].cxt = prev[cur] /\ nest[n].depth < nest[m].depth
      BY <1>4, <1>5, <2>5 DEF Waits
  <2>. QED BY <2>3, <2>4, <2>5
<1>. QED BY <1>2, <1>3, <1>4, <1>5, <1>6

\* Nobody resumed the running context, and it has called no block from C: only
\* the outermost activation is there.
LEMMA LoneActivation ==
    ASSUME FInv, NEW S, NEW pos, Story(S, pos), prev[cur] = NULL, pc # "done",
           \A i \in 1 .. Len(ci[cur]) : ci[cur][i].cci # "SKIP"
    PROVE  Len(nest) = 1 /\ nest[1].by = "top" /\ S = {cur}
<1>1. Contexts /\ cur \in Context
    BY Here
<1>2. S = {cur}
  <2>1. cur \in S /\ pos[cur] = 0 /\ \A x \in S : x # cur => pos[x] \in Nat /\ pos[x] < pos[cur]
      BY DEF Story, Path
  <2>. QED BY <2>1
<1>3. Len(nest) \in Nat /\ Len(nest) > 0
  <2>1. nest \in Seq(Act) /\ nest # << >>
      BY DEF Story, CStack
  <2>. QED BY <2>1
<1>4. ASSUME Len(nest) >= 2 PROVE FALSE
  <2>. DEFINE e == nest[2]
  <2>1. 2 \in 2 .. Len(nest) /\ Waits(S, e) /\ e.depth \in Nat /\ e.by \in {"yield", "resume"}
      BY <1>3, <1>4, ActFacts
  <2>2. e.cxt = cur
      BY <1>2, <2>1 DEF Waits
  <2>3. e.by = "yield"
      BY <1>1, <2>1, <2>2, ResumesElsewhere
  <2>4. e.depth < Len(ci[cur]) /\ e.depth > 0 /\ ci[cur][e.depth + 1].cci = "SKIP"
      BY <2>1, <2>2, <2>3 DEF Waits
  <2>5. e.depth + 1 \in 1 .. Len(ci[cur])
      BY <2>1, <2>4, Here
  <2>. QED BY <2>4, <2>5
<1>5. Len(nest) = 1 /\ 1 \in 1 .. Len(nest)
  <2>1. \A k \in Nat : k > 0 /\ ~(k >= 2) => k = 1 /\ 1 \in 1 .. k
      OBVIOUS
  <2>. QED BY <1>3, <1>4, <2>1
<1>6. nest[1].by = "top"
    BY <1>5 DEF Story, CStack
<1>. QED BY <1>2, <1>5, <1>6

-----------------------------------------------------------------------------
(* C code calls a block, and the block ends.                               *)

\* A new activation waits above all others.
LEMMA KeepYield == FInv /\ mrb_yield => FInv' /\ Tidy
<1>. SUFFICES ASSUME FInv, mrb_yield PROVE FInv' /\ Tidy
    OBVIOUS
<1>. DEFINE s == ci[cur]
            f == RubyFrame("SKIP", Depth - 1)
            t == Append(s, f)
            a == Activation("yield", cur, Depth, "NONE")
<1>1. /\ Stack(s) /\ s # << >> /\ Len(s) \in Nat /\ Len(s) > 0 /\ Len(s) = Depth /\ s \in Seq(Frame)
      /\ (vmexec[cur] => PlainStack(s)) /\ ci \in [Context -> Seq(Frame)] /\ cur \in Context
      /\ Contexts /\ Position /\ Top = s[Len(s)]
    BY Here
<1>2. /\ UNCHANGED <<cur, status, prev, vmexec, brk>> /\ pc = "c" /\ Top.fn = "c" /\ pc' = "rb"
      /\ ci' = [ci EXCEPT ![cur] = t] /\ nest' = Append(nest, a)
    BY DEF mrb_yield, InC, Push
<1>3. Top.cci = "NONE" /\ brk = 0 /\ NoDirect(s)
    BY <1>1, <1>2, OnTop, Here DEF Position, At
<1>4. f \in Frame /\ f.cci = "SKIP" /\ f.fn = "rb" /\ f.handler = "none" /\ f.pend = -1 /\ f.home \in -1 .. Len(s)
  <2>1. f \in Frame
      BY <1>1, FrameTypes
  <2>. QED BY <1>1, <2>1 DEF RubyFrame
<1>. HIDE DEF f
<1>5. /\ Stack(t) /\ t # << >> /\ Len(t) = Len(s) + 1 /\ t[Len(s) + 1] = f
      /\ \A i \in 1 .. Len(s) : t[i] = s[i]
      /\ PlainStack(s) => PlainStack(t)
    BY <1>1, <1>2, <1>3, <1>4, PushStack
<1>. HIDE DEF t
<1>6. Contexts' /\ ci'[cur] = t /\ \A x \in Context : x # cur => ci'[x] = ci[x]
    BY <1>1, <1>2, <1>5, OwnContexts
<1>7. Position'
  <2>1. At(t, vmexec[cur], "rb", 0)
      BY <1>1, <1>4, <1>5 DEF At
  <2>2. \A x \in Context : vmexec[x] => PlainStack(ci'[x])
      BY <1>1, <1>5, <1>6 DEF Position
  <2>. QED BY <1>2, <1>3, <1>6, <2>1, <2>2 DEF Position, Running
<1>8. PICK S \in SUBSET Context, pos \in [Context -> Nat] : Story(S, pos)
    BY DEF FInv
<1>9. Path(S, pos)'
    BY <1>2, <1>8 DEF Story, Path
<1>10. CStack(S, pos)
    BY <1>8 DEF Story
<1>. DEFINE L == Len(nest)
<1>11. /\ nest \in Seq(Act) /\ L \in Nat /\ L > 0 /\ a \in Act /\ nest' \in Seq(Act) /\ Len(nest') = L + 1
       /\ nest'[L + 1] = a /\ \A n \in 1 .. L : nest'[n] = nest[n]
  <2>1. nest \in Seq(Act) /\ nest # << >>
      BY <1>2, <1>10 DEF CStack
  <2>2. a \in Act
      BY <1>1 DEF Act, Activation
  <2>. QED BY <1>2, <2>1, <2>2
<1>12. a.by = "yield" /\ a.cxt = cur /\ a.depth = Len(s) /\ a.cci = "NONE"
    BY <1>1 DEF Activation
<1>. HIDE DEF a
<1>13. \A n \in 2 .. L : /\ n \in 1 .. L /\ nest'[n] = nest[n] /\ nest[n] \in Act /\ Waits(S, nest[n])
                         /\ nest[n].by \in {"yield", "resume"} /\ nest[n].depth \in Nat
    BY <1>8, <1>11, ActFacts
<1>14. ASSUME NEW n \in 2 .. L + 1 PROVE Waits(S, nest[n])'
  <2>1. CASE n = L + 1
    <3>1. cur \in S
        BY <1>8 DEF Story, Path
    <3>2. a.depth > 0 /\ a.depth < Len(t) /\ t[a.depth + 1].cci = "SKIP"
        BY <1>1, <1>4, <1>5, <1>12
    <3>. QED BY <1>6, <1>11, <1>12, <2>1, <3>1, <3>2 DEF Waits
  <2>2. CASE n \in 2 .. L
    <3>. DEFINE e == nest[n]
    <3>1. nest'[n] = e /\ e \in Act /\ Waits(S, e) /\ e.by \in {"yield", "resume"} /\ e.depth \in Nat /\ e.cxt \in Context
        BY <1>13, <2>2 DEF Act
    <3>2. CASE e.cxt # cur
      <4>1. ci'[e.cxt] = ci[e.cxt]
          BY <1>6, <3>1, <3>2
      <4>. QED BY <1>2, <3>1, <4>1 DEF Waits
    <3>3. CASE e.cxt = cur
      <4>1. e.by = "yield"
          BY <1>1, <1>8, <2>2, <3>1, <3>3, ResumesElsewhere
      <4>2. e.cxt \in S /\ e.cci = "NONE" /\ e.depth > 0 /\ e.depth < Len(s) /\ s[e.depth + 1].cci = "SKIP"
          BY <3>1, <3>3, <4>1 DEF Waits
      <4>3. e.depth + 1 \in 1 .. Len(s) /\ e.depth < Len(t)
          BY <1>1, <1>5, <3>1, <4>2
      <4>4. t[e.depth + 1].cci = "SKIP"
          BY <1>5, <4>2, <4>3
      <4>. QED BY <1>6, <3>1, <3>3, <4>1, <4>2, <4>3, <4>4 DEF Waits
    <3>. QED BY <3>2, <3>3
  <2>. QED BY <1>11, <2>1, <2>2
<1>15. ASSUME NEW m \in 2 .. L + 1, NEW n \in 2 .. L + 1, m < n PROVE Before(pos, nest'[m], nest'[n])
  <2>1. m \in 2 .. L /\ nest'[m] = nest[m]
      BY <1>11, <1>13, <1>15
  <2>2. CASE n \in 2 .. L
      BY <1>10, <1>13, <1>15, <2>1, <2>2 DEF CStack
  <2>3. CASE n = L + 1
    <3>. DEFINE e == nest[m]
    <3>1. e \in Act /\ Waits(S, e) /\ e.by \in {"yield", "resume"} /\ e.depth \in Nat
        BY <1>13, <2>1
    <3>2. CASE e.cxt = cur
      <4>1. e.by = "yield"
          BY <1>1, <1>8, <2>1, <3>1, <3>2, ResumesElsewhere
      <4>2. e.depth < Len(s)
          BY <3>1, <3>2, <4>1 DEF Waits
      <4>. QED BY <1>11, <1>12, <2>1, <2>3, <3>2, <4>2 DEF Before
    <3>3. CASE e.cxt # cur
      <4>1. pos[e.cxt] < pos[cur]
          BY <1>8, <3>1, <3>3 DEF Story, Path, Waits
      <4>. QED BY <1>11, <1>12, <2>1, <2>3, <4>1 DEF Before
    <3>. QED BY <3>2, <3>3
  <2>. QED BY <1>11, <2>2, <2>3
<1>16. ASSUME NEW x \in Context, NEW i \in 1 .. Len(ci'[x]), ci'[x][i].cci = "SKIP"
       PROVE  \E n \in 2 .. L + 1 : nest'[n] = Activation("yield", x, i - 1, "NONE")
  <2>1. CASE x = cur /\ i = Len(s) + 1
    <3>1. a = Activation("yield", cur, i - 1, "NONE")
        BY <1>1, <2>1 DEF a
    <3>2. L + 1 \in 2 .. L + 1
        BY <1>11
    <3>. QED BY <1>11, <2>1, <3>1, <3>2
  <2>2. CASE ~(x = cur /\ i = Len(s) + 1)
    <3>1. i \in 1 .. Len(ci[x]) /\ ci[x][i].cci = "SKIP"
      <4>1. CASE x # cur
          BY <1>6, <1>16, <4>1
      <4>2. CASE x = cur
          BY <1>1, <1>5, <1>6, <1>16, <2>2, <4>2
      <4>. QED BY <4>1, <4>2
    <3>2. PICK n \in 2 .. L : nest[n] = Activation("yield", x, i - 1, "NONE")
        BY <1>10, <3>1, SkipHasAct
    <3>. QED BY <1>11, <1>13, <3>2
  <2>. QED BY <2>1, <2>2
<1>17. ASSUME NEW x \in Context, NEW i \in 1 .. Len(ci'[x]), ci'[x][i].cci = "DIRECT"
       PROVE  x # cur /\ \E y \in S : prev[y] = x /\ vmexec[y]
  <2>1. x # cur
    <3>1. \A j \in 1 .. Len(t) : t[j].cci # "DIRECT"
        BY <1>1, <1>3, <1>4, <1>5 DEF NoDirect
    <3>. QED BY <1>6, <1>17, <3>1
  <2>. QED BY <1>6, <1>10, <1>17, <2>1 DEF CStack
<1>18. ASSUME NEW x \in Context, vmexec[x], status[x] # "TERMINATED"
       PROVE  /\ x \in S /\ prev[x] # NULL
              /\ \E n \in 2 .. L + 1 : nest'[n].by = "resume" /\ nest'[n].cxt = prev[x]
  <2>1. /\ x \in S /\ prev[x] # NULL
        /\ \E n \in 2 .. L : nest[n].by = "resume" /\ nest[n].cxt = prev[x]
      BY <1>10, <1>18 DEF CStack
  <2>2. \A n \in 2 .. L : n \in 2 .. L + 1
      BY <1>11
  <2>. QED BY <1>13, <2>1, <2>2
<1>19. \A n \in 1 .. L + 1 : nest'[n].by = "top" <=> n = 1
  <2>1. \A n \in 1 .. L : nest[n].by = "top" <=> n = 1
      BY <1>10 DEF CStack
  <2>. QED BY <1>11, <1>12, <2>1
<1>20. pc' # "done" /\ nest' # << >>
    BY <1>2, <1>11
<1>21. CStack(S, pos)'
  <2>1. (\A n \in 2 .. Len(nest) : Waits(S, nest[n]))'
      BY <1>11, <1>14
  <2>2. (\A m, n \in 2 .. Len(nest) : m < n => Before(pos, nest[m], nest[n]))'
      BY <1>11, <1>15 DEF Before
  <2>3. (\A x \in Context : \A i \in 1 .. Len(ci[x]) : ci[x][i].cci = "SKIP" =>
           \E n \in 2 .. Len(nest) : nest[n] = Activation("yield", x, i - 1, "NONE"))'
      BY <1>11, <1>16 DEF Activation
  <2>4. (\A x \in Context : \A i \in 1 .. Len(ci[x]) : ci[x][i].cci = "DIRECT" =>
           IF x = cur THEN pc = "catch" ELSE \E y \in S : prev[y] = x /\ vmexec[y])'
      BY <1>2, <1>17
  <2>5. (\A x \in Context : vmexec[x] /\ status[x] # "TERMINATED" =>
           /\ x \in S /\ prev[x] # NULL
           /\ \E n \in 2 .. Len(nest) : nest[n].by = "resume" /\ nest[n].cxt = prev[x])'
      BY <1>2, <1>11, <1>18
  <2>6. (nest \in Seq(Act))'
      BY <1>11 DEF Act
  <2>. QED BY <1>11, <1>19, <1>20, <2>1, <2>2, <2>3, <2>4, <2>5, <2>6 DEF CStack
<1>22. FInv'
    BY <1>6, <1>7, <1>9, <1>21 DEF FInv, Story
<1>23. \A x \in Context : Keeps(ci[x], ci'[x])
  <2>1. Keeps(s, t)
      BY <1>1, <1>5, KeepsAll DEF Stack
  <2>2. PICK D : D = {cur}
      OBVIOUS
  <2>3. (\A x \in Context \ D : ci'[x] = ci[x]) /\ \A x \in D : Keeps(ci[x], ci'[x])
      BY <1>6, <2>1, <2>2 DEF s
  <2>. QED BY <2>3, KeepsRest
<1>24. Tidy
    BY <1>2, <1>11, <1>23, TidyCall
<1>. QED BY <1>22, <1>24

\* What is on the C stack has a last element.
LEMMA LastNest ==
    ASSUME FInv, pc # "done"
    PROVE  Len(nest) \in Nat /\ Len(nest) > 0 /\ Last(nest) = nest[Len(nest)] /\ nest \in Seq(Act) /\ nest # << >>
<1>1. nest \in Seq(Act) /\ nest # << >>
    BY DEF FInv, Story, CStack
<1>. QED BY <1>1 DEF Last

\* The block that C code called ends, one way or the other: its frame and the
\* activation that ran it go together.
LEMMA BlockEnds ==
    ASSUME FInv, UNCHANGED <<cur, status, prev, vmexec>>, Top.cci = "SKIP", Top.handler # "ensure", pc # "done",
           nest' = Front(nest), ci' = [ci EXCEPT ![cur] = Front(@)],
           \/ pc' = "c" /\ brk' = 0
           \/ pc' = "catch" /\ brk' = brk /\ brk < Depth
    PROVE  FInv' /\ Tidy
<1>. DEFINE s == ci[cur]
            t == Front(s)
            L == Len(nest)
<1>1. /\ Stack(s) /\ s # << >> /\ Len(s) \in Nat /\ Len(s) > 0 /\ Len(s) = Depth /\ s \in Seq(Frame)
      /\ (vmexec[cur] => PlainStack(s)) /\ ci \in [Context -> Seq(Frame)] /\ cur \in Context
      /\ Contexts /\ Position /\ Top = s[Len(s)] /\ brk \in Nat
    BY Here
<1>2. /\ Stack(t) /\ Len(t) = Len(s) - 1 /\ t \in Seq(Frame)
      /\ \A i \in 1 .. Len(s) - 1 : t[i] = s[i]
      /\ PlainStack(s) => PlainStack(t)
    BY <1>1, PopStack
<1>3. ci' = [ci EXCEPT ![cur] = t]
    OBVIOUS
<1>4. At(s, vmexec[cur], pc, brk)
    BY <1>1 DEF Position
<1>. HIDE DEF s, t
<1>5. Len(s) > 1 /\ s[Len(s) - 1].fn = "c" /\ s[Len(s) - 1].cci = "NONE"
    BY <1>1 DEF Stack
<1>6. t # << >> /\ t[Len(t)].fn = "c" /\ t[Len(t)].cci = "NONE" /\ Len(t) \in Nat /\ Len(t) > 0
    BY <1>1, <1>2, <1>5
<1>7. Contexts' /\ ci'[cur] = t /\ \A x \in Context : x # cur => ci'[x] = ci[x]
    BY <1>1, <1>2, <1>3, <1>6, OwnContexts
<1>8. Position'
  <2>1. At(t, vmexec[cur], pc', brk')
    <3>1. CASE pc' = "c" /\ brk' = 0
        BY <1>6, <3>1 DEF At
    <3>2. CASE pc' = "catch" /\ brk' = brk /\ brk < Depth
      <4>1. brk > 0 /\ vmexec[cur] => Plain(t, brk, Len(t))
          BY <1>1, <1>2, <1>4 DEF At, Plain
      <4>. QED BY <1>1, <1>2, <1>6, <3>2, <4>1 DEF At
    <3>. QED BY <3>1, <3>2
  <2>2. \A x \in Context : vmexec[x] => PlainStack(ci'[x])
      BY <1>1, <1>2, <1>7 DEF Position, s
  <2>. QED BY <1>1, <1>7, <2>1, <2>2 DEF Position, Running
<1>9. PICK S \in SUBSET Context, pos \in [Context -> Nat] : Story(S, pos)
    BY DEF FInv
<1>10. Path(S, pos)' /\ CStack(S, pos)
    BY <1>9 DEF Story, Path
<1>11. L >= 2 /\ nest[L] = Activation("yield", cur, Len(s) - 1, "NONE")
    BY <1>1, <1>9, LastYield
<1>12. nest' \in Seq(Act) /\ L \in Nat /\ Len(nest') = L - 1 /\ \A n \in 1 .. L - 1 : nest'[n] = nest[n]
  <2>1. nest \in Seq(Act) /\ nest # << >>
      BY <1>10, <1>11 DEF CStack
  <2>. QED BY <2>1, FrontFacts
<1>13. \A n \in 2 .. L - 1 : /\ n \in 1 .. L - 1 /\ n \in 2 .. L /\ nest'[n] = nest[n] /\ nest[n] \in Act
                             /\ Waits(S, nest[n]) /\ nest[n].depth \in Nat /\ nest[n].by \in {"yield", "resume"}
    BY <1>9, <1>12, ActFacts
<1>. HIDE DEF L
\* No other block has this activation.
<1>14. ASSUME NEW n \in 2 .. L - 1, nest[n].cxt = cur
       PROVE  nest[n].by = "yield" /\ nest[n].depth < Len(s) - 1
  <2>1. nest[n].by = "yield"
      BY <1>1, <1>9, <1>13, <1>14, ResumesElsewhere DEF L
  <2>2. n \in 2 .. L /\ L \in 2 .. L /\ n < L
      BY <1>11, <1>12, <1>13
  <2>3. Before(pos, nest[n], nest[L])
      BY <1>10, <2>2 DEF CStack, L
  <2>4. nest[L].cxt = cur /\ nest[L].depth = Len(s) - 1 /\ pos[cur] \in Nat
      BY <1>1, <1>9, <1>11 DEF Activation
  <2>. QED BY <1>14, <2>1, <2>3, <2>4 DEF Before
<1>15. ASSUME NEW n \in 2 .. L - 1 PROVE Waits(S, nest[n])'
  <2>. DEFINE e == nest[n]
  <2>1. nest'[n] = e /\ e \in Act /\ Waits(S, e) /\ e.depth \in Nat /\ e.cxt \in Context
      BY <1>13 DEF Act
  <2>. HIDE DEF e
  <2>2. CASE e.cxt # cur
    <3>1. ci'[e.cxt] = ci[e.cxt]
        BY <1>7, <2>1, <2>2
    <3>. QED BY <2>1, <3>1 DEF Waits
  <2>3. CASE e.cxt = cur
    <3>1. e.by = "yield" /\ e.depth < Len(s) - 1
        BY <1>14, <2>3 DEF e
    <3>2. e.cxt \in S /\ e.cci = "NONE" /\ e.depth > 0 /\ s[e.depth + 1].cci = "SKIP"
        BY <2>1, <2>3, <3>1 DEF Waits, s
    <3>3. e.depth + 1 \in 1 .. Len(s) - 1 /\ e.depth < Len(t)
        BY <1>1, <1>2, <2>1, <3>1, <3>2
    <3>4. t[e.depth + 1].cci = "SKIP"
        BY <1>2, <3>2, <3>3
    <3>. QED BY <1>7, <2>1, <2>3, <3>1, <3>2, <3>3, <3>4 DEF Waits
  <2>. QED BY <2>2, <2>3
<1>16. ASSUME NEW m \in 2 .. L - 1, NEW n \in 2 .. L - 1, m < n PROVE Before(pos, nest'[m], nest'[n])
    BY <1>10, <1>13, <1>16 DEF CStack, L
<1>17. ASSUME NEW x \in Context, NEW i \in 1 .. Len(ci'[x]), ci'[x][i].cci = "SKIP"
       PROVE  \E n \in 2 .. L - 1 : nest'[n] = Activation("yield", x, i - 1, "NONE")
  <2>1. /\ i \in 1 .. Len(ci[x]) /\ ci[x][i].cci = "SKIP" /\ i \in Nat
        /\ x = cur => i < Len(s)
    <3>1. CASE x # cur
        BY <1>7, <1>17, <3>1
    <3>2. CASE x = cur
        BY <1>1, <1>2, <1>7, <1>17, <3>2 DEF s
    <3>. QED BY <3>1, <3>2
  <2>2. PICK n \in 2 .. L : nest[n] = Activation("yield", x, i - 1, "NONE")
      BY <1>10, <2>1, SkipHasAct DEF L
  <2>3. n # L
    <3>1. ASSUME n = L PROVE x = cur /\ i - 1 = Len(s) - 1
        BY <1>11, <2>2, <3>1 DEF Activation
    <3>. QED BY <1>1, <2>1, <3>1
  <2>4. n \in 2 .. L - 1
      BY <1>12, <2>3
  <2>. QED BY <1>13, <2>2, <2>4
<1>18. ASSUME NEW x \in Context, NEW i \in 1 .. Len(ci'[x]), ci'[x][i].cci = "DIRECT"
       PROVE  x # cur /\ \E y \in S : prev[y] = x /\ vmexec[y]
  <2>1. x # cur
    <3>1. \A j \in 1 .. Len(t) : j \in 1 .. Len(s) /\ j # Len(s) /\ t[j] = s[j]
        BY <1>1, <1>2
    <3>. QED BY <1>1, <1>7, <1>18, <3>1, DirectOnTop
  <2>. QED BY <1>7, <1>10, <1>18, <2>1 DEF CStack
<1>19. ASSUME NEW x \in Context, vmexec[x], status[x] # "TERMINATED"
       PROVE  /\ x \in S /\ prev[x] # NULL
              /\ \E n \in 2 .. L - 1 : nest'[n].by = "resume" /\ nest'[n].cxt = prev[x]
  <2>1. /\ x \in S /\ prev[x] # NULL
        /\ \E n \in 2 .. L : nest[n].by = "resume" /\ nest[n].cxt = prev[x]
      BY <1>10, <1>19 DEF CStack, L
  <2>2. PICK n \in 2 .. L : nest[n].by = "resume" /\ nest[n].cxt = prev[x]
      BY <2>1
  <2>3. n # L
      BY <1>11, <2>2 DEF Activation
  <2>4. n \in 2 .. L - 1
      BY <1>12, <2>3
  <2>. QED BY <1>13, <2>1, <2>2, <2>4
<1>20. \A n \in 1 .. L - 1 : nest'[n].by = "top" <=> n = 1
  <2>1. \A n \in 1 .. L : nest[n].by = "top" <=> n = 1
      BY <1>10 DEF CStack, L
  <2>. QED BY <1>12, <2>1
<1>21. pc' # "done" /\ nest' # << >>
    BY <1>11, <1>12
<1>22. CStack(S, pos)'
  <2>1. (\A n \in 2 .. Len(nest) : Waits(S, nest[n]))'
      BY <1>12, <1>15
  <2>2. (\A m, n \in 2 .. Len(nest) : m < n => Before(pos, nest[m], nest[n]))'
      BY <1>12, <1>16 DEF Before
  <2>3. (\A x \in Context : \A i \in 1 .. Len(ci[x]) : ci[x][i].cci = "SKIP" =>
           \E n \in 2 .. Len(nest) : nest[n] = Activation("yield", x, i - 1, "NONE"))'
      BY <1>12, <1>17 DEF Activation
  <2>4. (\A x \in Context : \A i \in 1 .. Len(ci[x]) : ci[x][i].cci = "DIRECT" =>
           IF x = cur THEN pc = "catch" ELSE \E y \in S : prev[y] = x /\ vmexec[y])'
      BY <1>18
  <2>5. (\A x \in Context : vmexec[x] /\ status[x] # "TERMINATED" =>
           /\ x \in S /\ prev[x] # NULL
           /\ \E n \in 2 .. Len(nest) : nest[n].by = "resume" /\ nest[n].cxt = prev[x])'
      BY <1>12, <1>19
  <2>6. (nest \in Seq(Act))'
      BY <1>12 DEF Act
  <2>. QED BY <1>12, <1>20, <1>21, <2>1, <2>2, <2>3, <2>4, <2>5, <2>6 DEF CStack
<1>23. FInv'
    BY <1>7, <1>8, <1>9, <1>10, <1>22 DEF FInv, Story
<1>24. \A x \in Context : Keeps(ci[x], ci'[x])
  <2>1. s[Len(s)].handler # "ensure"
      BY <1>1 DEF s
  <2>2. Keeps(s, t)
      BY <1>1, <2>1, KeepsBelow DEF t
  <2>3. PICK D : D = {cur}
      OBVIOUS
  <2>4. (\A x \in Context \ D : ci'[x] = ci[x]) /\ \A x \in D : Keeps(ci[x], ci'[x])
      BY <1>7, <2>2, <2>3 DEF s
  <2>. QED BY <2>4, KeepsRest
<1>25. Last(nest).cxt = cur /\ Caller(Last(nest)) = Len(t)
  <2>1. Last(nest) = nest[Len(nest)]
      BY LastNest
  <2>2. nest[Len(nest)] = Activation("yield", cur, Depth - 1, "NONE")
      BY <1>9, LastYield
  <2>. QED BY <1>1, <1>2, <2>1, <2>2 DEF Activation, Caller
<1>26. Tidy
    BY <1>7, <1>24, <1>25, TidyEnd
<1>. QED BY <1>23, <1>26

-----------------------------------------------------------------------------
(* The running context goes back to the one that resumed it.               *)

\* Two contexts of the chain have different resumers.
LEMMA OneResumed ==
    ASSUME NEW S, NEW pos, Path(S, pos), NEW x \in S, NEW y \in S, prev[x] = prev[y], prev[x] # NULL
    PROVE  x = y
    BY DEF Path

\* The chain without the context that is left
LEMMA LeavePath ==
    ASSUME Contexts, NEW S, NEW pos, Path(S, pos), prev[cur] # NULL,
           NEW T, T = S \ {cur}, cur' = prev[cur], prev' = [prev EXCEPT ![cur] = NULL],
           \A x \in Context : x # cur /\ x # prev[cur] => status'[x] = status[x]
    PROVE  /\ Path(T, pos)' /\ prev[cur] \in T /\ status[prev[cur]] = "RESUMED"
           /\ \A x \in T : x \in Context /\ prev'[x] = prev[x] /\ prev[x] # prev[cur]
<1>. DEFINE b == prev[cur]
<1>1. /\ S \subseteq Context /\ cur \in S /\ cur \in Context /\ prev \in [Context -> Context \cup {NULL}]
      /\ pos \in [Context -> Nat]
    BY DEF Contexts, Path
<1>2. b \in T /\ b \in Context /\ pos[cur] = pos[b] + 1 /\ b # cur /\ status[b] = "RESUMED"
    BY <1>1, NotResumer DEF Path
<1>3. \A x \in T : x \in S /\ x \in Context /\ prev'[x] = prev[x] /\ prev[x] # b /\ prev[x] # cur /\ pos[x] \in Nat
    BY <1>1, <1>2, OneResumed, NotResumer, ContextNotNull
<1>4. \A x \in T : x # b => status'[x] = "RESUMED" /\ pos[x] < pos[b]
  <2>. SUFFICES ASSUME NEW x \in T, x # b PROVE status'[x] = "RESUMED" /\ pos[x] < pos[b]
      OBVIOUS
  <2>1. status'[x] = status[x] /\ status[x] = "RESUMED" /\ pos[x] < pos[cur] /\ pos[x] # pos[b]
      BY <1>2, <1>3 DEF Path
  <2>2. pos[x] \in Nat /\ pos[b] \in Nat
      BY <1>1, <1>2, <1>3
  <2>. QED BY <1>2, <2>1, <2>2
<1>5. \A x \in T : prev'[x] # NULL => prev'[x] \in T /\ pos[x] = pos[prev'[x]] + 1
    BY <1>3 DEF Path
<1>6. \A x \in T : prev'[x] = NULL => pos[x] = 0
    BY <1>3 DEF Path
<1>7. \A x, y \in T : pos[x] = pos[y] => x = y
    BY DEF Path
<1>8. \A x \in T : x # b => \E y \in T : prev'[y] = x
  <2>. SUFFICES ASSUME NEW x \in T, x # b PROVE \E y \in T : prev'[y] = x
      OBVIOUS
  <2>1. PICK y \in S : prev[y] = x
      BY DEF Path
  <2>2. y # cur
      BY <2>1
  <2>. QED BY <1>3, <2>1, <2>2
<1>9. T \in SUBSET Context
    BY <1>1
<1>10. Path(T, pos)'
    BY <1>1, <1>2, <1>4, <1>5, <1>6, <1>7, <1>8, <1>9 DEF Path
<1>. QED BY <1>2, <1>3, <1>10

\* The C stack without the activation that ran the context that is left, if one did
LEMMA Leave ==
    ASSUME FInv, NEW S, NEW pos, Story(S, pos), NEW T, T = S \ {cur}, pc # "done", pc' # "done", prev[cur] # NULL,
           \A i \in 1 .. Len(ci[cur]) : ci[cur][i].cci # "SKIP",
           cur' = prev[cur], prev' = [prev EXCEPT ![cur] = NULL],
           status'[cur] \in {"TERMINATED", "SUSPENDED"},
           \A x \in Context : x # cur /\ x # prev[cur] => status'[x] = status[x] /\ ci'[x] = ci[x],
           \A x \in Context : x # cur => vmexec'[x] = vmexec[x],
           vmexec'[cur] => status'[cur] = "TERMINATED",
           nest' = IF vmexec[cur] THEN Front(nest) ELSE nest,
           \A i \in 1 .. Len(ci'[cur]) : ci'[cur][i].cci = "NONE",
           NEW t, ci'[prev[cur]] = t, SameSkips(ci[prev[cur]], t), NoDirect(t) \/ pc' = "catch"
    PROVE  Story(T, pos)'
<1>. DEFINE b == prev[cur]
            L == Len(nest)
            M == IF vmexec[cur] THEN L - 1 ELSE L
<1>1. Contexts /\ cur \in Context /\ Path(S, pos) /\ CStack(S, pos) /\ S \subseteq Context
      /\ vmexec[cur] \in BOOLEAN
    BY Here DEF Story, Path
<1>2. /\ Path(T, pos)' /\ b \in T /\ b \in Context /\ b # cur /\ status[b] = "RESUMED" /\ cur \in S
      /\ \A x \in T : x \in Context /\ prev'[x] = prev[x] /\ prev[x] # b
  <2>1. cur \in S
      BY <1>1 DEF Path
  <2>2. \A x \in Context : x # cur /\ x # prev[cur] => status'[x] = status[x]
      OBVIOUS
  <2>3. /\ Path(T, pos)' /\ b \in T /\ status[b] = "RESUMED"
        /\ \A x \in T : x \in Context /\ prev'[x] = prev[x] /\ prev[x] # b
      BY ONLY <1>1, <2>2, LeavePath, prev[cur] # NULL, T = S \ {cur}, cur' = prev[cur],
              prev' = [prev EXCEPT ![cur] = NULL]
  <2>. QED BY <2>1, <2>3
<1>3. vmexec[cur] => L >= 2 /\ nest[L].by = "resume" /\ nest[L].cxt = b /\ nest[L].depth = Len(ci[b])
    BY LastResume
<1>4. /\ L \in Nat /\ M \in Nat /\ M >= 1 /\ M <= L /\ nest' \in Seq(Act) /\ Len(nest') = M
      /\ \A n \in 1 .. M : nest'[n] = nest[n]
  <2>1. nest \in Seq(Act) /\ nest # << >> /\ L \in Nat /\ L > 0
      BY <1>1 DEF CStack
  <2>2. CASE vmexec[cur]
      BY <1>3, <2>1, <2>2, FrontFacts
  <2>3. CASE ~vmexec[cur]
      BY <2>1, <2>3
  <2>. QED BY <2>2, <2>3
<1>5. \A n \in 2 .. M : /\ n \in 1 .. M /\ n \in 2 .. L /\ nest'[n] = nest[n] /\ nest[n] \in Act
                        /\ Waits(S, nest[n]) /\ nest[n].depth \in Nat /\ nest[n].by \in {"yield", "resume"}
    BY <1>4, ActFacts
<1>6. \A n \in 2 .. L : n \in 2 .. M \/ (vmexec[cur] /\ n = L)
    BY <1>4
<1>. HIDE DEF b, L, M
<1>7. ASSUME NEW n \in 2 .. M
      PROVE  nest[n].cxt \in T /\ (nest[n].by = "resume" => nest[n].cxt # b)
  <2>. DEFINE e == nest[n]
  <2>1. e \in Act /\ Waits(S, e) /\ e.depth \in Nat /\ e.by \in {"yield", "resume"} /\ n \in 2 .. L
      BY <1>5
  <2>2. e.cxt # cur
    <3>1. SUFFICES ASSUME e.cxt = cur PROVE FALSE
        OBVIOUS
    <3>2. e.by = "yield"
        BY <1>1, <2>1, <3>1, ResumesElsewhere DEF L
    <3>3. e.depth < Len(ci[cur]) /\ e.depth > 0 /\ ci[cur][e.depth + 1].cci = "SKIP"
        BY <2>1, <3>1, <3>2 DEF Waits
    <3>4. e.depth + 1 \in 1 .. Len(ci[cur])
        BY <2>1, <3>3, Here
    <3>. QED BY <3>3, <3>4
  <2>3. ASSUME e.by = "resume", e.cxt = b PROVE FALSE
    <3>1. PICK y \in S : prev[y] = b /\ vmexec[y]
        BY <2>1, <2>3 DEF Waits
    <3>2. y = cur
        BY <1>2, <3>1
    <3>3. n < L /\ L \in 2 .. L
        BY <1>3, <1>4, <3>1, <3>2 DEF M
    <3>4. Before(pos, e, nest[L])
        BY <1>1, <2>1, <3>3 DEF CStack, L
    <3>5. pos[b] \in Nat
        BY <1>2 DEF Story, Path
    <3>6. e.depth = Len(ci[b])
        BY <2>1, <2>3 DEF Waits
    <3>. QED BY <1>3, <2>1, <2>3, <3>1, <3>2, <3>4, <3>5, <3>6 DEF Before
  <2>. QED BY <2>1, <2>2, <2>3 DEF Waits
<1>8. ASSUME NEW n \in 2 .. M PROVE Waits(T, nest[n])'
  <2>. DEFINE e == nest[n]
  <2>1. /\ nest'[n] = e /\ e \in Act /\ Waits(S, e) /\ e.depth \in Nat /\ e.by \in {"yield", "resume"}
        /\ e.cxt \in T /\ e.cxt \in Context /\ (e.by = "resume" => e.cxt # b)
      BY <1>2, <1>5, <1>7
  <2>. HIDE DEF e
  <2>2. CASE e.by = "yield"
    <3>1. e.cci = "NONE" /\ e.depth > 0 /\ e.depth < Len(ci[e.cxt]) /\ ci[e.cxt][e.depth + 1].cci = "SKIP"
        BY <2>1, <2>2 DEF Waits
    <3>2. e.depth < Len(ci'[e.cxt]) /\ ci'[e.cxt][e.depth + 1].cci = "SKIP"
      <4>1. CASE e.cxt # b
          BY <2>1, <3>1, <4>1 DEF b
      <4>2. CASE e.cxt = b
        <5>1. Len(ci[b]) \in Nat
            BY <1>1, <1>2 DEF Contexts
        <5>2. e.depth + 1 \in Nat /\ e.depth + 1 \in 1 .. Len(ci[b]) /\ ci[b][e.depth + 1].cci = "SKIP"
            BY <2>1, <3>1, <4>2, <5>1
        <5>3. e.depth + 1 \in 1 .. Len(t) /\ t[e.depth + 1].cci = "SKIP"
            BY <5>2 DEF SameSkips, b
        <5>4. \A k : e.depth + 1 \in 1 .. k => e.depth + 1 <= k
            BY <2>1
        <5>. QED BY <2>1, <4>2, <5>3 DEF b
      <4>. QED BY <4>1, <4>2
    <3>. QED BY <2>1, <2>2, <3>1, <3>2 DEF Waits
  <2>3. CASE e.by = "resume"
    <3>1. ci'[e.cxt] = ci[e.cxt]
        BY <2>1, <2>3 DEF b
    <3>2. PICK y \in S : prev[y] = e.cxt /\ vmexec[y]
        BY <2>1, <2>3 DEF Waits
    <3>3. y \in T /\ prev'[y] = e.cxt /\ vmexec'[y]
        BY <1>2, <2>1, <2>3, <3>2 DEF b
    <3>. QED BY <2>1, <2>3, <3>1, <3>3 DEF Waits
  <2>. QED BY <2>1, <2>2, <2>3
<1>9. ASSUME NEW m \in 2 .. M, NEW n \in 2 .. M, m < n PROVE Before(pos, nest'[m], nest'[n])
    BY <1>1, <1>5, <1>9 DEF CStack, L
<1>10. ASSUME NEW x \in Context, NEW i \in 1 .. Len(ci'[x]), ci'[x][i].cci = "SKIP"
       PROVE  \E n \in 2 .. M : nest'[n] = Activation("yield", x, i - 1, "NONE")
  <2>1. x # cur
      BY <1>10
  <2>2. i \in 1 .. Len(ci[x]) /\ ci[x][i].cci = "SKIP"
    <3>1. CASE x # b
        BY <1>10, <2>1, <3>1 DEF b
    <3>2. CASE x = b
      <4>1. i \in Nat
          OBVIOUS
      <4>. QED BY <1>10, <3>2, <4>1 DEF SameSkips, b
    <3>. QED BY <3>1, <3>2
  <2>3. PICK n \in 2 .. L : nest[n] = Activation("yield", x, i - 1, "NONE")
      BY <1>1, <2>2, SkipHasAct DEF L
  <2>4. n \in 2 .. M
      BY <1>3, <1>6, <2>3 DEF Activation
  <2>. QED BY <1>5, <2>3, <2>4
<1>11. ASSUME NEW x \in Context, NEW i \in 1 .. Len(ci'[x]), ci'[x][i].cci = "DIRECT"
       PROVE  IF x = b THEN pc' = "catch" ELSE \E y \in T : prev'[y] = x /\ vmexec'[y]
  <2>1. x # cur
      BY <1>11
  <2>2. CASE x = b
      BY <1>11, <2>2 DEF NoDirect, b
  <2>3. CASE x # b
    <3>1. PICK y \in S : prev[y] = x /\ vmexec[y]
        BY <1>1, <1>11, <2>1, <2>3 DEF CStack, b
    <3>. QED BY <1>2, <2>3, <3>1 DEF b
  <2>. QED BY <2>2, <2>3
<1>12. ASSUME NEW x \in Context, vmexec'[x], status'[x] # "TERMINATED"
       PROVE  /\ x \in T /\ prev'[x] # NULL
              /\ \E n \in 2 .. M : nest'[n].by = "resume" /\ nest'[n].cxt = prev'[x]
  <2>1. x # cur /\ vmexec[x] /\ status[x] # "TERMINATED"
      BY <1>2, <1>12 DEF b
  <2>2. /\ x \in S /\ prev[x] # NULL
        /\ \E n \in 2 .. L : nest[n].by = "resume" /\ nest[n].cxt = prev[x]
      BY <1>1, <2>1 DEF CStack, L
  <2>3. x \in T /\ prev'[x] = prev[x] /\ prev[x] # b
      BY <1>2, <2>1, <2>2
  <2>4. PICK n \in 2 .. L : nest[n].by = "resume" /\ nest[n].cxt = prev[x]
      BY <2>2
  <2>5. n \in 2 .. M
      BY <1>3, <1>6, <2>3, <2>4
  <2>. QED BY <1>5, <2>2, <2>3, <2>4, <2>5
<1>13. \A n \in 1 .. M : nest'[n].by = "top" <=> n = 1
  <2>1. \A n \in 1 .. L : nest[n].by = "top" <=> n = 1
      BY <1>1 DEF CStack, L
  <2>. QED BY <1>4, <2>1
<1>14. nest' # << >>
    BY <1>4
<1>15. CStack(T, pos)'
  <2>1. (\A n \in 2 .. Len(nest) : Waits(T, nest[n]))'
      BY <1>4, <1>8
  <2>2. (\A m, n \in 2 .. Len(nest) : m < n => Before(pos, nest[m], nest[n]))'
      BY <1>4, <1>9 DEF Before
  <2>3. (\A x \in Context : \A i \in 1 .. Len(ci[x]) : ci[x][i].cci = "SKIP" =>
           \E n \in 2 .. Len(nest) : nest[n] = Activation("yield", x, i - 1, "NONE"))'
      BY <1>4, <1>10 DEF Activation
  <2>4. (\A x \in Context : \A i \in 1 .. Len(ci[x]) : ci[x][i].cci = "DIRECT" =>
           IF x = cur THEN pc = "catch" ELSE \E y \in T : prev[y] = x /\ vmexec[y])'
      BY <1>11 DEF b
  <2>5. (\A x \in Context : vmexec[x] /\ status[x] # "TERMINATED" =>
           /\ x \in T /\ prev[x] # NULL
           /\ \E n \in 2 .. Len(nest) : nest[n].by = "resume" /\ nest[n].cxt = prev[x])'
      BY <1>4, <1>12
  <2>6. (nest \in Seq(Act))'
      BY <1>4 DEF Act
  <2>. QED BY <1>4, <1>13, <1>14, <2>1, <2>2, <2>3, <2>4, <2>5, <2>6 DEF CStack
<1>. QED BY <1>2, <1>15 DEF Story

\* The context that resumed the running one has the call on top: a frame of
\* mrb_funcall only if C code made the call.
LEMMA BackTop ==
    ASSUME FInv, NEW S, NEW pos, Story(S, pos), NEW b, b = prev[cur], b # NULL
    PROVE  /\ b \in Context /\ b \in S /\ b # cur /\ status[b] = "RESUMED"
           /\ Stack(ci[b]) /\ ci[b] \in Seq(Frame) /\ Len(ci[b]) \in Nat /\ Len(ci[b]) > 1 /\ ci[b] # << >>
           /\ ci[b][Len(ci[b])].fn = "c" /\ ci[b][Len(ci[b])].cci \in {"NONE", "DIRECT"}
           /\ ci[b][Len(ci[b])].cci = "DIRECT" => vmexec[cur]
<1>1. Contexts /\ cur \in Context /\ Path(S, pos) /\ CStack(S, pos)
    BY Here DEF Story
<1>2. cur \in S /\ b \in S /\ b \in Context /\ b # cur
    BY <1>1, NotResumer DEF Path
<1>3. status[b] = "RESUMED" /\ Stack(ci[b]) /\ ci[b] # << >> /\ ci[b][Len(ci[b])].fn = "c"
    BY <1>1, <1>2 DEF Path, Contexts
<1>. DEFINE s == ci[b]
<1>4. s \in Seq(Frame) /\ Len(s) \in Nat /\ Len(s) > 0
    BY <1>3 DEF Stack
<1>. HIDE DEF s
<1>5. Len(s) > 1 /\ s[Len(s)].cci \in {"NONE", "DIRECT"}
    BY <1>3, <1>4 DEF Stack, s
<1>6. ASSUME s[Len(s)].cci = "DIRECT" PROVE vmexec[cur]
  <2>1. Len(s) \in 1 .. Len(s)
      BY <1>4
  <2>2. PICK y \in S : prev[y] = b /\ vmexec[y]
      BY <1>1, <1>2, <1>6, <2>1 DEF CStack, s
  <2>3. y = cur
      BY <1>1, <1>2, <2>2, OneResumed
  <2>. QED BY <2>2, <2>3
<1>. QED BY <1>2, <1>3, <1>4, <1>5, <1>6 DEF s

\* A fiber is left for the one that resumed it: by Fiber.yield, at its end or by
\* an exception.
LEMMA GoBack ==
    ASSUME FInv, pc # "done", NEW b, b = prev[cur], b # NULL,
           \A i \in 1 .. Len(ci[cur]) : ci[cur][i].cci # "SKIP",
           cur' = b, prev' = [prev EXCEPT ![cur] = NULL],
           NEW st \in {"TERMINATED", "SUSPENDED"}, status' = [status EXCEPT ![cur] = st, ![b] = "RUNNING"],
           NEW u, Stack(u), \A i \in 1 .. Len(u) : u[i].cci = "NONE",
           u = << >> <=> st = "TERMINATED", u # << >> => u[Len(u)].fn = "c", Keeps(ci[cur], u),
           NEW t, ci' = [ci EXCEPT ![cur] = u, ![b] = t],
           \/ vmexec' = vmexec /\ st = "TERMINATED"
           \/ vmexec' = [vmexec EXCEPT ![cur] = FALSE],
           nest' = IF vmexec[cur] THEN Front(nest) ELSE nest, brk' = 0,
           \/ ~vmexec[cur] /\ t = Front(ci[b]) /\ pc' = "rb"
           \/ ~vmexec[cur] /\ t = ci[b] /\ pc' = "raise"
           \/ /\ vmexec[cur] /\ pc' = "c"
              /\ t = IF ci[b][Len(ci[b])].cci = "DIRECT" THEN Front(ci[b]) ELSE ci[b]
           \/ vmexec[cur] /\ t = ci[b] /\ pc' = "catch"
    PROVE  FInv' /\ Tidy
<1>1. PICK S \in SUBSET Context, pos \in [Context -> Nat] : Story(S, pos)
    BY DEF FInv
<1>2. Contexts /\ Position /\ cur \in Context /\ vmexec[cur] \in BOOLEAN
    BY Here
<1>. DEFINE s == ci[b]
<1>3. /\ b \in Context /\ b \in S /\ b # cur /\ status[b] = "RESUMED"
      /\ Stack(s) /\ s \in Seq(Frame) /\ Len(s) \in Nat /\ Len(s) > 1 /\ s # << >>
      /\ s[Len(s)].fn = "c" /\ s[Len(s)].cci \in {"NONE", "DIRECT"}
      /\ s[Len(s)].cci = "DIRECT" => vmexec[cur]
    BY <1>1, BackTop
<1>4. /\ Stack(Front(s)) /\ Front(s) \in Seq(Frame) /\ Len(Front(s)) = Len(s) - 1
      /\ \A i \in 1 .. Len(s) - 1 : Front(s)[i] = s[i]
      /\ PlainStack(s) => PlainStack(Front(s))
    BY <1>3, PopStack
<1>. DEFINE r == Front(s)
<1>5. /\ \A i \in 1 .. Len(s) : s[i].cci = "DIRECT" => i = Len(s)
      /\ s[Len(s)].cci = "NONE" => s[Len(s) - 1].fn = "rb"
      /\ s[Len(s)].cci = "DIRECT" => s[Len(s) - 1].fn = "c" /\ s[Len(s) - 1].cci = "NONE"
  <2>. HIDE DEF s, r
  <2>1. \A i \in 1 .. Len(s) : s[i].cci = "DIRECT" => i = Len(s)
      BY <1>3, DirectOnTop
  <2>2. Len(s) \in 1 .. Len(s)
      BY <1>3
  <2>. QED BY <1>3, <2>1, <2>2 DEF Stack
<1>6. t = s \/ t = r
    OBVIOUS
<1>. HIDE DEF s, r
<1>7. SameSkips(s, r)
  <2>1. Len(r) = Len(s) - 1 /\ \A i \in 1 .. Len(s) - 1 : r[i] = s[i]
      BY <1>4 DEF r
  <2>2. \A i \in Nat : i \in 1 .. Len(s) <=> i \in 1 .. Len(s) - 1 \/ i = Len(s)
      BY <1>3
  <2>. QED BY <1>3, <2>1, <2>2 DEF SameSkips
<1>8. /\ Stack(t) /\ t \in Seq(Frame) /\ t # << >> /\ SameSkips(s, t) /\ (PlainStack(s) => PlainStack(t))
  <2>1. CASE t = s
      BY <1>3, <2>1 DEF SameSkips
  <2>2. CASE t = r
    <3>1. Len(r) > 0
        BY <1>3, <1>4 DEF r
    <3>. QED BY <1>3, <1>4, <1>7, <2>2, <3>1 DEF r
  <2>. QED BY <1>6, <2>1, <2>2
<1>9. NoDirect(r)
  <2>1. Len(r) = Len(s) - 1 /\ \A i \in 1 .. Len(s) - 1 : r[i] = s[i]
      BY <1>4 DEF r
  <2>2. \A i \in 1 .. Len(s) - 1 : i \in 1 .. Len(s) /\ i # Len(s)
      BY <1>3
  <2>. QED BY <1>5, <2>1, <2>2 DEF NoDirect
<1>10. (pc' \in {"rb", "c"} => t[Len(t)].fn = pc') /\ (NoDirect(t) \/ pc' = "catch")
  <2>1. Len(r) = Len(s) - 1 /\ r[Len(r)] = s[Len(s) - 1]
      BY <1>3, <1>4 DEF r
  <2>2. CASE s[Len(s)].cci = "NONE"
    <3>1. NoDirect(s)
        BY <1>3, <1>5, <2>2 DEF NoDirect
    <3>. QED BY <1>3, <1>5, <1>9, <2>1, <2>2, <3>1 DEF s, r
  <2>3. CASE s[Len(s)].cci = "DIRECT"
      BY <1>3, <1>5, <1>9, <2>1, <2>3 DEF s, r
  <2>. QED BY <1>3, <2>2, <2>3
<1>11. /\ ci' \in [Context -> Seq(Frame)] /\ ci'[cur] = u /\ ci'[b] = t
       /\ \A x \in Context : x # cur /\ x # b => ci'[x] = ci[x]
  <2>1. u \in Seq(Frame) /\ ci \in [Context -> Seq(Frame)]
      BY <1>2 DEF Stack, Contexts
  <2>. QED BY <1>2, <1>3, <1>8, <2>1
<1>12. /\ status' \in [Context -> Status] /\ status'[cur] = st /\ status'[b] = "RUNNING"
       /\ \A x \in Context : x # cur /\ x # b => status'[x] = status[x]
    BY <1>2, <1>3 DEF Contexts, Status
<1>13. /\ vmexec' \in [Context -> BOOLEAN] /\ \A x \in Context : x # cur => vmexec'[x] = vmexec[x]
       /\ vmexec'[cur] => st = "TERMINATED"
    BY <1>2 DEF Contexts
<1>14. prev' \in [Context -> Context \cup {NULL}] /\ prev'[Root] = NULL /\ cur # Root
    BY <1>2, <1>3, ContextNotNull DEF Contexts, Context
<1>15. Contexts'
  <2>1. \A x \in Context : Stack(ci'[x])
      BY <1>2, <1>8, <1>11 DEF Contexts
  <2>2. \A x \in Context : status'[x] \in {"none", "TERMINATED"} <=> ci'[x] = << >>
      BY <1>2, <1>8, <1>11, <1>12 DEF Contexts
  <2>3. \A x \in Context : status'[x] = "RUNNING" <=> x = cur'
      BY <1>2, <1>3, <1>12 DEF Contexts
  <2>4. \A x \in Context : x # cur' /\ ci'[x] # << >> => ci'[x][Len(ci'[x])].fn = "c"
      BY <1>2, <1>11 DEF Contexts
  <2>5. status'[Root] \in {"RUNNING", "RESUMED", "TRANSFERRED"}
      BY <1>2, <1>12, <1>14 DEF Contexts, Context
  <2>. QED BY <1>3, <1>11, <1>12, <1>13, <1>14, <2>1, <2>2, <2>3, <2>4, <2>5 DEF Contexts, Stack, Status
<1>16. Position'
  <2>1. At(t, vmexec'[b], pc', 0)
    <3>1. 0 <= Len(t)
        BY <1>8
    <3>. QED BY <1>10, <3>1 DEF At
  <2>2. \A x \in Context : vmexec'[x] => PlainStack(ci'[x])
    <3>. SUFFICES ASSUME NEW x \in Context, vmexec'[x] PROVE PlainStack(ci'[x])
        OBVIOUS
    <3>1. CASE x = cur
        BY <1>11, <1>13, <3>1 DEF PlainStack
    <3>2. CASE x = b
        BY <1>2, <1>3, <1>8, <1>11, <1>13, <3>2 DEF Position, s
    <3>3. CASE x # cur /\ x # b
        BY <1>2, <1>11, <1>13, <3>3 DEF Position
    <3>. QED BY <3>1, <3>2, <3>3
  <2>3. ci'[cur'] = t /\ cur' = b /\ pc' # "break"
      BY <1>11
  <2>4. At(ci'[cur'], vmexec'[cur'], pc', brk')
      BY <2>1, <2>3
  <2>. QED BY <2>2, <2>4 DEF Position, Running
<1>17. PICK T \in SUBSET Context : T = S \ {cur}
    BY <1>1
<1>18. Story(T, pos)'
  <2>1. \A i \in 1 .. Len(ci'[cur]) : ci'[cur][i].cci = "NONE"
      BY <1>11
  <2>2. SameSkips(ci[prev[cur]], t) /\ ci'[prev[cur]] = t /\ cur' = prev[cur]
      BY <1>8, <1>11 DEF s
  <2>3. \A x \in Context : x # cur /\ x # prev[cur] => status'[x] = status[x] /\ ci'[x] = ci[x]
      BY <1>11, <1>12
  <2>4. status'[cur] \in {"TERMINATED", "SUSPENDED"} /\ (vmexec'[cur] => status'[cur] = "TERMINATED")
      BY <1>12, <1>13
  <2>5. pc' # "done" /\ prev[cur] # NULL
      OBVIOUS
  <2>. QED BY <1>1, <1>10, <1>13, <1>17, <2>1, <2>2, <2>3, <2>4, <2>5, Leave
<1>19. FInv'
    BY <1>15, <1>16, <1>18 DEF FInv
<1>20. \A x \in Context : Keeps(ci[x], ci'[x])
  <2>1. s[Len(s)].handler # "ensure"
      BY <1>3 DEF Stack
  <2>2. Keeps(s, r) /\ Keeps(s, s)
      BY <1>3, <2>1, KeepsAll, KeepsBelow DEF r
  <2>3. PICK D : D = {cur, b}
      OBVIOUS
  <2>4. (\A x \in Context \ D : ci'[x] = ci[x]) /\ \A x \in D : Keeps(ci[x], ci'[x])
      BY <1>6, <1>11, <2>2, <2>3 DEF s
  <2>. QED BY <2>4, KeepsRest
<1>21. CASE vmexec[cur]
  <2>1. nest' = Front(nest)
      BY <1>21
  <2>2. pc' = "c" => t = IF s[Len(s)].cci = "DIRECT" THEN r ELSE s
      BY <1>21 DEF s, r
  <2>3. Last(nest).cxt = b /\ Last(nest).depth = Len(s) /\ Last(nest).cci = s[Len(s)].cci
      BY <1>1, <1>21, LastNest, LastResume DEF s
  <2>4. Len(r) = Len(s) - 1
      BY <1>4 DEF r
  <2>5. pc' = "c" => Len(t) = Caller(Last(nest))
      BY <1>3, <2>2, <2>3, <2>4 DEF Caller
  <2>. QED BY <1>11, <1>19, <1>20, <2>1, <2>3, <2>5, TidyEnd
<1>22. CASE ~vmexec[cur]
    BY <1>19, <1>20, <1>22, TidySame
<1>. QED BY <1>2, <1>21, <1>22

\* The mark of a frame is set to what it is.
LEMMA SameMark ==
    ASSUME NEW w \in [Context -> Seq(Frame)], NEW b \in Context, w[b] # << >>
    PROVE  [w EXCEPT ![b][Len(w[b])].cci = w[b][Len(w[b])].cci] = w
<1>. DEFINE s == w[b]
            n == Len(s)
            g == [s[n] EXCEPT !.cci = s[n].cci]
            t == [s EXCEPT ![n] = g]
<1>1. s \in Seq(Frame) /\ n \in 1 .. Len(s) /\ s[n] \in Frame
    OBVIOUS
<1>2. [w EXCEPT ![b][n].cci = s[n].cci] = [w EXCEPT ![b] = t]
    OBVIOUS
<1>. HIDE DEF s, n
<1>3. g = s[n]
    BY <1>1 DEF Frame
<1>. HIDE DEF g
<1>4. t = s
    BY <1>1, <1>3
<1>. HIDE DEF t
<1>5. [w EXCEPT ![b] = t] = w
    BY <1>4 DEF s
<1>. QED BY <1>2, <1>5 DEF s, n

\* The activation that ran a fiber returns to fiber_switch(), and mrb_funcall pops
\* its frame.
LEMMA ReturnsToResumer ==
    ASSUME FInv, pc # "done", vmexec[cur], \A i \in 1 .. Len(ci[cur]) : ci[cur][i].cci # "SKIP",
           NEW b, b = prev[cur], NEW w \in [Context -> Seq(Frame)], w[b] = ci[b], NEW at, ReturnToC(w, at)
    PROVE  /\ nest' = Front(nest) /\ pc' = "c" /\ cur' = b /\ b # NULL
           /\ ci' = [w EXCEPT ![b] = IF ci[b][Len(ci[b])].cci = "DIRECT" THEN Front(ci[b]) ELSE ci[b]]
<1>1. PICK S \in SUBSET Context, pos \in [Context -> Nat] : Story(S, pos)
    BY DEF FInv
<1>. DEFINE e == Last(nest)
            m == ci[b][Len(ci[b])].cci
<1>2. e.by = "resume" /\ e.cxt = b /\ e.cci = m /\ b # NULL
    BY <1>1, LastNest, LastResume
<1>3. b \in Context /\ ci[b] # << >>
    BY <1>1, <1>2, BackTop
<1>4. [w EXCEPT ![e.cxt][Len(w[e.cxt])].cci = e.cci] = w
  <2>1. [w EXCEPT ![b][Len(w[b])].cci = w[b][Len(w[b])].cci] = w
      BY <1>3, SameMark
  <2>. QED BY <1>2, <2>1
<1>5. /\ nest' = Front(nest) /\ pc' = "c" /\ cur' = b
      /\ ci' = IF m = "DIRECT" THEN [w EXCEPT ![b] = Front(@)] ELSE w
    BY <1>2, <1>4 DEF ReturnToC
<1>6. w = [w EXCEPT ![b] = ci[b]]
    BY <1>3
<1>. QED BY <1>2, <1>5, <1>6

\* Fiber.yield goes back to the context that resumed the fiber, or raises.
LEMMA KeepFiberYield == FInv /\ mrb_fiber_yield => FInv' /\ Tidy
<1>. SUFFICES ASSUME FInv, mrb_fiber_yield PROVE FInv' /\ Tidy
    OBVIOUS
<1>. DEFINE f == CFrame("NONE", FALSE)
            s == ci[cur]
            u == Append(s, f)
            left == [ci EXCEPT ![cur] = u]
<1>1. InRuby
    BY DEF mrb_fiber_yield
<1>2. CASE CallRaises
    BY <1>1, <1>2, KeepCallRaises
<1>3. CASE ~CallRaises
  <2>1. PICK b : b = prev[cur]
      OBVIOUS
  <2>2. /\ MayYield /\ status' = [status EXCEPT ![cur] = "SUSPENDED", ![b] = "RUNNING"]
        /\ prev' = [prev EXCEPT ![cur] = NULL] /\ vmexec' = [vmexec EXCEPT ![cur] = FALSE]
        /\ vmexec[cur] => ReturnToC(left, b)
        /\ ~vmexec[cur] => /\ cur' = b /\ ci' = [left EXCEPT ![b] = Front(@)] /\ UNCHANGED <<nest, pc>>
        /\ brk' = brk
      BY <1>3, <2>1 DEF mrb_fiber_yield
  <2>3. pc = "rb" /\ brk = 0 /\ b # NULL /\ ~Crosses(cur) /\ s[Len(s)].fn = "rb"
      BY <1>1, <2>1, <2>2, Here DEF InRuby, MayYield, Position, At
  <2>4. /\ Stack(s) /\ s # << >> /\ s \in Seq(Frame) /\ Len(s) \in Nat /\ Len(s) > 0
        /\ ci \in [Context -> Seq(Frame)] /\ cur \in Context /\ vmexec[cur] \in BOOLEAN
      BY Here
  <2>5. \A i \in 1 .. Len(s) : s[i].cci = "NONE"
      BY <2>3, <2>4 DEF Crosses
  <2>6. f \in Frame /\ f.cci = "NONE" /\ f.handler = "none" /\ f.pend = -1 /\ f.home \in -1 .. Len(s) /\ f.fn = "c"
    <3>1. f \in Frame
        BY <2>4, FrameTypes
    <3>. QED BY <2>4, <3>1 DEF CFrame
  <2>. HIDE DEF f
  <2>7. /\ Stack(u) /\ u # << >> /\ Len(u) = Len(s) + 1 /\ u[Len(s) + 1] = f
        /\ \A i \in 1 .. Len(s) : u[i] = s[i]
      BY <2>3, <2>4, <2>6, PushStack
  <2>8. u \in Seq(Frame)
      BY <2>7 DEF Stack
  <2>. HIDE DEF u
  <2>9. (\A i \in 1 .. Len(u) : u[i].cci = "NONE") /\ u[Len(u)].fn = "c"
    <3>1. \A i \in 1 .. Len(u) : i \in 1 .. Len(s) \/ i = Len(s) + 1
        BY <2>4, <2>7
    <3>. QED BY <2>5, <2>6, <2>7, <3>1
  <2>10. Keeps(ci[cur], u)
      BY <2>4, <2>7, <2>8, KeepsAll
  <2>11. PICK S \in SUBSET Context, pos \in [Context -> Nat] : Story(S, pos)
      BY DEF FInv
  <2>12. b \in Context /\ b # cur
      BY <2>1, <2>3, <2>11, BackTop
  <2>13. left \in [Context -> Seq(Frame)] /\ left[b] = ci[b]
      BY <2>4, <2>8, <2>12
  <2>14. CASE vmexec[cur]
    <3>1. PICK t : t = IF ci[b][Len(ci[b])].cci = "DIRECT" THEN Front(ci[b]) ELSE ci[b]
        OBVIOUS
    <3>2. PICK w \in [Context -> Seq(Frame)] : w = left
        BY <2>13
    <3>3. ReturnToC(w, b) /\ w[b] = ci[b]
        BY <2>2, <2>13, <2>14, <3>2
    <3>4. \A i \in 1 .. Len(ci[cur]) : ci[cur][i].cci # "SKIP"
        BY <2>5
    <3>5. nest' = Front(nest) /\ pc' = "c" /\ cur' = b /\ ci' = [w EXCEPT ![b] = t]
        BY <2>1, <2>3, <2>14, <3>1, <3>3, <3>4, ReturnsToResumer
    <3>6. ci' = [ci EXCEPT ![cur] = u, ![b] = t]
        BY <3>2, <3>5
    <3>7. /\ nest' = IF vmexec[cur] THEN Front(nest) ELSE nest
          /\ "SUSPENDED" \in {"TERMINATED", "SUSPENDED"} /\ (u = << >> <=> "SUSPENDED" = "TERMINATED")
          /\ brk' = 0 /\ pc # "done"
          /\ status' = [status EXCEPT ![cur] = "SUSPENDED", ![b] = "RUNNING"]
          /\ prev' = [prev EXCEPT ![cur] = NULL] /\ vmexec' = [vmexec EXCEPT ![cur] = FALSE]
        BY <2>2, <2>3, <2>7, <2>14, <3>5
    <3>8. u[Len(u)].fn = "c" /\ (\A i \in 1 .. Len(u) : u[i].cci = "NONE") /\ Stack(u)
        BY <2>7, <2>9
    <3>9. /\ vmexec[cur] /\ pc' = "c"
          /\ t = IF ci[b][Len(ci[b])].cci = "DIRECT" THEN Front(ci[b]) ELSE ci[b]
        BY <2>14, <3>1, <3>5
    <3>10. cur' = b /\ b # NULL
        BY <2>3, <3>5
    <3>. HIDE DEF s, left
    <3>. QED BY <2>1, <2>10, <3>4, <3>6, <3>7, <3>8, <3>9, <3>10, GoBack
  <2>15. CASE ~vmexec[cur]
    <3>1. ci' = [ci EXCEPT ![cur] = u, ![b] = Front(ci[b])]
        BY <2>2, <2>13, <2>15
    <3>2. cur' = b /\ nest' = nest /\ pc' = "rb"
        BY <2>2, <2>3, <2>15
    <3>. QED BY <2>1, <2>2, <2>3, <2>5, <2>7, <2>9, <2>15, <2>10, <3>1, <3>2, GoBack
  <2>. QED BY <2>4, <2>14, <2>15
<1>. QED BY <1>2, <1>3

\* The activation that ran a fiber throws to the C code that called it.
LEMMA ThrowsToResumer ==
    ASSUME FInv, pc # "done", vmexec[cur], \A i \in 1 .. Len(ci[cur]) : ci[cur][i].cci # "SKIP",
           NEW b, b = prev[cur], NEW w \in [Context -> Seq(Frame)], w[b] = ci[b], cur' = b, Throw(w)
    PROVE  /\ nest' = Front(nest) /\ b # NULL
           /\ \/ /\ pc' = "c"
                 /\ ci' = [w EXCEPT ![b] = IF ci[b][Len(ci[b])].cci = "DIRECT" THEN Front(ci[b]) ELSE ci[b]]
              \/ pc' = "catch" /\ ci' = [w EXCEPT ![b] = ci[b]]
<1>1. PICK S \in SUBSET Context, pos \in [Context -> Nat] : Story(S, pos)
    BY DEF FInv
<1>. DEFINE e == Last(nest)
            s == ci[b]
            own == Len(s) - (IF s[Len(s)].cci = "DIRECT" THEN 1 ELSE 0)
<1>2. e.by = "resume" /\ e.cxt = b /\ e.cci = s[Len(s)].cci /\ e.depth = Len(s) /\ b # NULL
    BY <1>1, LastNest, LastResume
<1>3. b \in Context /\ s # << >> /\ s \in Seq(Frame) /\ Len(s) \in Nat /\ Len(s) > 1
    BY <1>1, <1>2, BackTop
<1>4. w = [w EXCEPT ![b] = s]
    BY <1>3
<1>5. SubSeq(s, 1, own) = IF s[Len(s)].cci = "DIRECT" THEN Front(s) ELSE s
  <2>1. own \in 0 .. Len(s) /\ (own = Len(s) \/ own = Len(s) - 1)
        /\ (own = Len(s) <=> s[Len(s)].cci # "DIRECT")
    <3>1. \A n \in Nat, k \in {0, 1} : n > 1 => n - k \in 0 .. n /\ (n - k = n <=> k = 0) /\ (n - k = n - 1 <=> k = 1)
        OBVIOUS
    <3>2. Len(s) \in Nat /\ Len(s) > 1
        BY <1>3
    <3>. HIDE DEF s
    <3>. QED BY <3>1, <3>2
  <2>. HIDE DEF s, own
  <2>. QED BY <1>3, <2>1, Prefix
<1>6. /\ nest' = Front(nest)
      /\ \/ pc' = "c" /\ ci' = [w EXCEPT ![b] = SubSeq(@, 1, own)]
         \/ pc' = "catch" /\ ci' = w
    BY <1>2 DEF Throw
<1>. HIDE DEF own
<1>. QED BY <1>2, <1>4, <1>5, <1>6

\* The activation of a block throws to the C function that called the block.
LEMMA ThrowsToCaller ==
    ASSUME FInv, pc # "done", Top.cci = "SKIP", cur' = cur, Throw([ci EXCEPT ![cur] = Front(@)])
    PROVE  /\ nest' = Front(nest) /\ ci' = [ci EXCEPT ![cur] = Front(@)]
           /\ \/ pc' = "c" /\ brk = 0
              \/ pc' = "catch"
<1>1. PICK S \in SUBSET Context, pos \in [Context -> Nat] : Story(S, pos)
    BY DEF FInv
<1>. DEFINE e == Last(nest)
            t == Front(ci[cur])
            w == [ci EXCEPT ![cur] = t]
<1>2. e.by = "yield" /\ e.cxt = cur /\ e.cci = "NONE" /\ e.depth = Depth - 1
    BY <1>1, LastNest, LastYield DEF Activation
<1>3. /\ cur \in Context /\ ci[cur] \in Seq(Frame) /\ ci[cur] # << >> /\ Depth = Len(ci[cur]) /\ Depth \in Nat
      /\ ci \in [Context -> Seq(Frame)]
    BY Here
<1>4. t \in Seq(Frame) /\ Len(t) = Depth - 1
    BY <1>3, FrontFacts
<1>5. w \in [Context -> Seq(Frame)] /\ w[cur] = t
    BY <1>3, <1>4
<1>6. /\ nest' = Front(nest)
      /\ \/ pc' = "c" /\ ci' = [w EXCEPT ![cur] = SubSeq(@, 1, Depth - 1)] /\ brk = 0
         \/ pc' = "catch" /\ ci' = w
  <2>1. Throw(w)
      OBVIOUS
  <2>. HIDE DEF w
  <2>2. e.depth - (IF e.cci = "DIRECT" THEN 1 ELSE 0) = Depth - 1
      BY <1>2, <1>3
  <2>. QED BY <1>2, <2>1, <2>2 DEF Throw
<1>. HIDE DEF t
<1>7. SubSeq(t, 1, Depth - 1) = t
    BY <1>4
<1>8. [w EXCEPT ![cur] = SubSeq(@, 1, Depth - 1)] = w
    BY <1>3, <1>5, <1>7
<1>. QED BY <1>6, <1>8 DEF t

\* An exception leaves a frame, and the C function below it may catch it.
LEMMA KeepRaisePop == FInv /\ RaisePop => FInv' /\ Tidy
<1>. SUFFICES ASSUME FInv, RaisePop PROVE FInv' /\ Tidy
    OBVIOUS
<1>1. pc = "raise" /\ Top.handler # "ensure" /\ brk = 0 /\ Depth > 1 /\ UNCHANGED <<cur, status, prev, vmexec, brk>>
    BY Here DEF RaisePop, Unhandled, Position, At
<1>2. CASE Top.cci = "SKIP"
  <2>1. Throw([ci EXCEPT ![cur] = Front(@)])
      BY <1>2 DEF RaisePop
  <2>2. /\ nest' = Front(nest) /\ ci' = [ci EXCEPT ![cur] = Front(@)]
        /\ \/ pc' = "c" /\ brk = 0
           \/ pc' = "catch"
      BY <1>1, <1>2, <2>1, ThrowsToCaller
  <2>3. brk < Depth
      BY <1>1, Here
  <2>. QED BY <1>1, <1>2, <2>2, <2>3, BlockEnds
<1>3. CASE Top.cci # "SKIP"
  <2>1. Top.cci = "NONE"
      BY <1>1, <1>3, OnTop
  <2>2. Pop /\ UNCHANGED <<nest, pc>>
      BY <1>3 DEF RaisePop
  <2>3. brk < Depth
      BY <1>1, Here
  <2>. QED BY <1>1, <2>1, <2>2, <2>3, KeepUnwindNone
<1>. QED BY <1>2, <1>3

\* A break leaves a frame above its target, and with it the activation that ran it:
\* never in a context that C code resumed.
LEMMA KeepBreakPop == FInv /\ BreakPop => FInv' /\ Tidy
<1>. SUFFICES ASSUME FInv, BreakPop PROVE FInv' /\ Tidy
    OBVIOUS
<1>1. pc = "break" /\ Top.handler # "ensure" /\ Depth > brk /\ UNCHANGED <<cur, status, prev, brk>>
    BY DEF BreakPop
<1>2. brk \in Nat /\ brk > 0 /\ Depth \in Nat /\ Depth > 1 /\ vmexec[cur] => Plain(ci[cur], brk, Depth)
    BY <1>1, Here DEF Position, At
<1>3. brk \in Nat /\ brk > 0 /\ Depth \in Nat /\ Depth > 1
    BY <1>1, Here DEF Position, At
<1>4. CASE Top.cci = "NONE"
  <2>1. Pop /\ UNCHANGED <<nest, pc, vmexec>>
      BY <1>4 DEF BreakPop
  <2>. QED BY <1>1, <1>3, <1>4, <2>1, KeepUnwindNone
<1>5. CASE Top.cci # "NONE"
  <2>1. Top.cci = "SKIP"
      BY <1>1, <1>5, OnTop
  <2>2. Throw([ci EXCEPT ![cur] = Front(@)]) /\ vmexec' = [vmexec EXCEPT ![cur] = FALSE]
      BY <1>5 DEF BreakPop
  <2>3. ~vmexec[cur]
    <3>1. Depth \in brk + 1 .. Depth /\ ci[cur][Depth] = Top
        BY <1>1, <1>3 DEF Top
    <3>. QED BY <1>2, <1>3, <1>5, <3>1 DEF Plain
  <2>4. vmexec' = vmexec
      BY <2>2, <2>3, Here DEF Contexts
  <2>5. /\ nest' = Front(nest) /\ ci' = [ci EXCEPT ![cur] = Front(@)]
        /\ \/ pc' = "c" /\ brk = 0
           \/ pc' = "catch"
      BY <1>1, <2>1, <2>2, ThrowsToCaller
  <2>. QED BY <1>1, <1>3, <2>1, <2>4, <2>5, BlockEnds
<1>. QED BY <1>4, <1>5

\* A frame returns, to bytecode or to the C function that called the block.
LEMMA KeepReturnFrame == FInv /\ ReturnFrame => FInv' /\ Tidy
<1>. SUFFICES ASSUME FInv, ReturnFrame PROVE FInv' /\ Tidy
    OBVIOUS
<1>1. pc = "break" /\ Top.handler # "ensure" /\ Depth > 1 /\ brk' = 0 /\ UNCHANGED <<status, prev, vmexec>>
    BY DEF ReturnFrame, Returning, Exception
<1>2. CASE Top.cci = "SKIP"
  <2>1. ReturnToC([ci EXCEPT ![cur] = Front(@)], cur)
      BY <1>2 DEF ReturnFrame
  <2>2. PICK S \in SUBSET Context, pos \in [Context -> Nat] : Story(S, pos)
      BY DEF FInv
  <2>3. Last(nest).by = "yield"
      BY <1>1, <1>2, <2>2, LastNest, LastYield DEF Activation
  <2>4. nest' = Front(nest) /\ pc' = "c" /\ cur' = cur /\ ci' = [ci EXCEPT ![cur] = Front(@)]
      BY <2>1, <2>3 DEF ReturnToC
  <2>. QED BY <1>1, <1>2, <2>4, BlockEnds
<1>3. CASE Top.cci # "SKIP"
  <2>1. Top.cci = "NONE"
      BY <1>1, <1>3, OnTop
  <2>2. Pop /\ pc' = "rb" /\ UNCHANGED <<cur, nest>>
      BY <2>1 DEF ReturnFrame
  <2>. QED BY <1>1, <2>1, <2>2, KeepReturnNone
<1>. QED BY <1>2, <1>3

-----------------------------------------------------------------------------
(* The running context is left for one that does not wait for it.          *)

\* The chain of the invariant is the one that fiber_check_cfunc_recursive() walks.
LEMMA ChainIsPath ==
    ASSUME Contexts, NEW S, NEW pos, Path(S, pos)
    PROVE  Chain = S
<1>1. S \subseteq Context /\ cur \in S /\ Linked(S) /\ \A x \in S : pos[x] \in Nat /\ pos[x] <= pos[cur]
    BY DEF Path, Linked
<1>2. ASSUME NEW T \in SUBSET Context, Linked(T) PROVE S \subseteq T
  <2>. DEFINE D(x) == pos[cur] - pos[x]
              N == {D(x) : x \in S \ T}
  <2>. SUFFICES ASSUME NEW z \in S, z \notin T PROVE FALSE
      OBVIOUS
  <2>1. \A x \in S : D(x) \in Nat
      BY <1>1
  <2>2. N \subseteq Nat /\ D(z) \in N
      BY <2>1
  <2>. HIDE DEF D
  <2>3. PICK n \in N : \A m \in N : n <= m
    <3>. HIDE DEF N
    <3>. QED BY <2>2, LeastNumber
  <2>4. PICK x \in S \ T : n = D(x)
      OBVIOUS
  <2>5. x # cur /\ x \in Context
      BY <1>1, <1>2 DEF Linked
  <2>6. PICK y \in S : prev[y] = x
      BY <2>5 DEF Path
  <2>7. pos[y] = pos[x] + 1
      BY <2>5, <2>6, ContextNotNull DEF Path
  <2>8. y \notin T
      BY <1>2, <2>5, <2>6, ContextNotNull DEF Linked
  <2>9. D(y) \in N
      BY <2>8
  <2>10. D(x) <= D(y)
      BY <2>3, <2>4, <2>9
  <2>. QED BY <1>1, <2>7, <2>10 DEF D
<1>. QED BY <1>1, <1>2 DEF Chain

\* Only the outermost activation is there: no frame is marked, and no fiber that
\* is alive was resumed by C code.
LEMMA NoMarks ==
    ASSUME FInv, pc # "catch", Len(nest) = 1
    PROVE  /\ \A x \in Context : \A i \in 1 .. Len(ci[x]) : ci[x][i].cci = "NONE"
           /\ \A x \in Context : vmexec[x] => status[x] = "TERMINATED"
<1>1. PICK S \in SUBSET Context, pos \in [Context -> Nat] : Story(S, pos)
    BY DEF FInv
<1>2. Path(S, pos) /\ CStack(S, pos) /\ Contexts
    BY <1>1, Here DEF Story
<1>3. \A n \in 2 .. Len(nest) : FALSE
    OBVIOUS
<1>4. \A x \in Context : vmexec[x] => status[x] = "TERMINATED"
    BY <1>2, <1>3 DEF CStack
<1>5. \A x \in S : x \in Context /\ status[x] # "TERMINATED"
    BY <1>2 DEF Path, Contexts
<1>. SUFFICES ASSUME NEW x \in Context, NEW i \in 1 .. Len(ci[x]) PROVE ci[x][i].cci = "NONE"
    BY <1>4
<1>6. ci[x][i].cci # "SKIP"
    BY <1>2, <1>3 DEF CStack
<1>7. ci[x][i].cci # "DIRECT"
    BY <1>2, <1>4, <1>5 DEF CStack
<1>. QED BY <1>2, <1>6, <1>7 DEF Contexts, Stack

\* The chain starts again, with one context.
LEMMA Restart ==
    ASSUME FInv, pc # "done", pc' # "done", Len(nest) = 1, nest' = nest, NEW g \in Context, cur' = g, prev'[g] = NULL,
           \A x \in Context : \A i \in 1 .. Len(ci'[x]) : ci'[x][i].cci = "NONE",
           \A x \in Context : vmexec'[x] => status'[x] = "TERMINATED"
    PROVE  \E S \in SUBSET Context, pos \in [Context -> Nat] : Story(S, pos)'
<1>1. PICK S \in SUBSET Context : S = {g}
    OBVIOUS
<1>2. PICK pos \in [Context -> Nat] : \A x \in Context : pos[x] = 0
  <2>1. [x \in Context |-> 0] \in [Context -> Nat]
      OBVIOUS
  <2>. QED BY <2>1
<1>3. Path(S, pos)'
    BY <1>1, <1>2 DEF Path
<1>4. nest \in Seq(Act) /\ nest # << >> /\ \A n \in 1 .. Len(nest) : nest[n].by = "top" <=> n = 1
    BY DEF FInv, Story, CStack
<1>5. \A n \in 2 .. Len(nest) : FALSE
    OBVIOUS
<1>6. CStack(S, pos)'
    BY <1>4, <1>5 DEF CStack, Act
<1>. QED BY <1>3, <1>6 DEF Story

\* A context is left for good, or by a transfer, and another goes on.
LEMMA MoveOn ==
    ASSUME FInv, pc \in {"rb", "raise", "break"}, Len(nest) = 1, nest' = nest, brk' = 0,
           NEW g \in Context, g # cur, ci[g] # << >>, cur' = g,
           prev' \in [Context -> Context \cup {NULL}], prev'[g] = NULL, prev'[Root] = NULL,
           NEW st \in {"TERMINATED", "TRANSFERRED"}, status' = [status EXCEPT ![cur] = st, ![g] = "RUNNING"],
           cur = Root => st = "TRANSFERRED",
           NEW u, Stack(u), \A i \in 1 .. Len(u) : u[i].cci = "NONE",
           u = << >> <=> st = "TERMINATED", u # << >> => u[Len(u)].fn = "c", Keeps(ci[cur], u),
           NEW t, ci' = [ci EXCEPT ![cur] = u, ![g] = t],
           \/ t = Front(ci[g]) /\ pc' = "rb"
           \/ t = ci[g] /\ pc' = "raise",
           vmexec' = vmexec \/ vmexec' = [vmexec EXCEPT ![cur] = FALSE]
    PROVE  FInv' /\ Tidy
<1>1. Contexts /\ Position /\ cur \in Context
    BY Here
<1>2. /\ \A x \in Context : \A i \in 1 .. Len(ci[x]) : ci[x][i].cci = "NONE"
      /\ \A x \in Context : vmexec[x] => status[x] = "TERMINATED"
    BY NoMarks
<1>. DEFINE s == ci[g]
<1>3. /\ Stack(s) /\ s \in Seq(Frame) /\ Len(s) \in Nat /\ Len(s) > 1 /\ s # << >>
      /\ s[Len(s)].fn = "c" /\ s[Len(s) - 1].fn = "rb" /\ \A i \in 1 .. Len(s) : s[i].cci = "NONE"
  <2>1. Stack(s) /\ s # << >> /\ s[Len(s)].fn = "c" /\ \A i \in 1 .. Len(s) : s[i].cci = "NONE"
      BY <1>2, <1>1 DEF Contexts
  <2>. HIDE DEF s
  <2>2. s \in Seq(Frame) /\ Len(s) \in Nat /\ Len(s) > 0 /\ Len(s) \in 1 .. Len(s)
      BY <2>1 DEF Stack
  <2>. QED BY <2>1, <2>2 DEF Stack
<1>4. /\ Stack(Front(s)) /\ Front(s) \in Seq(Frame) /\ Len(Front(s)) = Len(s) - 1
      /\ \A i \in 1 .. Len(s) - 1 : Front(s)[i] = s[i]
    BY <1>3, PopStack
<1>. DEFINE r == Front(s)
<1>5. \/ t = r /\ pc' = "rb"
      \/ t = s /\ pc' = "raise"
    OBVIOUS
<1>. HIDE DEF s, r
<1>6. Len(r) = Len(s) - 1 /\ \A i \in 1 .. Len(s) - 1 : r[i] = s[i]
    BY <1>4 DEF r
<1>7. r # << >> /\ r[Len(r)].fn = "rb" /\ \A i \in 1 .. Len(r) : r[i].cci = "NONE"
    BY <1>3, <1>6
<1>8. Stack(t) /\ t \in Seq(Frame) /\ t # << >> /\ (pc' \in {"rb", "c"} => t[Len(t)].fn = pc')
      /\ (\A i \in 1 .. Len(t) : t[i].cci = "NONE") /\ pc' \in {"rb", "raise"}
    BY <1>3, <1>4, <1>5, <1>7 DEF r
<1>9. /\ ci' \in [Context -> Seq(Frame)] /\ ci'[cur] = u /\ ci'[g] = t
      /\ \A x \in Context : x # cur /\ x # g => ci'[x] = ci[x]
  <2>1. u \in Seq(Frame) /\ ci \in [Context -> Seq(Frame)]
      BY <1>1 DEF Stack, Contexts
  <2>. QED BY <1>1, <1>8, <2>1
<1>10. /\ status' \in [Context -> Status] /\ status'[cur] = st /\ status'[g] = "RUNNING"
       /\ \A x \in Context : x # cur /\ x # g => status'[x] = status[x]
    BY <1>1 DEF Contexts, Status
<1>11. /\ vmexec' \in [Context -> BOOLEAN]
       /\ \A x \in Context : vmexec'[x] => x # cur /\ x # g /\ vmexec[x] /\ status'[x] = "TERMINATED"
  <2>1. vmexec' \in [Context -> BOOLEAN] /\ \A x \in Context : vmexec'[x] => vmexec[x]
      BY <1>1 DEF Contexts
  <2>2. status[cur] # "TERMINATED" /\ status[g] # "TERMINATED"
      BY <1>1 DEF Contexts
  <2>. QED BY <1>2, <1>10, <2>1, <2>2
<1>12. Contexts'
  <2>1. \A x \in Context : Stack(ci'[x])
      BY <1>1, <1>8, <1>9 DEF Contexts
  <2>2. \A x \in Context : status'[x] \in {"none", "TERMINATED"} <=> ci'[x] = << >>
      BY <1>1, <1>8, <1>9, <1>10 DEF Contexts
  <2>3. \A x \in Context : status'[x] = "RUNNING" <=> x = cur'
      BY <1>1, <1>10 DEF Contexts
  <2>4. \A x \in Context : x # cur' /\ ci'[x] # << >> => ci'[x][Len(ci'[x])].fn = "c"
      BY <1>1, <1>9 DEF Contexts
  <2>5. status'[Root] \in {"RUNNING", "RESUMED", "TRANSFERRED"}
      BY <1>1, <1>10 DEF Contexts, Context
  <2>. QED BY <1>9, <1>10, <1>11, <2>1, <2>2, <2>3, <2>4, <2>5 DEF Contexts, Stack, Status
<1>13. Position'
  <2>1. At(t, vmexec'[g], pc', 0)
    <3>1. 0 <= Len(t)
        BY <1>8
    <3>. QED BY <1>8, <3>1 DEF At
  <2>2. \A x \in Context : vmexec'[x] => PlainStack(ci'[x])
      BY <1>1, <1>9, <1>11 DEF Position
  <2>3. At(ci'[cur'], vmexec'[cur'], pc', brk')
      BY <1>9, <2>1
  <2>. QED BY <1>8, <2>2, <2>3 DEF Position, Running
<1>14. \A x \in Context : \A i \in 1 .. Len(ci'[x]) : ci'[x][i].cci = "NONE"
    BY <1>2, <1>8, <1>9
<1>15. \E S \in SUBSET Context, pos \in [Context -> Nat] : Story(S, pos)'
    BY <1>8, <1>11, <1>14, Restart
<1>16. FInv'
    BY <1>12, <1>13, <1>15 DEF FInv
<1>17. \A x \in Context : Keeps(ci[x], ci'[x])
  <2>1. s[Len(s)].handler # "ensure"
      BY <1>3 DEF Stack
  <2>2. Keeps(s, r) /\ Keeps(s, s)
      BY <1>3, <2>1, KeepsAll, KeepsBelow DEF r
  <2>3. PICK D : D = {cur, g}
      OBVIOUS
  <2>4. (\A x \in Context \ D : ci'[x] = ci[x]) /\ \A x \in D : Keeps(ci[x], ci'[x])
      BY <1>5, <1>9, <2>2, <2>3 DEF s
  <2>. QED BY <2>4, KeepsRest
<1>. QED BY <1>16, <1>17, TidySame

\* Only the first frame is left: C code has called no block in this context.
LEMMA OneFrame ==
    ASSUME FInv, Depth = 1
    PROVE  \A i \in 1 .. Len(ci[cur]) : ci[cur][i].cci # "SKIP"
<1>1. Len(ci[cur]) = 1 /\ Stack(ci[cur])
    BY Here
<1>2. \A i \in 1 .. Len(ci[cur]) : i = 1
    BY <1>1
<1>. QED BY <1>1, <1>2 DEF Stack

\* The first frame goes, and no ensure clause of it is due.
LEMMA FirstFrameGoes ==
    ASSUME FInv, Depth = 1, Top.handler # "ensure", NEW u, u = << >>
    PROVE  Keeps(ci[cur], u)
<1>1. Len(ci[cur]) = 1 /\ Top = ci[cur][1]
    BY Here
<1>2. \A i \in 1 .. Len(ci[cur]) : i = 1
    BY <1>1
<1>. QED BY <1>1, <1>2 DEF Keeps

\* The root context has nothing left to return to: the program ends.
LEMMA ProgramEnds ==
    ASSUME FInv, pc \in {"raise", "break"}, cur = Root, Depth = 1, ReturnToC(ci, cur),
           UNCHANGED <<status, prev, vmexec>>, brk' = 0
    PROVE  FInv' /\ Tidy
<1>1. PICK S \in SUBSET Context, pos \in [Context -> Nat] : Story(S, pos)
    BY DEF FInv
<1>2. Contexts /\ Position /\ Path(S, pos) /\ CStack(S, pos) /\ prev[cur] = NULL
    BY <1>1, Here DEF Story, Contexts
<1>3. Len(nest) = 1 /\ nest[1].by = "top"
    BY <1>1, <1>2, OneFrame, LoneActivation
<1>4. Last(nest).by = "top" /\ nest \in Seq(Act) /\ nest # << >>
    BY <1>3, LastNest
<1>5. nest' = Front(nest) /\ pc' = "done" /\ UNCHANGED <<cur, ci>>
    BY <1>4 DEF ReturnToC
<1>6. nest' \in Seq(Act) /\ Len(nest') = 0 /\ nest' = << >>
  <2>1. Front(nest) \in Seq(Act) /\ Len(Front(nest)) = 1 - 1
      BY <1>3, <1>4, FrontFacts
  <2>2. Len(nest') = 0 /\ nest' \in Seq(Act)
      BY <1>5, <2>1
  <2>. QED BY <2>2
<1>7. /\ \A x \in Context : \A i \in 1 .. Len(ci[x]) : ci[x][i].cci = "NONE"
      /\ \A x \in Context : vmexec[x] => status[x] = "TERMINATED"
    BY <1>3, NoMarks
<1>8. Contexts'
    BY <1>2, <1>5 DEF Contexts
<1>9. Position'
  <2>1. At(ci[cur], vmexec[cur], "done", 0)
    <3>1. 0 <= Len(ci[cur])
        BY Here
    <3>. QED BY <3>1 DEF At
  <2>. QED BY <1>2, <1>5, <2>1 DEF Position, Running
<1>10. Path(S, pos)'
    BY <1>2, <1>5 DEF Path
<1>11. \A n \in 1 .. Len(nest') : FALSE
    BY <1>6
<1>12. \A n \in 2 .. Len(nest') : FALSE
    BY <1>6
<1>13. CStack(S, pos)'
    BY <1>5, <1>6, <1>7, <1>11, <1>12 DEF CStack, Act
<1>14. FInv'
    BY <1>8, <1>9, <1>10, <1>13 DEF FInv, Story
<1>15. \A x \in Context : Keeps(ci[x], ci'[x])
  <2>1. PICK D : D = {}
      OBVIOUS
  <2>2. (\A x \in Context \ D : ci'[x] = ci[x]) /\ \A x \in D : Keeps(ci[x], ci'[x])
      BY <1>5, <2>1
  <2>. QED BY <2>2, KeepsRest
<1>. QED BY <1>5, <1>14, <1>15, TidyEnd

\* The end of the program, by an exception and by a return
LEMMA KeepRaiseAtRoot == FInv /\ RaiseAtRoot => FInv' /\ Tidy
<1>. SUFFICES ASSUME FInv, RaiseAtRoot PROVE FInv' /\ Tidy
    OBVIOUS
<1>1. pc = "raise" /\ cur = Root /\ Depth = 1 /\ ReturnToC(ci, cur) /\ UNCHANGED <<status, prev, vmexec, brk>>
    BY DEF RaiseAtRoot, Unhandled
<1>2. brk' = 0
    BY <1>1, Here DEF Position, At
<1>. QED BY <1>1, <1>2, ProgramEnds

\* The program returns from its first frame.
LEMMA KeepReturnFromRoot == FInv /\ ReturnFromRoot => FInv' /\ Tidy
<1>. SUFFICES ASSUME FInv, ReturnFromRoot PROVE FInv' /\ Tidy
    OBVIOUS
<1>1. pc = "break" /\ cur = Root /\ Depth = 1 /\ ReturnToC(ci, cur) /\ UNCHANGED <<status, prev, vmexec>> /\ brk' = 0
    BY DEF ReturnFromRoot, Returning, Exception
<1>. QED BY <1>1, ProgramEnds

\* An exception ends a fiber.
LEMMA KeepRaiseEndsFiber == FInv /\ RaiseEndsFiber => FInv' /\ Tidy
<1>. SUFFICES ASSUME FInv, RaiseEndsFiber PROVE FInv' /\ Tidy
    OBVIOUS
<1>1. PICK S \in SUBSET Context, pos \in [Context -> Nat] : Story(S, pos)
    BY DEF FInv
<1>2. PICK b : b = Resumer
    OBVIOUS
<1>. DEFINE dead == [ci EXCEPT ![cur] = << >>]
<1>3. /\ pc = "raise" /\ Depth = 1 /\ cur # Root /\ UNCHANGED <<vmexec, brk>>
      /\ status' = [status EXCEPT ![cur] = "TERMINATED", ![b] = "RUNNING"]
      /\ prev' = [prev EXCEPT ![cur] = NULL] /\ cur' = b
      /\ IF vmexec[cur] THEN Throw(dead) ELSE ci' = dead /\ UNCHANGED <<nest, pc>>
    BY <1>2 DEF RaiseEndsFiber, fiber_terminate, Unhandled
<1>4. /\ brk = 0 /\ brk' = 0 /\ Contexts /\ cur \in Context /\ ci \in [Context -> Seq(Frame)]
      /\ prev \in [Context -> Context \cup {NULL}] /\ prev[Root] = NULL /\ vmexec[cur] \in BOOLEAN
    BY <1>3, Here DEF Position, At, Contexts
<1>5. \A i \in 1 .. Len(ci[cur]) : ci[cur][i].cci # "SKIP"
    BY <1>3, OneFrame
<1>6. PICK u : u = << >>
    OBVIOUS
<1>7. /\ Stack(u) /\ (\A i \in 1 .. Len(u) : u[i].cci = "NONE") /\ u \in Seq(Frame) /\ dead = [ci EXCEPT ![cur] = u]
      /\ (u = << >> <=> "TERMINATED" = "TERMINATED") /\ "TERMINATED" \in {"TERMINATED", "SUSPENDED", "TRANSFERRED"}
  <2>1. u \in Seq(Frame) /\ Len(u) = 0
      BY <1>6
  <2>2. \A i \in 1 .. Len(u) : FALSE
      BY <2>1
  <2>. QED BY <1>6, <2>1, <2>2 DEF Stack
<1>8. dead \in [Context -> Seq(Frame)] /\ \A x \in Context : x # cur => dead[x] = ci[x]
    BY <1>4, <1>7
<1>9. Keeps(ci[cur], u)
  <2>1. Top.handler # "ensure"
      BY DEF RaiseEndsFiber, Unhandled
  <2>. QED BY <1>3, <1>6, <2>1, FirstFrameGoes
<1>. HIDE DEF dead
<1>10. CASE prev[cur] # NULL
  <2>1. b = prev[cur] /\ b # NULL
      BY <1>2, <1>10 DEF Resumer
  <2>2. b \in Context /\ b # cur
      BY <1>1, <2>1, BackTop
  <2>3. dead[b] = ci[b]
      BY <1>8, <2>2
  <2>4. CASE vmexec[cur]
    <3>1. PICK w \in [Context -> Seq(Frame)] : w = dead
        BY <1>8
    <3>2. /\ nest' = Front(nest)
          /\ \/ /\ pc' = "c"
                /\ ci' = [w EXCEPT ![b] = IF ci[b][Len(ci[b])].cci = "DIRECT" THEN Front(ci[b]) ELSE ci[b]]
             \/ pc' = "catch" /\ ci' = [w EXCEPT ![b] = ci[b]]
        BY <1>3, <1>5, <2>1, <2>3, <2>4, <3>1, ThrowsToResumer
    <3>3. PICK t : /\ ci' = [w EXCEPT ![b] = t]
                   /\ \/ /\ vmexec[cur] /\ pc' = "c"
                         /\ t = IF ci[b][Len(ci[b])].cci = "DIRECT" THEN Front(ci[b]) ELSE ci[b]
                      \/ vmexec[cur] /\ t = ci[b] /\ pc' = "catch"
        BY <2>4, <3>2
    <3>4. ci' = [ci EXCEPT ![cur] = u, ![b] = t]
        BY <1>7, <3>1, <3>3
    <3>5. /\ nest' = (IF vmexec[cur] THEN Front(nest) ELSE nest) /\ vmexec' = vmexec /\ pc # "done"
          /\ status' = [status EXCEPT ![cur] = "TERMINATED", ![b] = "RUNNING"]
          /\ prev' = [prev EXCEPT ![cur] = NULL] /\ cur' = b /\ brk' = 0
        BY <1>3, <1>4, <2>4, <3>2
    <3>6. \/ /\ vmexec[cur] /\ pc' = "c"
             /\ t = IF ci[b][Len(ci[b])].cci = "DIRECT" THEN Front(ci[b]) ELSE ci[b]
          \/ vmexec[cur] /\ t = ci[b] /\ pc' = "catch"
        BY <3>3
    <3>. QED BY <1>9, <1>5, <1>6, <1>7, <2>1, <3>4, <3>5, <3>6, GoBack
  <2>5. CASE ~vmexec[cur]
    <3>1. PICK t : t = ci[b]
        OBVIOUS
    <3>2. ci' = [ci EXCEPT ![cur] = u, ![b] = t]
      <4>1. ci' = dead /\ dead = [dead EXCEPT ![b] = t]
          BY <1>3, <1>8, <2>2, <2>3, <2>5, <3>1
      <4>. QED BY <1>7, <4>1
    <3>3. ~vmexec[cur] /\ t = ci[b] /\ pc' = "raise" /\ nest' = (IF vmexec[cur] THEN Front(nest) ELSE nest)
          /\ vmexec' = vmexec /\ pc # "done"
        BY <1>3, <2>5, <3>1
    <3>. QED BY <1>9, <1>3, <1>4, <1>5, <1>6, <1>7, <2>1, <3>2, <3>3, GoBack
  <2>. QED BY <1>4, <2>4, <2>5
<1>11. CASE prev[cur] = NULL
  <2>1. b = Root /\ b \in Context /\ b # cur
      BY <1>2, <1>3, <1>11 DEF Resumer, Context
  <2>2. Len(nest) = 1
      BY <1>1, <1>3, <1>5, <1>11, LoneActivation
  <2>3. ~vmexec[cur]
    <3>1. status[cur] # "TERMINATED"
        BY <1>4 DEF Contexts
    <3>2. vmexec[cur] => status[cur] = "TERMINATED"
        BY <1>3, <1>4, <2>2, NoMarks
    <3>. QED BY <3>1, <3>2
  <2>4. PICK t : t = ci[b]
      OBVIOUS
  <2>5. ci' = [ci EXCEPT ![cur] = u, ![b] = t]
    <3>1. ci' = dead /\ dead = [dead EXCEPT ![b] = t]
        BY <1>3, <1>8, <2>1, <2>3, <2>4
    <3>. QED BY <1>7, <3>1
  <2>6. ci[b] # << >>
      BY <1>4, <2>1 DEF Contexts
  <2>7. prev' \in [Context -> Context \cup {NULL}] /\ prev'[b] = NULL /\ prev'[Root] = NULL
      BY <1>3, <1>4, <2>1
  <2>8. pc' = "raise" /\ nest' = nest /\ vmexec' = vmexec
      BY <1>3, <2>3
  <2>. QED BY <1>9, <1>3, <1>4, <1>6, <1>7, <2>1, <2>2, <2>4, <2>5, <2>6, <2>7, <2>8, MoveOn
<1>. QED BY <1>10, <1>11

\* The body of a fiber returns.
LEMMA KeepReturnFromFiber == FInv /\ ReturnFromFiber => FInv' /\ Tidy
<1>. SUFFICES ASSUME FInv, ReturnFromFiber PROVE FInv' /\ Tidy
    OBVIOUS
<1>1. PICK S \in SUBSET Context, pos \in [Context -> Nat] : Story(S, pos)
    BY DEF FInv
<1>2. PICK b : b = Resumer
    OBVIOUS
<1>. DEFINE dead == [ci EXCEPT ![cur] = << >>]
            popped == [dead EXCEPT ![b] = Front(@)]
<1>3. /\ pc = "break" /\ Depth = 1 /\ cur # Root /\ brk' = 0
      /\ status' = [status EXCEPT ![cur] = "TERMINATED", ![b] = "RUNNING"]
      /\ prev' = [prev EXCEPT ![cur] = NULL] /\ vmexec' = [vmexec EXCEPT ![cur] = FALSE]
    BY <1>2 DEF ReturnFromFiber, Returning, Exception
<1>4. IF vmexec[cur] \/ (b = Root /\ Len(ci[Root]) = 1) THEN ReturnToC(dead, b)
      ELSE IF Last(ci[b]).cci \in {"SKIP", "DIRECT"} THEN ReturnToC(popped, b)
      ELSE cur' = b /\ ci' = popped /\ pc' = "rb" /\ UNCHANGED nest
    BY <1>2 DEF ReturnFromFiber
<1>5. /\ Contexts /\ cur \in Context /\ ci \in [Context -> Seq(Frame)]
      /\ prev \in [Context -> Context \cup {NULL}] /\ prev[Root] = NULL /\ vmexec[cur] \in BOOLEAN
    BY Here DEF Contexts
<1>6. \A i \in 1 .. Len(ci[cur]) : ci[cur][i].cci # "SKIP"
    BY <1>3, OneFrame
<1>7. PICK u : u = << >>
    OBVIOUS
<1>8. /\ Stack(u) /\ (\A i \in 1 .. Len(u) : u[i].cci = "NONE") /\ u \in Seq(Frame) /\ dead = [ci EXCEPT ![cur] = u]
      /\ (u = << >> <=> "TERMINATED" = "TERMINATED") /\ "TERMINATED" \in {"TERMINATED", "SUSPENDED", "TRANSFERRED"}
  <2>1. u \in Seq(Frame) /\ Len(u) = 0
      BY <1>7
  <2>2. \A i \in 1 .. Len(u) : FALSE
      BY <2>1
  <2>. QED BY <1>7, <2>1, <2>2 DEF Stack
<1>9. dead \in [Context -> Seq(Frame)] /\ \A x \in Context : x # cur => dead[x] = ci[x]
    BY <1>5, <1>8
<1>10. Keeps(ci[cur], u)
  <2>1. Top.handler # "ensure"
      BY DEF ReturnFromFiber, Returning
  <2>. QED BY <1>3, <1>7, <2>1, FirstFrameGoes
<1>. HIDE DEF dead
\* The context it ends in has the call on top, which is bytecode's unless C code
\* resumed the fiber.
<1>11. ASSUME b \in Context, b # cur, ~vmexec[cur], ci[b] \in Seq(Frame), Len(ci[b]) > 1,
             ci[b][Len(ci[b])].cci = "NONE"
      PROVE  cur' = b /\ ci' = [ci EXCEPT ![cur] = u, ![b] = Front(ci[b])] /\ pc' = "rb" /\ nest' = nest
  <2>1. Last(ci[b]).cci = "NONE" /\ Len(ci[b]) # 1 /\ dead[b] = ci[b]
      BY <1>9, <1>11 DEF Last
  <2>2. cur' = b /\ ci' = popped /\ pc' = "rb" /\ UNCHANGED nest
      BY <1>11, <1>4, <2>1
  <2>. QED BY <1>8, <2>1, <2>2
<1>12. CASE prev[cur] # NULL
  <2>1. b = prev[cur] /\ b # NULL
      BY <1>2, <1>12 DEF Resumer
  <2>2. /\ b \in Context /\ b # cur /\ ci[b] \in Seq(Frame) /\ Len(ci[b]) > 1
        /\ ci[b][Len(ci[b])].cci \in {"NONE", "DIRECT"}
        /\ ci[b][Len(ci[b])].cci = "DIRECT" => vmexec[cur]
      BY <1>1, <2>1, BackTop
  <2>3. dead[b] = ci[b]
      BY <1>9, <2>2
  <2>4. CASE vmexec[cur]
    <3>1. PICK w \in [Context -> Seq(Frame)] : w = dead
        BY <1>9
    <3>2. ReturnToC(w, b)
        BY <1>4, <2>4, <3>1
    <3>3. PICK t : t = IF ci[b][Len(ci[b])].cci = "DIRECT" THEN Front(ci[b]) ELSE ci[b]
        OBVIOUS
    <3>4. nest' = Front(nest) /\ pc' = "c" /\ cur' = b /\ ci' = [w EXCEPT ![b] = t]
        BY SMTT(30), <1>3, <1>6, <2>1, <2>3, <2>4, <3>1, <3>2, <3>3, ReturnsToResumer
    <3>5. ci' = [ci EXCEPT ![cur] = u, ![b] = t]
        BY <1>8, <3>1, <3>4
    <3>6. /\ nest' = (IF vmexec[cur] THEN Front(nest) ELSE nest) /\ pc # "done"
          /\ status' = [status EXCEPT ![cur] = "TERMINATED", ![b] = "RUNNING"]
          /\ prev' = [prev EXCEPT ![cur] = NULL] /\ cur' = b /\ brk' = 0
          /\ vmexec' = [vmexec EXCEPT ![cur] = FALSE]
        BY <1>3, <2>4, <3>4
    <3>7. /\ vmexec[cur] /\ pc' = "c"
          /\ t = IF ci[b][Len(ci[b])].cci = "DIRECT" THEN Front(ci[b]) ELSE ci[b]
        BY <2>4, <3>3, <3>4
    <3>. QED BY <1>10, <1>6, <1>7, <1>8, <2>1, <3>5, <3>6, <3>7, GoBack
  <2>5. CASE ~vmexec[cur]
    <3>1. PICK t : t = Front(ci[b])
        OBVIOUS
    <3>2. cur' = b /\ ci' = [ci EXCEPT ![cur] = u, ![b] = t] /\ pc' = "rb" /\ nest' = nest
        BY <1>11, <2>2, <2>5, <3>1
    <3>3. /\ nest' = (IF vmexec[cur] THEN Front(nest) ELSE nest) /\ pc # "done"
          /\ status' = [status EXCEPT ![cur] = "TERMINATED", ![b] = "RUNNING"]
          /\ prev' = [prev EXCEPT ![cur] = NULL] /\ brk' = 0
          /\ vmexec' = [vmexec EXCEPT ![cur] = FALSE]
        BY <1>3, <2>5, <3>2
    <3>. QED BY <1>10, <1>6, <1>7, <1>8, <2>1, <2>5, <3>1, <3>2, <3>3, GoBack
  <2>. QED BY <1>5, <2>4, <2>5
<1>13. CASE prev[cur] = NULL
  <2>1. b = Root /\ b \in Context /\ b # cur
      BY <1>2, <1>3, <1>13 DEF Resumer, Context
  <2>2. Len(nest) = 1
      BY <1>1, <1>3, <1>6, <1>13, LoneActivation
  <2>3. /\ ~vmexec[cur]
        /\ \A x \in Context : \A i \in 1 .. Len(ci[x]) : ci[x][i].cci = "NONE"
    <3>1. status[cur] # "TERMINATED"
        BY <1>5 DEF Contexts
    <3>2. /\ vmexec[cur] => status[cur] = "TERMINATED"
          /\ \A x \in Context : \A i \in 1 .. Len(ci[x]) : ci[x][i].cci = "NONE"
        BY <1>3, <1>5, <2>2, NoMarks
    <3>. QED BY <3>1, <3>2
  <2>4. /\ ci[b] # << >> /\ ci[b] \in Seq(Frame) /\ Len(ci[b]) \in Nat /\ Len(ci[b]) > 0
        /\ ci[b][Len(ci[b])].fn = "c" /\ Stack(ci[b])
    <3>1. ci[b] # << >> /\ ci[b] \in Seq(Frame) /\ ci[b][Len(ci[b])].fn = "c" /\ Stack(ci[b])
        BY <1>5, <2>1 DEF Contexts
    <3>. QED BY <3>1
  <2>5. Len(ci[b]) > 1 /\ ci[b][Len(ci[b])].cci = "NONE"
    <3>1. Len(ci[b]) \in 1 .. Len(ci[b])
        BY <2>4
    <3>. QED BY <2>1, <2>3, <2>4, <3>1 DEF Stack
  <2>6. PICK t : t = Front(ci[b])
      OBVIOUS
  <2>7. cur' = b /\ ci' = [ci EXCEPT ![cur] = u, ![b] = t] /\ pc' = "rb" /\ nest' = nest
      BY <1>11, <2>1, <2>3, <2>4, <2>5, <2>6
  <2>8. prev' \in [Context -> Context \cup {NULL}] /\ prev'[b] = NULL /\ prev'[Root] = NULL
      BY <1>3, <1>5, <2>1
  <2>. QED BY <1>10, <1>3, <1>7, <1>8, <2>1, <2>2, <2>4, <2>6, <2>7, <2>8, MoveOn
<1>. QED BY <1>12, <1>13

\* A step that changes nothing
LEMMA KeepSame == FInv /\ UNCHANGED fiberVars => FInv' /\ Tidy
<1>. SUFFICES ASSUME FInv, UNCHANGED <<cur, status, prev, vmexec, ci, nest, pc, brk>> PROVE FInv' /\ Tidy
    BY DEF fiberVars
<1>1. Contexts'
    BY DEF FInv, Contexts
<1>2. Position'
    BY DEF FInv, Position
<1>3. PICK S \in SUBSET Context, pos \in [Context -> Nat] : Story(S, pos)
    BY DEF FInv
<1>4. Path(S, pos)'
    BY <1>3 DEF Story, Path
<1>5. \A n \in 2 .. Len(nest) : Waits(S, nest[n])'
    BY <1>3 DEF Story, CStack, Waits
<1>6. CStack(S, pos)'
  <2>1. (\A n \in 2 .. Len(nest) : Waits(S, nest[n]))'
      BY <1>5
  <2>2. (nest \in Seq(Act))' /\ (\A n \in 1 .. Len(nest) : nest[n].by = "top" <=> n = 1)' /\ (pc = "done" <=> nest = << >>)'
      BY <1>3 DEF Story, CStack, Act
  <2>3. (\A m, n \in 2 .. Len(nest) : m < n => Before(pos, nest[m], nest[n]))'
      BY <1>3 DEF Story, CStack, Before
  <2>4. (\A x \in Context : \A i \in 1 .. Len(ci[x]) : ci[x][i].cci = "SKIP" =>
           \E n \in 2 .. Len(nest) : nest[n] = Activation("yield", x, i - 1, "NONE"))'
    <3>1. CStack(S, pos)
        BY <1>3 DEF Story
    <3>. QED BY <3>1, SkipHasAct DEF Activation
  <2>5. (\A x \in Context : \A i \in 1 .. Len(ci[x]) : ci[x][i].cci = "DIRECT" =>
           IF x = cur THEN pc = "catch" ELSE \E y \in S : prev[y] = x /\ vmexec[y])'
      BY <1>3 DEF Story, CStack
  <2>6. (\A x \in Context : vmexec[x] /\ status[x] # "TERMINATED" =>
           /\ x \in S /\ prev[x] # NULL
           /\ \E n \in 2 .. Len(nest) : nest[n].by = "resume" /\ nest[n].cxt = prev[x])'
      BY <1>3 DEF Story, CStack
  <2>. QED BY <2>1, <2>2, <2>3, <2>4, <2>5, <2>6 DEF CStack
<1>7. FInv'
    BY <1>1, <1>2, <1>4, <1>6 DEF FInv, Story
<1>8. \A x \in Context : Keeps(ci[x], ci'[x])
  <2>1. PICK D : D = {}
      OBVIOUS
  <2>2. (\A x \in Context \ D : ci'[x] = ci[x]) /\ \A x \in D : Keeps(ci[x], ci'[x])
      BY <2>1
  <2>. QED BY <2>2, KeepsRest
<1>. QED BY <1>7, <1>8, TidySame

\* A transfer happens when no C function waits anywhere on the chain: then only
\* the outermost activation is there.
LEMMA FreeToTransfer ==
    ASSUME FInv, pc = "rb", \A x \in Chain : ~Crosses(x),
           \A n \in DOMAIN nest : nest[n].by = "resume" => nest[n].cci = "DIRECT"
    PROVE  Len(nest) = 1
<1>1. PICK S \in SUBSET Context, pos \in [Context -> Nat] : Story(S, pos)
    BY DEF FInv
<1>2. Contexts /\ Path(S, pos) /\ CStack(S, pos) /\ Chain = S /\ ci \in [Context -> Seq(Frame)]
    BY <1>1, ChainIsPath, Here DEF Story
<1>3. Len(nest) \in Nat /\ Len(nest) > 0 /\ nest \in Seq(Act)
    BY LastNest
<1>4. ASSUME Len(nest) >= 2 PROVE FALSE
  <2>. DEFINE e == nest[2]
              s == ci[e.cxt]
  <2>1. 2 \in 2 .. Len(nest) /\ 2 \in DOMAIN nest
      BY <1>3, <1>4
  <2>2. Waits(S, e) /\ e.depth \in Nat /\ e.by \in {"yield", "resume"}
      BY <1>1, <2>1, ActFacts
  <2>3. e.cxt \in S /\ e.cxt \in Context /\ \A i \in DOMAIN s : s[i].cci = "NONE"
      BY <1>2, <2>2 DEF Waits, Crosses
  <2>4. s \in Seq(Frame) /\ Len(s) \in Nat /\ DOMAIN s = 1 .. Len(s)
      BY <1>2, <2>3
  <2>5. CASE e.by = "yield"
    <3>1. e.depth < Len(s) /\ s[e.depth + 1].cci = "SKIP"
        BY <2>2, <2>5 DEF Waits
    <3>2. e.depth + 1 \in 1 .. Len(s)
        BY <2>2, <2>4, <3>1
    <3>. QED BY <2>3, <2>4, <3>1, <3>2
  <2>6. CASE e.by = "resume"
    <3>1. e.depth = Len(s) /\ e.cci = s[e.depth].cci /\ \E y \in S : prev[y] = e.cxt
        BY <2>2, <2>6 DEF Waits
    <3>2. e.cci = "DIRECT"
        BY <2>1, <2>6
    <3>3. s # << >>
      <4>1. status[e.cxt] \in {"RUNNING", "RESUMED"}
          BY <1>2, <2>3 DEF Path, Contexts
      <4>. QED BY <1>2, <2>3, <4>1 DEF Contexts
    <3>4. Len(s) \in 1 .. Len(s)
        BY <2>4, <3>3
    <3>. QED BY <2>3, <2>4, <3>1, <3>2, <3>4
  <2>. QED BY <2>2, <2>5, <2>6
<1>5. \A k \in Nat : k > 0 /\ ~(k >= 2) => k = 1
    OBVIOUS
<1>. QED BY <1>3, <1>4, <1>5

\* Fiber#transfer: to itself nothing changes, else the chain starts again at the target.
LEMMA KeepTransfer ==
    ASSUME FInv, Contained, NEW f \in Context, fiber_transfer(f)
    PROVE  FInv' /\ Tidy
<1>. DEFINE c == CFrame("NONE", FALSE)
            s == ci[cur]
            u == Append(s, c)
            left == [ci EXCEPT ![cur] = u]
<1>1. InRuby /\ pc = "rb" /\ brk = 0 /\ s[Len(s)].fn = "rb"
    BY Here DEF fiber_transfer, InRuby, Position, At
<1>2. CASE CallRaises
    BY <1>1, <1>2, KeepCallRaises
<1>3. CASE ~CallRaises
  <2>1. /\ \A x \in Chain : ~Crosses(x)
        /\ \A n \in DOMAIN nest : nest[n].by = "resume" => nest[n].cci = "DIRECT"
        /\ status[f] \notin {"none", "RESUMED"} /\ (f # Root => f = cur \/ ~Refused(f, FALSE))
        /\ cur' = f /\ ci' = [left EXCEPT ![f] = Front(@)] /\ UNCHANGED <<vmexec, nest, pc, brk>>
      BY <1>3 DEF fiber_transfer, Contained
  <2>2. /\ f = Root => status' = [status EXCEPT ![cur] = "TRANSFERRED", ![f] = "RUNNING"] /\ UNCHANGED prev
        /\ f # Root /\ f = cur => UNCHANGED <<status, prev>>
        /\ f # Root /\ f # cur => /\ status' = [status EXCEPT ![cur] = "TRANSFERRED", ![f] = "RUNNING"]
                                  /\ prev' = [prev EXCEPT ![f] = NULL]
      BY <1>3 DEF fiber_transfer
  <2>3. Len(nest) = 1
      BY <1>1, <2>1, FreeToTransfer
  <2>4. /\ Stack(s) /\ s # << >> /\ s \in Seq(Frame) /\ Len(s) \in Nat /\ Len(s) > 0 /\ Contexts
        /\ ci \in [Context -> Seq(Frame)] /\ cur \in Context
        /\ status \in [Context -> Status] /\ prev \in [Context -> Context \cup {NULL}] /\ prev[Root] = NULL
        /\ \A x \in Context : status[x] = "RUNNING" <=> x = cur
      BY Here DEF Contexts
  <2>5. c \in Frame /\ c.cci = "NONE" /\ c.handler = "none" /\ c.pend = -1 /\ c.home \in -1 .. Len(s) /\ c.fn = "c"
    <3>1. c \in Frame
        BY <2>4, FrameTypes
    <3>. QED BY <2>4, <3>1 DEF CFrame
  <2>. HIDE DEF c
  <2>6. /\ Stack(u) /\ u # << >> /\ Len(u) = Len(s) + 1 /\ u[Len(s) + 1] = c
        /\ \A i \in 1 .. Len(s) : u[i] = s[i]
      BY <1>1, <2>4, <2>5, PushStack
  <2>7. u \in Seq(Frame) /\ Front(u) = s
    <3>1. u \in Seq(Frame)
        BY <2>6 DEF Stack
    <3>2. Front(u) = SubSeq(u, 1, Len(s))
        BY <2>4, <2>6 DEF Front
    <3>3. SubSeq(u, 1, Len(s)) = s
        BY <2>4, <2>5
    <3>. QED BY <3>1, <3>2, <3>3
  <2>. HIDE DEF u
  <2>8. left \in [Context -> Seq(Frame)] /\ left[cur] = u /\ \A x \in Context : x # cur => left[x] = ci[x]
      BY <2>4, <2>7
  <2>9. Keeps(ci[cur], u)
      BY <2>4, <2>6, <2>7, KeepsAll
  <2>10. CASE f = cur
    <3>1. ci' = ci
      <4>1. ci' = [left EXCEPT ![cur] = s]
          BY <2>1, <2>7, <2>8, <2>10
      <4>. QED BY <2>4, <4>1
    <3>2. status' = status /\ prev' = prev
        BY <2>2, <2>4, <2>10
    <3>. QED BY <2>1, <2>10, <3>1, <3>2, KeepSame DEF fiberVars
  <2>11. CASE f # cur
    <3>1. ci[f] # << >> /\ status' = [status EXCEPT ![cur] = "TRANSFERRED", ![f] = "RUNNING"]
      <4>1. status[f] # "TERMINATED"
        <5>1. CASE f = Root
            BY <2>4, <5>1 DEF Contexts
        <5>2. CASE f # Root
            BY <2>1, <2>11, <5>2 DEF Refused
        <5>. QED BY <5>1, <5>2
      <4>. QED BY <2>1, <2>2, <2>4, <2>11, <4>1 DEF Contexts
    <3>2. prev' \in [Context -> Context \cup {NULL}] /\ prev'[f] = NULL /\ prev'[Root] = NULL
        BY <2>2, <2>4, <2>11 DEF Context
    <3>3. \A i \in 1 .. Len(u) : u[i].cci = "NONE"
      <4>1. \A i \in 1 .. Len(s) : s[i].cci = "NONE"
          BY <1>1, <2>3, <2>4, NoMarks
      <4>2. \A i \in 1 .. Len(u) : i \in 1 .. Len(s) \/ i = Len(s) + 1
          BY <2>4, <2>6
      <4>. QED BY <2>5, <2>6, <4>1, <4>2
    <3>4. ci' = [ci EXCEPT ![cur] = u, ![f] = Front(ci[f])]
        BY <2>1, <2>8, <2>11
    <3>5. u[Len(u)].fn = "c" /\ (u = << >> <=> "TRANSFERRED" = "TERMINATED")
        BY <2>5, <2>6
    <3>6. PICK t : t = Front(ci[f])
        OBVIOUS
    <3>7. /\ pc \in {"rb", "raise", "break"} /\ cur' = f /\ nest' = nest /\ brk' = 0 /\ vmexec' = vmexec
          /\ t = Front(ci[f]) /\ pc' = "rb" /\ ci' = [ci EXCEPT ![cur] = u, ![f] = t]
          /\ "TRANSFERRED" \in {"TERMINATED", "TRANSFERRED"}
        BY <1>1, <2>1, <3>4, <3>6
    <3>. HIDE DEF s, left
    <3>. QED BY <2>3, <2>6, <2>11, <2>9, <3>1, <3>2, <3>3, <3>5, <3>7, MoveOn
  <2>. QED BY <2>10, <2>11
<1>. QED BY <1>2, <1>3

-----------------------------------------------------------------------------
(* A fiber is made, and resumed.                                           *)

\* A fiber that is not on the chain: C code did not resume it.
LEMMA OffChain ==
    ASSUME FInv, NEW S, NEW pos, Story(S, pos), NEW f \in Context,
           status[f] \in {"none", "CREATED", "SUSPENDED", "TRANSFERRED"}
    PROVE  f # cur /\ f \notin S /\ ~vmexec[f]
<1>1. Contexts /\ Path(S, pos) /\ CStack(S, pos)
    BY Here DEF Story
<1>2. f # cur
    BY <1>1 DEF Contexts
<1>3. f \notin S
    BY <1>1, <1>2 DEF Path
<1>. QED BY <1>1, <1>2, <1>3 DEF CStack

\* Fiber.new
LEMMA KeepInit ==
    ASSUME FInv, NEW f \in Fiber, fiber_init(f)
    PROVE  FInv' /\ Tidy
<1>1. PICK S \in SUBSET Context, pos \in [Context -> Nat] : Story(S, pos)
    BY DEF FInv
<1>2. PICK t : t = <<RubyFrame("NONE", -1), CFrame("NONE", FALSE)>>
    OBVIOUS
<1>3. /\ status[f] = "none" /\ status' = [status EXCEPT ![f] = "CREATED"] /\ pc = "rb"
      /\ ci' = [ci EXCEPT ![f] = t] /\ UNCHANGED <<cur, prev, vmexec, nest, pc, brk>>
    BY <1>2 DEF fiber_init, InRuby
<1>4. /\ f \in Context /\ f # Root /\ Contexts /\ Position /\ cur \in Context /\ ci \in [Context -> Seq(Frame)]
      /\ Path(S, pos) /\ CStack(S, pos)
    BY <1>1, FiberAssumption, Here DEF Context, Story
<1>5. f # cur /\ f \notin S /\ ~vmexec[f]
    BY <1>1, <1>3, <1>4, OffChain
<1>6. /\ t \in Seq(Frame) /\ Len(t) = 2 /\ t # << >>
      /\ t[1] = RubyFrame("NONE", -1) /\ t[2] = CFrame("NONE", FALSE)
  <2>. DEFINE r == RubyFrame("NONE", -1)
              c == CFrame("NONE", FALSE)
  <2>1. r \in Frame
      BY DEF RubyFrame, Frame, CINFO
  <2>2. c \in Frame
      BY DEF CFrame, Frame, CINFO
  <2>3. t = <<r, c>>
      BY <1>2
  <2>. HIDE DEF r, c
  <2>4. t \in Seq(Frame) /\ Len(t) = 2 /\ t # << >> /\ t[1] = r /\ t[2] = c
      BY <2>1, <2>2, <2>3
  <2>. QED BY <2>4 DEF r, c
<1>7. Stack(t) /\ t[Len(t)].fn = "c" /\ \A i \in 1 .. Len(t) : t[i].cci = "NONE"
  <2>1. \A i \in 1 .. Len(t) : i = 1 \/ i = 2
      BY <1>6
  <2>2. /\ t[1].fn = "rb" /\ t[1].cci = "NONE" /\ t[1].pend = -1 /\ t[1].home = -1
        /\ t[2].fn = "c" /\ t[2].cci = "NONE" /\ t[2].pend = -1 /\ t[2].home = 0 /\ t[2].handler = "none"
      BY <1>6 DEF RubyFrame, CFrame
  <2>3. \A i \in 1 .. Len(t) : i - 1 \in {0, 1} /\ (i > 1 => i = 2 /\ i - 1 = 1) /\ (i = 1 => i - 1 = 0)
      BY <2>1
  <2>4. ASSUME NEW i \in 1 .. Len(t)
        PROVE  /\ t[i].cci = "NONE" /\ (i = 1 => t[i].fn = "rb") /\ (i > 1 => t[i - 1].fn = "rb")
               /\ t[i].fn = "c" => t[i].handler = "none"
               /\ t[i].pend = -1
               /\ t[i].home \in -1 .. (i - 1) /\ t[i].pend \in -1 .. i
    <3>1. CASE i = 1
        BY <2>2, <3>1
    <3>2. CASE i = 2
        BY <2>2, <3>2
    <3>. QED BY <2>1, <3>1, <3>2
  <2>. QED BY <1>6, <2>2, <2>4 DEF Stack
<1>8. /\ ci' \in [Context -> Seq(Frame)] /\ ci'[f] = t /\ \A x \in Context : x # f => ci'[x] = ci[x]
      /\ status' \in [Context -> Status] /\ status'[f] = "CREATED"
      /\ \A x \in Context : x # f => status'[x] = status[x]
  <2>1. status \in [Context -> Status]
      BY <1>4 DEF Contexts
  <2>. QED BY <1>3, <1>4, <1>6, <2>1 DEF Status
<1>9. Contexts'
  <2>1. \A x \in Context : Stack(ci'[x])
      BY <1>4, <1>7, <1>8 DEF Contexts
  <2>2. \A x \in Context : status'[x] \in {"none", "TERMINATED"} <=> ci'[x] = << >>
      BY <1>4, <1>6, <1>8 DEF Contexts
  <2>3. \A x \in Context : status'[x] = "RUNNING" <=> x = cur'
      BY <1>3, <1>4, <1>5, <1>8 DEF Contexts
  <2>4. \A x \in Context : x # cur' /\ ci'[x] # << >> => ci'[x][Len(ci'[x])].fn = "c"
      BY <1>3, <1>4, <1>7, <1>8 DEF Contexts
  <2>. QED BY <1>3, <1>4, <1>8, <2>1, <2>2, <2>3, <2>4 DEF Contexts, Status
<1>10. Position'
    BY <1>3, <1>4, <1>5, <1>8 DEF Position
<1>11. Path(S, pos)'
  <2>1. \A x \in S : x \in Context /\ x # f
      BY <1>5
  <2>. QED BY <1>3, <1>4, <1>8, <2>1 DEF Path
<1>12. CStack(S, pos)'
  <2>1. (\A n \in 2 .. Len(nest) : Waits(S, nest[n]))'
    <3>. SUFFICES ASSUME NEW n \in 2 .. Len(nest) PROVE Waits(S, nest[n])'
        BY <1>3
    <3>1. PICK e : e = nest[n]
        OBVIOUS
    <3>2. Waits(S, e) /\ nest'[n] = e
        BY <1>3, <1>4, <3>1 DEF CStack
    <3>3. ci'[e.cxt] = ci[e.cxt]
        BY <1>5, <1>8, <3>2 DEF Waits
    <3>. QED BY <1>3, <3>2, <3>3 DEF Waits
  <2>2. (nest \in Seq(Act))' /\ (\A n \in 1 .. Len(nest) : nest[n].by = "top" <=> n = 1)' /\ (pc = "done" <=> nest = << >>)'
      BY <1>3, <1>4 DEF CStack, Act
  <2>3. (\A m, n \in 2 .. Len(nest) : m < n => Before(pos, nest[m], nest[n]))'
      BY <1>3, <1>4 DEF CStack, Before
  <2>4. (\A x \in Context : \A i \in 1 .. Len(ci[x]) : ci[x][i].cci = "SKIP" =>
           \E n \in 2 .. Len(nest) : nest[n] = Activation("yield", x, i - 1, "NONE"))'
    <3>. SUFFICES ASSUME NEW x \in Context, NEW i \in 1 .. Len(ci'[x]), ci'[x][i].cci = "SKIP"
                  PROVE  \E n \in 2 .. Len(nest) : nest[n] = Activation("yield", x, i - 1, "NONE")
        BY <1>3 DEF Activation
    <3>1. x # f
        BY <1>7, <1>8
    <3>. QED BY <1>4, <1>8, <3>1, SkipHasAct
  <2>5. (\A x \in Context : \A i \in 1 .. Len(ci[x]) : ci[x][i].cci = "DIRECT" =>
           IF x = cur THEN pc = "catch" ELSE \E y \in S : prev[y] = x /\ vmexec[y])'
    <3>. SUFFICES ASSUME NEW x \in Context, NEW i \in 1 .. Len(ci'[x]), ci'[x][i].cci = "DIRECT"
                  PROVE  IF x = cur THEN pc = "catch" ELSE \E y \in S : prev[y] = x /\ vmexec[y]
        BY <1>3
    <3>1. x # f
        BY <1>7, <1>8
    <3>2. i \in 1 .. Len(ci[x]) /\ ci[x][i].cci = "DIRECT"
        BY <1>8, <3>1
    <3>. QED BY <1>4, <3>2 DEF CStack
  <2>6. (\A x \in Context : vmexec[x] /\ status[x] # "TERMINATED" =>
           /\ x \in S /\ prev[x] # NULL
           /\ \E n \in 2 .. Len(nest) : nest[n].by = "resume" /\ nest[n].cxt = prev[x])'
    <3>. SUFFICES ASSUME NEW x \in Context, vmexec[x], status'[x] # "TERMINATED"
                  PROVE  /\ x \in S /\ prev[x] # NULL
                         /\ \E n \in 2 .. Len(nest) : nest[n].by = "resume" /\ nest[n].cxt = prev[x]
        BY <1>3
    <3>1. status[x] # "TERMINATED"
        BY <1>5, <1>8
    <3>. QED BY <1>4, <3>1 DEF CStack
  <2>. QED BY <2>1, <2>2, <2>3, <2>4, <2>5, <2>6 DEF CStack
<1>13. FInv'
    BY <1>9, <1>10, <1>11, <1>12 DEF FInv, Story
<1>14. \A x \in Context : Keeps(ci[x], ci'[x])
  <2>1. ci[f] = << >>
      BY <1>3, <1>4 DEF Contexts
  <2>2. Keeps(ci[f], t)
    <3>1. ci[f] \in Seq(Frame) /\ Len(ci[f]) = 0
        BY <1>4, <2>1
    <3>2. Len(t) >= Len(ci[f])
        BY <1>6, <3>1
    <3>. QED BY <1>6, <3>1, <3>2, KeepsAll
  <2>3. PICK D : D = {f}
      OBVIOUS
  <2>4. (\A x \in Context \ D : ci'[x] = ci[x]) /\ \A x \in D : Keeps(ci[x], ci'[x])
      BY <1>8, <2>2, <2>3
  <2>. QED BY <2>4, KeepsRest
<1>. QED BY <1>3, <1>13, <1>14, TidySame

\* Fiber f comes last on the chain.
Extends(S, pos, f, T, q) ==
    /\ f \in Context /\ f \notin S /\ T = S \cup {f}
    /\ q \in [Context -> Nat] /\ q[f] = pos[cur] + 1 /\ \A x \in S : q[x] = pos[x]

\* The running context, the last of chain S, waits for f.
WaitsFor(S, f) ==
    /\ cur' = f /\ status'[cur] = "RESUMED" /\ prev'[f] = cur /\ \A x \in S : prev'[x] = prev[x]
    /\ \A x \in Context : x # cur /\ x # f => status'[x] = status[x]

\* The chain with the fiber that is resumed
LEMMA EnterPath ==
    ASSUME Contexts, NEW S, NEW pos, Path(S, pos), NEW f, NEW T, NEW q, Extends(S, pos, f, T, q), WaitsFor(S, f)
    PROVE  Path(T, q)'
<1>. USE DEF Extends, WaitsFor
<1>1. /\ S \subseteq Context /\ cur \in S /\ cur \in Context /\ prev \in [Context -> Context \cup {NULL}]
      /\ pos \in [Context -> Nat]
    BY DEF Contexts, Path
<1>2. /\ q \in [Context -> Nat] /\ q[f] = pos[cur] + 1 /\ prev'[f] = cur
      /\ \A x \in S : x \in Context /\ x # f /\ prev'[x] = prev[x] /\ q[x] = pos[x]
    BY <1>1
<1>3. \A x \in S : pos[x] \in Nat /\ pos[x] <= pos[cur] /\ pos[x] < q[f]
  <2>1. \A x \in S : pos[x] \in Nat /\ pos[x] <= pos[cur]
      BY <1>1 DEF Path
  <2>. QED BY <1>1, <1>2, <2>1
<1>4. \A x \in T : x # f => status'[x] = "RESUMED" /\ q[x] < q[f]
    BY <1>1, <1>2, <1>3 DEF Path
<1>5. \A x \in T : prev'[x] # NULL => prev'[x] \in T /\ q[x] = q[prev'[x]] + 1
    BY <1>1, <1>2 DEF Path
<1>6. \A x \in T : prev'[x] = NULL => q[x] = 0
    BY <1>1, <1>2, ContextNotNull DEF Path
<1>7. \A x, y \in T : q[x] = q[y] => x = y
  <2>. SUFFICES ASSUME NEW x \in T, NEW y \in T, q[x] = q[y] PROVE x = y
      OBVIOUS
  <2>1. CASE x \in S /\ y \in S
      BY <1>2, <2>1 DEF Path
  <2>2. CASE x = f /\ y \in S
      BY <1>2, <1>3, <2>2
  <2>3. CASE x \in S /\ y = f
      BY <1>2, <1>3, <2>3
  <2>. QED BY <2>1, <2>2, <2>3
<1>8. \A x \in T : x # f => \E y \in T : prev'[y] = x
  <2>. SUFFICES ASSUME NEW x \in T, x # f PROVE \E y \in T : prev'[y] = x
      OBVIOUS
  <2>1. CASE x = cur
      BY <1>2, <2>1
  <2>2. CASE x # cur
    <3>1. PICK y \in S : prev[y] = x
        BY <2>2 DEF Path
    <3>. QED BY <1>2, <3>1
  <2>. QED BY <2>1, <2>2
<1>. QED BY <1>1, <1>2, <1>4, <1>5, <1>6, <1>7, <1>8 DEF Path

\* The running context resumes f and waits with frames p.  If C code resumes it
\* (k = 1), a new activation a runs the fiber.
Resumes(f, k, p, a) ==
    /\ pc # "done" /\ pc' # "done" /\ ~vmexec[f] /\ cur' = f /\ status'[cur] = "RESUMED"
    /\ \A x \in Context : x # cur /\ x # f => status'[x] = status[x] /\ ci'[x] = ci[x]
    /\ k \in {0, 1} /\ (vmexec'[f] <=> k = 1) /\ \A x \in Context : x # f => vmexec'[x] = vmexec[x]
    /\ p \in Seq(Frame) /\ p # << >> /\ ci'[cur] = p /\ SameSkips(ci[cur], p) /\ (NoDirect(p) \/ k = 1)
    /\ p[Len(p)].cci \in {"NONE", "DIRECT"}
    /\ \A i \in 1 .. Len(ci'[f]) : ci'[f][i].cci = "NONE"
    /\ a \in Act /\ a.by = "resume" /\ a.cxt = cur /\ a.depth = Len(p) /\ a.cci = p[Len(p)].cci
    /\ (k = 1 => nest' = Append(nest, a)) /\ (k = 0 => nest' = nest)

\* The C stack when a fiber is resumed
LEMMA Enter ==
    ASSUME FInv, NEW S, NEW pos, Story(S, pos), NEW f, NEW T, NEW q, Extends(S, pos, f, T, q),
           Path(T, q)', prev'[f] = cur, \A x \in S : prev'[x] = prev[x],
           NEW k, NEW p, NEW a, Resumes(f, k, p, a)
    PROVE  Story(T, q)'
<1>. USE DEF Extends, Resumes
<1>. DEFINE L == Len(nest)
            M == L + k
            s == ci[cur]
<1>1. /\ Contexts /\ cur \in Context /\ Path(S, pos) /\ CStack(S, pos) /\ S \subseteq Context /\ cur \in S
      /\ s \in Seq(Frame) /\ Len(s) \in Nat
    BY Here DEF Story, Path
<1>2. /\ Path(T, q)' /\ prev'[f] = cur /\ q[f] = pos[cur] + 1 /\ f # cur
      /\ \A x \in S : x \in Context /\ x # f /\ prev'[x] = prev[x] /\ q[x] = pos[x]
    BY <1>1
<1>3. a \in Act /\ a.by = "resume" /\ a.cxt = cur /\ a.depth = Len(p) /\ a.cci = p[Len(p)].cci
    OBVIOUS
<1>4. /\ L \in Nat /\ L > 0 /\ M \in Nat /\ nest' \in Seq(Act) /\ Len(nest') = M /\ M >= L
      /\ (k = 1 => M = L + 1 /\ nest'[L + 1] = a) /\ (k = 0 => M = L)
      /\ \A n \in 1 .. L : nest'[n] = nest[n]
  <2>1. nest \in Seq(Act) /\ L \in Nat /\ L > 0
      BY LastNest
  <2>2. CASE k = 1
    <3>1. M = L + 1 /\ nest' = Append(nest, a)
        BY <2>2
    <3>2. /\ Append(nest, a) \in Seq(Act) /\ Len(Append(nest, a)) = L + 1 /\ Append(nest, a)[L + 1] = a
          /\ \A n \in 1 .. L : Append(nest, a)[n] = nest[n]
        BY <2>1
    <3>. HIDE DEF L, M
    <3>. QED BY <2>1, <2>2, <3>1, <3>2
  <2>3. CASE k = 0
      BY <2>1, <2>3
  <2>. QED BY <2>2, <2>3
<1>5. \A n \in 2 .. L : /\ n \in 1 .. L /\ n \in 2 .. M /\ nest'[n] = nest[n] /\ nest[n] \in Act /\ Waits(S, nest[n])
                        /\ nest[n].by \in {"yield", "resume"} /\ nest[n].depth \in Nat /\ nest[n].cxt \in S
  <2>1. \A n \in 2 .. L : n \in 1 .. L /\ n \in 2 .. M
      BY <1>4
  <2>2. \A n \in 2 .. L : /\ nest[n] \in Act /\ Waits(S, nest[n])
                          /\ nest[n].by \in {"yield", "resume"} /\ nest[n].depth \in Nat
      BY ActFacts
  <2>. QED BY <1>4, <2>1, <2>2 DEF Waits
<1>6. \A n \in 2 .. M : n \in 2 .. L \/ (k = 1 /\ n = L + 1)
    BY <1>4
<1>. HIDE DEF L, M, s
\* The blocks that C code called in the context keep their frames.
<1>7. ASSUME NEW n \in 2 .. L, nest[n].cxt = cur
      PROVE  /\ nest[n].by = "yield" /\ nest[n].depth > 0 /\ nest[n].cci = "NONE"
             /\ nest[n].depth < Len(p) /\ p[nest[n].depth + 1].cci = "SKIP"
  <2>1. PICK d \in Nat : d = nest[n].depth
      BY <1>5
  <2>2. nest[n].by = "yield"
      BY <1>1, <1>5, <1>7, ResumesElsewhere DEF L
  <2>3. d > 0 /\ d < Len(s) /\ s[d + 1].cci = "SKIP" /\ nest[n].cci = "NONE"
      BY SMTT(30), <1>5, <1>7, <2>1, <2>2 DEF Waits, s
  <2>4. d + 1 \in Nat /\ d + 1 \in 1 .. Len(s)
      BY <1>1, <2>3
  <2>5. d + 1 \in 1 .. Len(p) /\ p[d + 1].cci = "SKIP" /\ Len(p) \in Nat
      BY <2>3, <2>4 DEF SameSkips, s
  <2>6. d < Len(p)
      BY <2>5
  <2>. QED BY <2>1, <2>2, <2>3, <2>5, <2>6
<1>8. ASSUME NEW n \in 2 .. M PROVE Waits(T, nest[n])'
  <2>1. CASE k = 1 /\ n = L + 1
    <3>1. nest'[n] = a /\ cur \in T /\ f \in T
        BY <1>1, <1>4, <2>1
    <3>. QED BY <1>2, <1>3, <2>1, <3>1 DEF Waits
  <2>2. CASE n \in 2 .. L
    <3>1. PICK e : e = nest[n]
        OBVIOUS
    <3>2. /\ nest'[n] = e /\ Waits(S, e) /\ e.by \in {"yield", "resume"} /\ e.depth \in Nat
          /\ e.cxt \in S /\ e.cxt \in T /\ e.cxt # f /\ e.cxt \in Context
        BY <1>2, <1>5, <2>2, <3>1
    <3>3. CASE e.cxt = cur
        BY SMTT(30), <1>7, <2>2, <3>1, <3>2, <3>3 DEF Waits
    <3>4. CASE e.cxt # cur
      <4>1. ci'[e.cxt] = ci[e.cxt]
          BY <3>2, <3>4
      <4>2. ASSUME e.by = "resume" PROVE \E y \in T : prev'[y] = e.cxt /\ vmexec'[y]
        <5>1. PICK y \in S : prev[y] = e.cxt /\ vmexec[y]
            BY <3>2, <4>2 DEF Waits
        <5>2. prev'[y] = e.cxt /\ vmexec'[y] /\ y \in T
            BY <1>2, <5>1
        <5>. QED BY <5>2
      <4>. QED BY <3>2, <4>1, <4>2 DEF Waits
    <3>. QED BY <3>3, <3>4
  <2>. QED BY <1>6, <2>1, <2>2
<1>9. ASSUME NEW m \in 2 .. M, NEW n \in 2 .. M, m < n PROVE Before(q, nest'[m], nest'[n])
  <2>1. m \in 2 .. L
      BY <1>4, <1>6, <1>9
  <2>2. nest'[m] = nest[m] /\ nest[m].cxt \in S /\ q[nest[m].cxt] = pos[nest[m].cxt]
      BY <1>2, <1>5, <2>1
  <2>3. CASE n \in 2 .. L
    <3>1. Before(pos, nest[m], nest[n])
        BY <1>1, <1>9, <2>1, <2>3 DEF CStack, L
    <3>2. nest'[n] = nest[n] /\ q[nest[n].cxt] = pos[nest[n].cxt]
        BY <1>2, <1>5, <2>3
    <3>. QED BY <2>2, <3>1, <3>2 DEF Before
  <2>4. CASE k = 1 /\ n = L + 1
    <3>1. nest'[n] = a /\ q[cur] = pos[cur]
        BY <1>1, <1>2, <1>4, <2>4
    <3>2. CASE nest[m].cxt = cur
        BY <1>3, <1>7, <2>1, <2>2, <3>1, <3>2 DEF Before
    <3>3. CASE nest[m].cxt # cur
      <4>1. pos[nest[m].cxt] < pos[cur]
          BY <1>1, <2>2, <3>3 DEF Path
      <4>. QED BY <1>3, <2>2, <3>1, <4>1 DEF Before
    <3>. QED BY <3>2, <3>3
  <2>. QED BY <1>6, <2>3, <2>4
<1>10. ASSUME NEW x \in Context, NEW i \in 1 .. Len(ci'[x]), ci'[x][i].cci = "SKIP"
       PROVE  \E n \in 2 .. M : nest'[n] = Activation("yield", x, i - 1, "NONE")
  <2>1. x # f
      BY <1>10
  <2>2. i \in 1 .. Len(ci[x]) /\ ci[x][i].cci = "SKIP"
    <3>1. CASE x # cur
        BY <1>10, <2>1, <3>1
    <3>2. CASE x = cur
      <4>1. i \in Nat
          OBVIOUS
      <4>. QED BY <1>10, <3>2, <4>1 DEF SameSkips
    <3>. QED BY <3>1, <3>2
  <2>3. PICK n \in 2 .. L : nest[n] = Activation("yield", x, i - 1, "NONE")
      BY <1>1, <2>2, SkipHasAct DEF L
  <2>. QED BY <1>5, <2>3
<1>11. ASSUME NEW x \in Context, NEW i \in 1 .. Len(ci'[x]), ci'[x][i].cci = "DIRECT"
       PROVE  x # f /\ \E y \in T : prev'[y] = x /\ vmexec'[y]
  <2>1. x # f
      BY <1>11
  <2>2. CASE x = cur
    <3>1. k = 1
        BY <1>11, <2>2 DEF NoDirect
    <3>. QED BY <1>2, <2>1, <2>2, <3>1
  <2>3. CASE x # cur
    <3>1. PICK y \in S : prev[y] = x /\ vmexec[y]
        BY <1>1, <1>11, <2>1, <2>3 DEF CStack
    <3>. QED BY <1>2, <2>1, <3>1
  <2>. QED BY <2>2, <2>3
<1>12. ASSUME NEW x \in Context, vmexec'[x], status'[x] # "TERMINATED"
       PROVE  /\ x \in T /\ prev'[x] # NULL
              /\ \E n \in 2 .. M : nest'[n].by = "resume" /\ nest'[n].cxt = prev'[x]
  <2>1. CASE x = f
    <3>1. k = 1 /\ L + 1 \in 2 .. M /\ nest'[L + 1] = a
        BY <1>4, <1>12, <2>1
    <3>. QED BY <1>1, <1>2, <1>3, <2>1, <3>1, ContextNotNull
  <2>2. CASE x # f
    <3>1. vmexec[x] /\ status[x] # "TERMINATED"
        BY <1>1, <1>12, <2>2 DEF Contexts
    <3>2. /\ x \in S /\ prev[x] # NULL
          /\ \E n \in 2 .. L : nest[n].by = "resume" /\ nest[n].cxt = prev[x]
        BY <1>1, <3>1 DEF CStack, L
    <3>3. prev'[x] = prev[x] /\ x \in T
        BY <1>2, <3>2
    <3>. QED BY <1>5, <3>2, <3>3
  <2>. QED BY <2>1, <2>2
<1>13. \A n \in 1 .. M : nest'[n].by = "top" <=> n = 1
  <2>1. \A n \in 1 .. L : nest[n].by = "top" <=> n = 1
      BY <1>1 DEF CStack, L
  <2>2. \A n \in 1 .. M : n \in 1 .. L \/ (k = 1 /\ n = L + 1)
      BY <1>4
  <2>. QED BY <1>3, <1>4, <2>1, <2>2
<1>14. nest' # << >>
    BY <1>4
<1>15. CStack(T, q)'
  <2>1. (\A n \in 2 .. Len(nest) : Waits(T, nest[n]))'
      BY <1>4, <1>8
  <2>2. (\A m, n \in 2 .. Len(nest) : m < n => Before(q, nest[m], nest[n]))'
      BY <1>4, <1>9 DEF Before
  <2>3. (\A x \in Context : \A i \in 1 .. Len(ci[x]) : ci[x][i].cci = "SKIP" =>
           \E n \in 2 .. Len(nest) : nest[n] = Activation("yield", x, i - 1, "NONE"))'
      BY <1>4, <1>10 DEF Activation
  <2>4. (\A x \in Context : \A i \in 1 .. Len(ci[x]) : ci[x][i].cci = "DIRECT" =>
           IF x = cur THEN pc = "catch" ELSE \E y \in T : prev[y] = x /\ vmexec[y])'
      BY <1>11
  <2>5. (\A x \in Context : vmexec[x] /\ status[x] # "TERMINATED" =>
           /\ x \in T /\ prev[x] # NULL
           /\ \E n \in 2 .. Len(nest) : nest[n].by = "resume" /\ nest[n].cxt = prev[x])'
      BY <1>4, <1>12
  <2>6. (nest \in Seq(Act))'
      BY <1>4 DEF Act
  <2>. QED BY <1>4, <1>13, <1>14, <2>1, <2>2, <2>3, <2>4, <2>5, <2>6 DEF CStack
<1>. QED BY <1>2, <1>15 DEF Story

\* A fiber that was made or has yielded is resumed: the epilogue pops its top frame.
LEMMA GoIn ==
    ASSUME FInv, pc \in {"rb", "c"}, NEW f \in Fiber, status[f] \in {"CREATED", "SUSPENDED"}, ~Crosses(f),
           NEW k \in {0, 1}, NEW p, Stack(p), p # << >>, p[Len(p)].fn = "c", SameSkips(ci[cur], p), Keeps(ci[cur], p),
           NoDirect(p) \/ k = 1, PlainStack(ci[cur]) => PlainStack(p),
           status' = [status EXCEPT ![cur] = "RESUMED", ![f] = "RUNNING"],
           prev' = [prev EXCEPT ![f] = cur],
           k = 1 => vmexec' = [vmexec EXCEPT ![f] = TRUE], k = 0 => vmexec' = vmexec,
           NEW t, t = Front(ci[f]), cur' = f, ci' = [ci EXCEPT ![cur] = p, ![f] = t],
           NEW a \in Act, a.by = "resume", a.cxt = cur, a.depth = Len(p), a.cci = p[Len(p)].cci,
           k = 1 => nest' = Append(nest, a), k = 0 => nest' = nest, pc' = "rb", brk' = 0
    PROVE  FInv' /\ Tidy
<1>1. PICK S \in SUBSET Context, pos \in [Context -> Nat] : Story(S, pos)
    BY DEF FInv
<1>2. /\ Contexts /\ Position /\ cur \in Context /\ f \in Context /\ f # Root /\ ci \in [Context -> Seq(Frame)]
      /\ Path(S, pos) /\ CStack(S, pos)
    BY <1>1, FiberAssumption, Here DEF Context, Story
<1>3. f # cur /\ f \notin S /\ ~vmexec[f]
    BY <1>1, <1>2, OffChain
<1>. DEFINE s == ci[f]
<1>4. /\ Stack(s) /\ s \in Seq(Frame) /\ Len(s) \in Nat /\ Len(s) > 1 /\ s # << >>
      /\ s[Len(s)].fn = "c" /\ s[Len(s) - 1].fn = "rb" /\ \A i \in 1 .. Len(s) : s[i].cci = "NONE"
  <2>1. Stack(s) /\ s # << >> /\ s[Len(s)].fn = "c" /\ s \in Seq(Frame)
      BY <1>2, <1>3 DEF Contexts
  <2>2. \A i \in 1 .. Len(s) : s[i].cci = "NONE"
      BY <2>1 DEF Crosses
  <2>. HIDE DEF s
  <2>3. Len(s) \in Nat /\ Len(s) > 0 /\ Len(s) \in 1 .. Len(s)
      BY <2>1
  <2>. QED BY <2>1, <2>2, <2>3 DEF Stack
<1>5. /\ Stack(t) /\ t \in Seq(Frame) /\ Len(t) = Len(s) - 1
      /\ \A i \in 1 .. Len(s) - 1 : t[i] = s[i]
    BY <1>4, PopStack
<1>. HIDE DEF s
<1>6. t # << >> /\ t[Len(t)].fn = "rb" /\ (\A i \in 1 .. Len(t) : t[i].cci = "NONE") /\ Len(t) \in Nat
    BY <1>4, <1>5
<1>7. p \in Seq(Frame) /\ p[Len(p)].cci \in {"NONE", "DIRECT"} /\ Len(p) \in 1 .. Len(p)
  <2>1. p \in Seq(Frame) /\ Len(p) \in 1 .. Len(p)
    <3>1. p \in Seq(Frame)
        BY DEF Stack
    <3>. QED BY <3>1
  <2>. QED BY <2>1 DEF Stack
<1>8. /\ ci' \in [Context -> Seq(Frame)] /\ ci'[cur] = p /\ ci'[f] = t
      /\ \A x \in Context : x # cur /\ x # f => ci'[x] = ci[x]
    BY <1>2, <1>3, <1>5, <1>7
<1>9. /\ status' \in [Context -> Status] /\ status'[cur] = "RESUMED" /\ status'[f] = "RUNNING"
      /\ \A x \in Context : x # cur /\ x # f => status'[x] = status[x]
  <2>1. status \in [Context -> Status]
      BY <1>2 DEF Contexts
  <2>. QED BY <1>2, <1>3, <2>1 DEF Status
<1>10. /\ vmexec' \in [Context -> BOOLEAN] /\ (vmexec'[f] <=> k = 1)
       /\ \A x \in Context : x # f => vmexec'[x] = vmexec[x]
  <2>1. vmexec \in [Context -> BOOLEAN]
      BY <1>2 DEF Contexts
  <2>2. CASE k = 1
      BY <1>2, <2>1, <2>2
  <2>3. CASE k = 0
      BY <1>2, <1>3, <2>1, <2>3
  <2>. QED BY <2>2, <2>3
<1>11. /\ prev' \in [Context -> Context \cup {NULL}] /\ prev'[Root] = NULL /\ prev'[f] = cur
       /\ \A x \in S : prev'[x] = prev[x]
  <2>1. prev \in [Context -> Context \cup {NULL}] /\ prev[Root] = NULL
      BY <1>2 DEF Contexts
  <2>. QED BY <1>1, <1>2, <1>3, <2>1
<1>12. Contexts'
  <2>1. \A x \in Context : Stack(ci'[x])
      BY <1>2, <1>5, <1>8 DEF Contexts
  <2>2. \A x \in Context : status'[x] \in {"none", "TERMINATED"} <=> ci'[x] = << >>
      BY <1>2, <1>6, <1>8, <1>9 DEF Contexts
  <2>3. \A x \in Context : status'[x] = "RUNNING" <=> x = cur'
      BY <1>2, <1>3, <1>9 DEF Contexts
  <2>4. \A x \in Context : x # cur' /\ ci'[x] # << >> => ci'[x][Len(ci'[x])].fn = "c"
      BY <1>2, <1>8 DEF Contexts
  <2>5. status'[Root] \in {"RUNNING", "RESUMED", "TRANSFERRED"}
      BY <1>2, <1>9 DEF Contexts, Context
  <2>6. cur' \in Context
      BY <1>2
  <2>. QED BY <1>8, <1>9, <1>10, <1>11, <2>1, <2>2, <2>3, <2>4, <2>5, <2>6 DEF Contexts, Status
<1>13. Position'
  <2>1. At(t, vmexec'[f], "rb", 0)
    <3>1. 0 <= Len(t)
        BY <1>6
    <3>. QED BY <1>6, <3>1 DEF At
  <2>2. ASSUME NEW x \in Context, vmexec'[x] PROVE PlainStack(ci'[x])
    <3>1. CASE x = f
      <4>1. \A i \in 1 .. Len(t) : t[i].pend \in -1 .. i
          BY <1>5 DEF Stack
      <4>2. PlainStack(t)
        <5>. SUFFICES ASSUME NEW i \in 1 .. Len(t), t[i].pend > 0, NEW j \in t[i].pend + 1 .. i
                      PROVE  t[j].cci = "NONE"
            BY DEF PlainStack, Plain
        <5>1. t[i].pend \in Int /\ j \in 1 .. Len(t)
            BY <1>6, <4>1
        <5>. QED BY <1>6, <5>1
      <4>. QED BY <1>8, <3>1, <4>2
    <3>2. CASE x = cur
        BY <1>2, <1>3, <1>8, <1>10, <2>2, <3>2 DEF Position
    <3>3. CASE x # cur /\ x # f
        BY <1>2, <1>8, <1>10, <2>2, <3>3 DEF Position
    <3>. QED BY <3>1, <3>2, <3>3
  <2>3. At(ci'[cur'], vmexec'[cur'], pc', brk')
      BY <1>8, <2>1
  <2>. QED BY <2>2, <2>3 DEF Position, Running
<1>14. PICK T \in SUBSET Context : T = S \cup {f}
    BY <1>1, <1>2
<1>15. PICK q \in [Context -> Nat] : q[f] = pos[cur] + 1 /\ \A x \in S : q[x] = pos[x]
  <2>. DEFINE r == [pos EXCEPT ![f] = pos[cur] + 1]
  <2>1. r \in [Context -> Nat] /\ r[f] = pos[cur] + 1 /\ \A x \in S : r[x] = pos[x]
      BY <1>1, <1>2, <1>3
  <2>. HIDE DEF r
  <2>. QED BY <2>1
<1>16. Path(T, q)' /\ Extends(S, pos, f, T, q)
  <2>1. Extends(S, pos, f, T, q)
      BY <1>2, <1>3, <1>14, <1>15 DEF Extends
  <2>2. WaitsFor(S, f)
      BY <1>9, <1>11 DEF WaitsFor
  <2>. QED BY <1>2, <2>1, <2>2, EnterPath
<1>17. Story(T, q)'
  <2>1. \A i \in 1 .. Len(ci'[f]) : ci'[f][i].cci = "NONE"
      BY <1>6, <1>8
  <2>2. \A x \in Context : x # cur /\ x # f => status'[x] = status[x] /\ ci'[x] = ci[x]
      BY <1>8, <1>9
  <2>3. pc # "done" /\ pc' # "done"
      OBVIOUS
  <2>4. Resumes(f, k, p, a)
      BY <1>3, <1>7, <1>8, <1>9, <1>10, <2>1, <2>2, <2>3 DEF Resumes
  <2>. QED BY <1>1, <1>11, <1>16, <2>4, Enter
<1>18. FInv'
    BY <1>12, <1>13, <1>14, <1>15, <1>17 DEF FInv
<1>19. \A x \in Context : Keeps(ci[x], ci'[x])
  <2>1. s[Len(s)].handler # "ensure"
      BY <1>4 DEF Stack
  <2>2. Keeps(s, t)
      BY <1>4, <2>1, KeepsBelow DEF s
  <2>3. PICK D : D = {cur, f}
      OBVIOUS
  <2>4. (\A x \in Context \ D : ci'[x] = ci[x]) /\ \A x \in D : Keeps(ci[x], ci'[x])
      BY <1>8, <2>2, <2>3 DEF s
  <2>. QED BY <2>4, KeepsRest
<1>20. pc # "done"
    OBVIOUS
<1>21. CASE k = 1
    BY <1>18, <1>19, <1>20, <1>21, TidyCall
<1>22. CASE k = 0
    BY <1>18, <1>19, <1>22, TidySame
<1>. QED BY <1>21, <1>22

\* A fiber that may be resumed was made and has not started, or has yielded.
LEMMA Resumable ==
    ASSUME FInv, NEW f \in Fiber, status[f] # "none", ~Refused(f, TRUE)
    PROVE  status[f] \in {"CREATED", "SUSPENDED"} /\ ~Crosses(f) /\ f # cur
<1>1. status[f] \in Status
    BY DEF FInv, Contexts, Context
<1>. QED BY <1>1 DEF Refused, Status

\* A frame for a C function is pushed: on bytecode, or by mrb_funcall on a C function.
LEMMA PushedC ==
    ASSUME FInv, NEW c \in {"NONE", "DIRECT"}, NEW f, f = CFrame(c, FALSE),
           pc = IF c = "NONE" THEN "rb" ELSE "c", NEW p, p = Append(ci[cur], f)
    PROVE  /\ Stack(p) /\ p # << >> /\ Len(p) \in Nat /\ p[Len(p)] = f /\ f.fn = "c" /\ f.cci = c
           /\ SameSkips(ci[cur], p)
           /\ c = "NONE" => NoDirect(p)
           /\ PlainStack(ci[cur]) => PlainStack(p)
           /\ Keeps(ci[cur], p)
<1>. DEFINE s == ci[cur]
<1>1. /\ Stack(s) /\ s # << >> /\ s \in Seq(Frame) /\ Len(s) \in Nat /\ Len(s) > 0 /\ NoDirect(s)
      /\ s[Len(s)].fn = pc
    BY Here DEF Position, At
<1>2. f \in Frame
    BY FrameTypes
<1>3. /\ f.cci = c /\ f.handler = "none" /\ f.pend = -1 /\ f.home \in -1 .. Len(s) /\ f.fn = "c"
    BY <1>1 DEF CFrame
<1>4. c # "NONE" => s[Len(s)].fn = "c" /\ s[Len(s)].cci = "NONE"
    BY <1>1 DEF Stack, NoDirect
<1>5. c = "NONE" => s[Len(s)].fn = "rb"
    BY <1>1
<1>. HIDE DEF s
<1>6. p = Append(s, f)
    BY DEF s
<1>7. /\ Stack(p) /\ p # << >> /\ Len(p) = Len(s) + 1 /\ p[Len(s) + 1] = f
      /\ \A i \in 1 .. Len(s) : p[i] = s[i]
      /\ PlainStack(s) => PlainStack(p)
  <2>1. /\ f.cci \in {"NONE", "SKIP", "DIRECT"}
        /\ f.cci = "NONE" => s[Len(s)].fn = "rb"
        /\ f.cci # "NONE" => s[Len(s)].fn = "c" /\ s[Len(s)].cci = "NONE"
        /\ f.cci = "SKIP" => f.fn = "rb"
        /\ f.cci = "DIRECT" => f.fn = "c"
      BY <1>3, <1>4, <1>5
  <2>2. /\ Stack(Append(s, f)) /\ Append(s, f) # << >>
        /\ Len(Append(s, f)) = Len(s) + 1 /\ Append(s, f)[Len(s) + 1] = f
        /\ \A i \in 1 .. Len(s) : Append(s, f)[i] = s[i]
        /\ PlainStack(s) => PlainStack(Append(s, f))
      BY <1>1, <1>2, <1>3, <2>1, PushStack
  <2>. QED BY <1>6, <2>2
<1>8. SameSkips(s, p) /\ (c = "NONE" => NoDirect(p))
  <2>1. \A i \in Nat : i \in 1 .. Len(p) <=> i \in 1 .. Len(s) \/ i = Len(s) + 1
      BY <1>1, <1>7
  <2>2. p[Len(s) + 1].cci = c
      BY <1>3, <1>7
  <2>3. \A i \in 1 .. Len(p) : i \in Nat
      BY <1>1, <1>7
  <2>4. SameSkips(s, p)
    <3>. SUFFICES ASSUME NEW i \in Nat
                  PROVE  (i \in 1 .. Len(s) /\ s[i].cci = "SKIP")
                           <=> (i \in 1 .. Len(p) /\ p[i].cci = "SKIP")
        BY DEF SameSkips
    <3>. QED BY <1>1, <1>7, <2>1, <2>2
  <2>5. c = "NONE" => NoDirect(p)
      BY <1>1, <1>7, <2>1, <2>2, <2>3 DEF NoDirect
  <2>. QED BY <2>4, <2>5
<1>9. Len(p) \in Nat /\ p[Len(p)] = f
  <2>1. Len(s) + 1 \in Nat
      BY <1>1
  <2>. QED BY <1>7, <2>1
<1>10. Keeps(s, p)
  <2>1. p \in Seq(Frame)
      BY <1>7 DEF Stack
  <2>2. Len(p) >= Len(s)
      BY <1>1, <1>7
  <2>. QED BY <1>1, <2>1, <2>2, KeepsAll
<1>. QED BY <1>3, <1>7, <1>8, <1>9, <1>10 DEF s

\* Fiber#resume from bytecode
LEMMA KeepResume ==
    ASSUME FInv, NEW f \in Fiber, fiber_resume(f)
    PROVE  FInv' /\ Tidy
<1>1. InRuby /\ pc = "rb" /\ brk = 0 /\ cur \in Context
    BY Here DEF fiber_resume, InRuby, Position, At
<1>2. CASE CallRaises
    BY <1>1, <1>2, KeepCallRaises
<1>3. CASE ~CallRaises
  <2>1. PICK g : g = CFrame("NONE", FALSE)
      OBVIOUS
  <2>2. PICK p : p = Append(ci[cur], g)
      OBVIOUS
  <2>3. PICK t : t = Front(ci[f])
      OBVIOUS
  <2>4. PICK a : a = Activation("resume", cur, Len(p), "NONE")
      OBVIOUS
  <2>5. /\ status[f] # "none" /\ ~Refused(f, TRUE)
        /\ status' = [status EXCEPT ![cur] = "RESUMED", ![f] = "RUNNING"]
        /\ prev' = [prev EXCEPT ![f] = cur] /\ cur' = f
        /\ ci' = [ci EXCEPT ![cur] = Append(@, g), ![f] = Front(@)]
        /\ UNCHANGED <<vmexec, nest, pc, brk>>
      BY <1>3, <2>1 DEF fiber_resume
  <2>6. status[f] \in {"CREATED", "SUSPENDED"} /\ ~Crosses(f) /\ f # cur
      BY <2>5, Resumable
  <2>7. /\ Stack(p) /\ p # << >> /\ Len(p) \in Nat /\ p[Len(p)] = g /\ g.fn = "c" /\ g.cci = "NONE"
        /\ SameSkips(ci[cur], p) /\ NoDirect(p)
        /\ PlainStack(ci[cur]) => PlainStack(p)
        /\ Keeps(ci[cur], p)
      BY <1>1, <2>1, <2>2, PushedC
  <2>8. ci' = [ci EXCEPT ![cur] = p, ![f] = t]
      BY <2>2, <2>3, <2>5, <2>6
  <2>9. a \in Act /\ a.by = "resume" /\ a.cxt = cur /\ a.depth = Len(p) /\ a.cci = p[Len(p)].cci
      BY <1>1, <2>4, <2>7 DEF Activation, Act
  <2>10. pc' = "rb" /\ brk' = 0 /\ vmexec' = vmexec /\ nest' = nest
      BY <1>1, <2>5
  <2>11. PICK k \in {0, 1} : k = 0
      OBVIOUS
  <2>12. /\ pc \in {"rb", "c"} /\ p[Len(p)].fn = "c" /\ (NoDirect(p) \/ k = 1)
         /\ k = 1 => vmexec' = [vmexec EXCEPT ![f] = TRUE]
         /\ k = 0 => vmexec' = vmexec
         /\ k = 1 => nest' = Append(nest, a)
         /\ k = 0 => nest' = nest
         /\ status' = [status EXCEPT ![cur] = "RESUMED", ![f] = "RUNNING"]
         /\ prev' = [prev EXCEPT ![f] = cur] /\ cur' = f
      BY <1>1, <2>5, <2>7, <2>10, <2>11
  <2>. QED BY <2>3, <2>6, <2>7, <2>8, <2>9, <2>10, <2>12, GoIn
<1>. QED BY <1>2, <1>3

\* Resume from a C function
LEMMA KeepResumeFromC ==
    ASSUME FInv, NEW f \in Fiber, NEW funcall \in BOOLEAN, ResumeFromC(f, funcall)
    PROVE  FInv' /\ Tidy
<1>1. /\ InC /\ pc = "c" /\ brk = 0 /\ cur \in Context /\ status[f] # "none"
      /\ ci \in [Context -> Seq(Frame)] /\ Depth \in Nat
    BY Here DEF ResumeFromC, InC, Position, At
<1>2. PICK p : p = IF funcall THEN Append(ci[cur], CFrame("DIRECT", FALSE)) ELSE ci[cur]
    OBVIOUS
<1>3. /\ Stack(p) /\ p # << >> /\ Len(p) \in Nat /\ p[Len(p)].fn = "c" /\ SameSkips(ci[cur], p)
      /\ PlainStack(ci[cur]) => PlainStack(p)
      /\ Keeps(ci[cur], p)
  <2>1. CASE funcall
    <3>1. PICK g : g = CFrame("DIRECT", FALSE)
        OBVIOUS
    <3>2. p = Append(ci[cur], g)
        BY <1>2, <2>1, <3>1
    <3>. QED BY ZenonT(60), <1>1, <3>1, <3>2, PushedC
  <2>2. CASE ~funcall
    <3>1. p = ci[cur]
        BY <1>2, <2>2
    <3>2. Keeps(ci[cur], p)
        BY <3>1, Here, KeepsAll
    <3>. QED BY <1>1, <3>1, <3>2, Here DEF SameSkips, Position, At
  <2>. QED BY <2>1, <2>2
<1>4. CASE Refused(f, TRUE)
  <2>1. /\ brk' = 0 /\ UNCHANGED <<cur, status, prev, vmexec, nest>>
        /\ Top.protect => UNCHANGED <<ci, pc>>
        /\ ~Top.protect => ci' = [ci EXCEPT ![cur] = p] /\ pc' = "catch"
      BY <1>2, <1>4 DEF ResumeFromC, Exception
  <2>2. CASE Top.protect
      BY <1>1, <2>1, <2>2, StayOwn
  <2>3. CASE ~Top.protect
    <3>1. At(p, vmexec[cur], pc', brk')
        BY <1>3, <2>1, <2>3 DEF At
    <3>2. pc # "done" /\ pc' \in Running \ {"done"} /\ brk' \in Nat
        BY <1>1, <2>1, <2>3 DEF Running
    <3>3. vmexec[cur] => PlainStack(p)
        BY <1>3, Here
    <3>4. UNCHANGED <<cur, status, prev, vmexec, nest>> /\ ci' = [ci EXCEPT ![cur] = p] /\ pc' = "catch"
        BY <2>1, <2>3
    <3>. QED BY <1>3, <3>1, <3>2, <3>3, <3>4, OwnStep
  <2>. QED BY <2>2, <2>3
<1>5. CASE ~Refused(f, TRUE)
  <2>1. PICK t : t = Front(ci[f])
      OBVIOUS
  <2>2. PICK a : a = Activation("resume", cur, Len(p), p[Len(p)].cci)
      OBVIOUS
  <2>3. /\ status' = [status EXCEPT ![cur] = "RESUMED", ![f] = "RUNNING"]
        /\ prev' = [prev EXCEPT ![f] = cur] /\ vmexec' = [vmexec EXCEPT ![f] = TRUE] /\ cur' = f
        /\ ci' = [ci EXCEPT ![cur] = p, ![f] = Front(@)]
        /\ nest' = Append(nest, a) /\ pc' = "rb" /\ brk' = 0
      BY <1>1, <1>2, <1>5, <2>2 DEF ResumeFromC, Last
  <2>4. status[f] \in {"CREATED", "SUSPENDED"} /\ ~Crosses(f) /\ f # cur
      BY <1>1, <1>5, Resumable
  <2>5. ci' = [ci EXCEPT ![cur] = p, ![f] = t]
      BY <2>1, <2>3, <2>4
  <2>6. p[Len(p)].cci \in {"NONE", "DIRECT"}
    <3>1. p \in Seq(Frame) /\ Len(p) > 0
        BY <1>3 DEF Stack
    <3>. QED BY <1>3, <3>1 DEF Stack
  <2>7. a \in Act /\ a.by = "resume" /\ a.cxt = cur /\ a.depth = Len(p) /\ a.cci = p[Len(p)].cci
      BY <1>1, <1>3, <2>2, <2>6 DEF Activation, Act
  <2>8. PICK k \in {0, 1} : k = 1
      OBVIOUS
  <2>9. /\ pc \in {"rb", "c"} /\ (NoDirect(p) \/ k = 1)
        /\ k = 1 => vmexec' = [vmexec EXCEPT ![f] = TRUE]
        /\ k = 0 => vmexec' = vmexec
        /\ k = 1 => nest' = Append(nest, a)
        /\ k = 0 => nest' = nest
        /\ status' = [status EXCEPT ![cur] = "RESUMED", ![f] = "RUNNING"]
        /\ prev' = [prev EXCEPT ![f] = cur] /\ cur' = f /\ pc' = "rb" /\ brk' = 0
      BY <1>1, <2>3, <2>8
  <2>. QED BY <1>3, <2>1, <2>4, <2>5, <2>7, <2>9, GoIn
<1>. QED BY <1>4, <1>5

-----------------------------------------------------------------------------
(* The theorems.                                                           *)

\* The outermost activation runs the program from its first frame.
Outermost == nest # << >> => nest[1] = Activation("top", Root, 0, "NONE")

\* The initial state: the root context runs, and nothing waits.
LEMMA InitInv == FiberInit => FInv /\ Outermost
<1>. SUFFICES ASSUME FiberInit PROVE FInv /\ Outermost
    OBVIOUS
<1>1. PICK r : r = RubyFrame("NONE", 0)
    OBVIOUS
<1>2. PICK s : s = <<r>>
    OBVIOUS
<1>3. r \in Frame
    BY <1>1, FrameTypes
<1>4. r.fn = "rb" /\ r.cci = "NONE" /\ r.handler = "none" /\ r.pend = -1 /\ r.home = 0
    BY <1>1 DEF RubyFrame
<1>5. s \in Seq(Frame) /\ Len(s) = 1 /\ s # << >> /\ s[1] = r
    BY <1>2, <1>3
<1>6. Root \in Context /\ Root # NULL
    BY FiberAssumption DEF Context
<1>7. ci \in [Context -> Seq(Frame)] /\ ci[Root] = s /\ \A x \in Context : x # Root => ci[x] = << >>
  <2>1. ci = [x \in Context |-> IF x = Root THEN s ELSE << >>]
      BY <1>1, <1>2 DEF FiberInit
  <2>2. << >> \in Seq(Frame)
      OBVIOUS
  <2>. QED BY <1>5, <1>6, <2>1, <2>2
<1>8. \A i \in 1 .. Len(s) : i = 1
    BY <1>5
<1>9. Stack(s) /\ PlainStack(s)
  <2>1. Stack(s)
    <3>. SUFFICES ASSUME NEW i \in 1 .. Len(s), i = 1
                  PROVE  /\ s[i].cci = "NONE" /\ s[i].fn = "rb" /\ s[i].pend \in -1 .. i
                         /\ s[i].home \in -1 .. (i - 1) /\ ~(i > 1)
        BY <1>5, <1>8 DEF Stack
    <3>. QED BY <1>4, <1>5
  <2>2. \A i \in 1 .. Len(s) : ~(s[i].pend > 0)
      BY <1>4, <1>5, <1>8
  <2>. QED BY <2>1, <2>2 DEF PlainStack
<1>10. Stack(<< >>)
  <2>1. \A i \in 1 .. Len(<< >>) : FALSE
      OBVIOUS
  <2>. QED BY <2>1 DEF Stack
<1>11. /\ cur = Root /\ pc = "rb" /\ brk = 0 /\ nest = <<Activation("top", Root, 0, "NONE")>>
       /\ status \in [Context -> Status] /\ status[Root] = "RUNNING"
       /\ \A x \in Context : x # Root => status[x] = "none"
       /\ prev \in [Context -> Context \cup {NULL}] /\ \A x \in Context : prev[x] = NULL
       /\ vmexec \in [Context -> BOOLEAN] /\ \A x \in Context : ~vmexec[x]
    BY <1>6 DEF FiberInit, Status
<1>12. Contexts
  <2>1. \A x \in Context : Stack(ci[x])
      BY <1>7, <1>9, <1>10
  <2>2. \A x \in Context : status[x] \in {"none", "TERMINATED"} <=> ci[x] = << >>
      BY <1>5, <1>7, <1>11
  <2>3. \A x \in Context : status[x] = "RUNNING" <=> x = cur
      BY <1>11
  <2>. QED BY <1>6, <1>7, <1>11, <2>1, <2>2, <2>3 DEF Contexts
<1>13. Position
  <2>1. At(s, vmexec[Root], "rb", 0)
      BY <1>4, <1>5, <1>6, <1>11 DEF At
  <2>. QED BY <1>7, <1>11, <2>1 DEF Position, Running
<1>14. PICK a : a = Activation("top", Root, 0, "NONE")
    OBVIOUS
<1>15. a \in Act /\ a.by = "top"
    BY <1>6, <1>14 DEF Activation, Act
<1>16. nest \in Seq(Act) /\ Len(nest) = 1 /\ nest[1] = a /\ nest # << >>
    BY <1>11, <1>14, <1>15
<1>17. PICK S \in SUBSET Context : S = {Root}
    BY <1>6
<1>18. PICK pos \in [Context -> Nat] : \A x \in Context : pos[x] = 0
  <2>1. [x \in Context |-> 0] \in [Context -> Nat]
      OBVIOUS
  <2>. QED BY <2>1
<1>19. Path(S, pos)
    BY <1>6, <1>11, <1>17, <1>18 DEF Path
<1>20. CStack(S, pos)
  <2>1. \A n \in 2 .. Len(nest) : FALSE
      BY <1>16
  <2>2. \A n \in 1 .. Len(nest) : n = 1
      BY <1>16
  <2>3. \A x \in Context : \A i \in 1 .. Len(ci[x]) : ci[x][i].cci = "NONE"
    <3>1. \A i \in 1 .. Len(<< >>) : FALSE
        OBVIOUS
    <3>. QED BY <1>4, <1>5, <1>7, <1>8, <3>1
  <2>. QED BY <1>11, <1>15, <1>16, <2>1, <2>2, <2>3 DEF CStack
<1>. QED BY <1>12, <1>13, <1>14, <1>16, <1>19, <1>20 DEF FInv, Story, Outermost

\* Every step keeps the invariant and is tidy.
LEMMA StepInv ==
    ASSUME FInv, Outermost, Contained, [FiberNext]_fiberVars
    PROVE  FInv' /\ Outermost' /\ Tidy
<1>1. FInv' /\ Tidy
  <2>1. CASE SendRuby
      BY <2>1, KeepSendRuby
  <2>2. CASE BlkCall
      BY <2>2, KeepBlkCall
  <2>3. CASE EndBegin
      BY <2>3, KeepEndBegin
  <2>4. CASE RaiseIf
      BY <2>4, KeepRaiseIf
  <2>5. CASE Raise
      BY <2>5, KeepRaise
  <2>6. CASE Return
      BY <2>6, KeepReturn
  <2>7. CASE Break
      BY <2>7, KeepBreak
  <2>8. CASE ReturnBlk
      BY <2>8, KeepReturnBlk
  <2>9. CASE \E p \in BOOLEAN : SendC(p)
      BY <2>9, KeepSendC
  <2>10. CASE \E h \in {"rescue", "ensure"} : Begin(h)
      BY <2>10, KeepBegin
  <2>11. CASE Handle
      BY <2>11, KeepHandle
  <2>12. CASE RaisePop
      BY <2>12, KeepRaisePop
  <2>13. CASE RaiseAtRoot
      BY <2>13, KeepRaiseAtRoot
  <2>14. CASE RaiseEndsFiber
      BY <2>14, KeepRaiseEndsFiber
  <2>15. CASE Catch
      BY <2>15, KeepCatch
  <2>16. CASE BreakEnsure
      BY <2>16, KeepBreakEnsure
  <2>17. CASE BreakPop
      BY <2>17, KeepBreakPop
  <2>18. CASE ReturnFrame
      BY <2>18, KeepReturnFrame
  <2>19. CASE ReturnFromRoot
      BY <2>19, KeepReturnFromRoot
  <2>20. CASE ReturnFromFiber
      BY <2>20, KeepReturnFromFiber
  <2>21. CASE mrb_yield
      BY <2>21, KeepYield
  <2>22. CASE ReturnFromC
      BY <2>22, KeepReturnFromC
  <2>23. CASE RaiseInC
      BY <2>23, KeepRaiseInC
  <2>24. ASSUME NEW f \in Fiber, fiber_init(f) PROVE FInv' /\ Tidy
      BY <2>24, KeepInit
  <2>25. ASSUME NEW f \in Fiber, fiber_resume(f) PROVE FInv' /\ Tidy
      BY <2>25, KeepResume
  <2>26. ASSUME NEW f \in Fiber, NEW funcall \in BOOLEAN, ResumeFromC(f, funcall) PROVE FInv' /\ Tidy
      BY <2>26, KeepResumeFromC
  <2>27. ASSUME NEW f \in Context, fiber_transfer(f) PROVE FInv' /\ Tidy
      BY <2>27, KeepTransfer
  <2>28. CASE mrb_fiber_yield
      BY <2>28, KeepFiberYield
  <2>29. CASE UNCHANGED fiberVars
      BY <2>29, KeepSame
  <2>30. Ended => UNCHANGED fiberVars
      BY DEF Ended
  <2>. QED BY <2>1, <2>2, <2>3, <2>4, <2>5, <2>6, <2>7, <2>8, <2>9, <2>10, <2>11, <2>12, <2>13, <2>14, <2>15,
              <2>16, <2>17, <2>18, <2>19, <2>20, <2>21, <2>22, <2>23, <2>24, <2>25, <2>26, <2>27, <2>28, <2>29,
              <2>30 DEF FiberNext
<1>2. Outermost'
    BY <1>1 DEF Tidy, Outermost, Activation
<1>. QED BY <1>1, <1>2

\* The invariant holds all along.
LEMMA Always ==
    ASSUME Contained
    PROVE  FiberSpec => [](FInv /\ Outermost)
<1>1. FInv /\ Outermost /\ [FiberNext]_fiberVars => (FInv /\ Outermost)'
    BY StepInv
<1>. QED BY <1>1, InitInv, PTL DEF FiberSpec

\* The invariant gives the types, and the target of a break that is under way.
LEMMA TypesFromInv == FInv => FiberTypeOK
<1>. SUFFICES ASSUME FInv PROVE FiberTypeOK
    OBVIOUS
<1>1. Contexts /\ Position
    BY Here
<1>2. \A x \in Context : \A i \in DOMAIN ci[x] : ci[x][i] \in Frame
  <2>. SUFFICES ASSUME NEW x \in Context, NEW i \in DOMAIN ci[x] PROVE ci[x][i] \in Frame
      OBVIOUS
  <2>1. ci[x] \in Seq(Frame)
      BY <1>1 DEF Contexts
  <2>. QED BY <2>1
<1>3. pc = "break" => brk \in 1 .. Depth
    BY <1>1, Here DEF Position, At
<1>. QED BY <1>1, <1>2, <1>3 DEF FiberTypeOK, Contexts, Status, Position

\* The contexts, frames and jumps of the VM have their types in every state.
THEOREM FiberTypes ==
    ASSUME Contained
    PROVE  FiberSpec => []FiberTypeOK
    BY Always, TypesFromInv, PTL

\* An activation that waits has its caller's frame, and the frame it runs above.
LEMMA CallerWaits ==
    ASSUME FInv, NEW S, NEW pos, Story(S, pos), NEW e \in Act, e.by # "top", Waits(S, e)
    PROVE  /\ Caller(e) \in DOMAIN ci[e.cxt] /\ ci[e.cxt][Caller(e)].fn = "c"
           /\ e.by = "yield" => /\ e.depth + 1 \in DOMAIN ci[e.cxt]
                                /\ ci[e.cxt][e.depth + 1].cci = "SKIP"
           /\ e.depth > 0
<1>. DEFINE s == ci[e.cxt]
<1>1. Contexts /\ Path(S, pos)
    BY Here DEF Story
<1>2. e.cxt \in Context /\ e.depth \in Nat /\ Stack(s) /\ s \in Seq(Frame)
    BY <1>1 DEF Act, Contexts
<1>3. CASE e.by = "yield"
  <2>1. e.cci = "NONE" /\ e.depth > 0 /\ e.depth < Len(s) /\ s[e.depth + 1].cci = "SKIP"
      BY <1>3 DEF Waits
  <2>. HIDE DEF s
  <2>2. e.depth + 1 \in 1 .. Len(s) /\ e.depth \in 1 .. Len(s) /\ (e.depth + 1) - 1 = e.depth /\ e.depth + 1 > 1
      BY <1>2, <2>1
  <2>3. s[e.depth].fn = "c"
      BY <1>2, <2>1, <2>2 DEF Stack
  <2>4. Caller(e) = e.depth /\ DOMAIN s = 1 .. Len(s)
      BY <1>2, <2>1 DEF Caller
  <2>. QED BY <2>1, <2>2, <2>3, <2>4 DEF s
<1>4. CASE e.by = "resume"
  <2>1. PICK y \in S : prev[y] = e.cxt /\ vmexec[y]
      BY <1>4 DEF Waits
  <2>2. e.cxt # cur /\ e.cxt \in S
      BY <1>1, <1>2, <2>1, NotResumer, ContextNotNull
  <2>3. s # << >> /\ s[Len(s)].fn = "c"
      BY <1>1, <1>2, <2>2 DEF Path, Contexts
  <2>4. e.depth = Len(s) /\ e.cci = s[Len(s)].cci
      BY <1>4 DEF Waits
  <2>. HIDE DEF s
  <2>5. Len(s) > 0 /\ Len(s) \in 1 .. Len(s) /\ DOMAIN s = 1 .. Len(s)
      BY <1>2, <2>3
  <2>6. CASE e.cci = "DIRECT"
    <3>1. s[Len(s)].cci = "DIRECT"
        BY <2>4, <2>6
    <3>2. Len(s) = 1 => s[Len(s)].cci = "NONE"
        BY <1>2, <2>5 DEF Stack
    <3>3. Len(s) > 1 /\ s[Len(s)].cci # "NONE" => s[Len(s) - 1].fn = "c"
        BY <1>2, <2>5 DEF Stack
    <3>4. Len(s) \in Nat
        BY <1>2
    <3>5. Len(s) > 1 /\ s[Len(s) - 1].fn = "c"
        BY <2>5, <3>1, <3>2, <3>3, <3>4
    <3>6. Caller(e) = Len(s) - 1 /\ Len(s) - 1 \in 1 .. Len(s)
        BY <1>2, <2>4, <2>6, <3>5 DEF Caller
    <3>. QED BY <1>4, <2>4, <2>5, <3>5, <3>6 DEF s
  <2>7. CASE e.cci # "DIRECT"
    <3>1. Caller(e) = Len(s)
        BY <1>2, <2>4, <2>7 DEF Caller
    <3>. QED BY <1>4, <2>3, <2>4, <2>5, <3>1 DEF s
  <2>. QED BY <2>6, <2>7
<1>. QED BY <1>3, <1>4 DEF Act

\* The invariant relates the C stack to the call frames.
LEMMA StacksFromInv == FInv /\ Outermost => StacksInStep
<1>. SUFFICES ASSUME FInv, Outermost PROVE StacksInStep
    OBVIOUS
<1>1. PICK S \in SUBSET Context, pos \in [Context -> Nat] : Story(S, pos)
    BY DEF FInv
<1>2. Contexts /\ Position /\ Path(S, pos) /\ CStack(S, pos)
    BY <1>1, Here DEF Story
<1>3. nest \in Seq(Act) /\ DOMAIN nest = 1 .. Len(nest) /\ Len(nest) \in Nat
    BY <1>2 DEF CStack
<1>4. pc \in {"rb", "c"} => Top.fn = pc
    BY <1>2, Here DEF Position, At
<1>5. ASSUME NEW n \in DOMAIN nest, nest[n].by # "top"
      PROVE  n \in 2 .. Len(nest) /\ nest[n] \in Act /\ Waits(S, nest[n])
  <2>1. n # 1 /\ n \in 1 .. Len(nest)
      BY <1>2, <1>3, <1>5 DEF CStack
  <2>2. n \in 2 .. Len(nest)
      BY <1>3, <2>1
  <2>. QED BY <1>2, <1>3, <2>1, <2>2 DEF CStack
<1>6. \A n \in DOMAIN nest : nest[n].by # "top" =>
        LET e == nest[n]
        IN  /\ Caller(e) \in DOMAIN ci[e.cxt] /\ ci[e.cxt][Caller(e)].fn = "c"
            /\ e.by = "yield" => /\ e.depth + 1 \in DOMAIN ci[e.cxt]
                                 /\ ci[e.cxt][e.depth + 1].cci = "SKIP"
    BY <1>1, <1>5, CallerWaits
<1>7. \A x \in Context : \A i \in DOMAIN ci[x] : ci[x][i].cci = "SKIP" =>
        \E n \in DOMAIN nest : nest[n] = Activation("yield", x, i - 1, "NONE")
  <2>. SUFFICES ASSUME NEW x \in Context, NEW i \in DOMAIN ci[x], ci[x][i].cci = "SKIP"
                PROVE  \E n \in DOMAIN nest : nest[n] = Activation("yield", x, i - 1, "NONE")
      OBVIOUS
  <2>1. ci[x] \in Seq(Frame)
      BY <1>2 DEF Contexts
  <2>2. i \in 1 .. Len(ci[x])
      BY <2>1
  <2>3. PICK n \in 2 .. Len(nest) : nest[n] = Activation("yield", x, i - 1, "NONE")
      BY <1>2, <2>2, SkipHasAct
  <2>. QED BY <1>3, <2>3
<1>8. ASSUME NEW m \in DOMAIN nest, NEW n \in DOMAIN nest, m < n
      PROVE  nest[m].cxt # nest[n].cxt \/ nest[m].depth # nest[n].depth
  <2>1. n \in 2 .. Len(nest) /\ m \in 1 .. Len(nest)
      BY <1>3, <1>8
  <2>2. nest[n] \in Act /\ nest[m] \in Act /\ Waits(S, nest[n]) /\ nest[n].by # "top"
      BY <1>2, <1>3, <2>1 DEF CStack
  <2>3. CASE m = 1
    <3>1. nest[m].depth = 0
        BY <1>3, <2>1, <2>3 DEF Outermost, Activation
    <3>2. nest[n].depth > 0
        BY <1>1, <2>2, CallerWaits
    <3>. QED BY <3>1, <3>2
  <2>4. CASE m # 1
    <3>1. Before(pos, nest[m], nest[n])
        BY <1>2, <1>3, <1>8, <2>1, <2>4 DEF CStack
    <3>2. /\ nest[m].depth \in Nat /\ nest[n].depth \in Nat
          /\ pos[nest[m].cxt] \in Nat /\ pos[nest[n].cxt] \in Nat
        BY <1>1, <2>2 DEF Act
    <3>. QED BY <3>1, <3>2 DEF Before
  <2>. QED BY <2>3, <2>4
<1>9. \A m, n \in DOMAIN nest : m # n => <<nest[m].cxt, nest[m].depth>> # <<nest[n].cxt, nest[n].depth>>
  <2>. SUFFICES ASSUME NEW m \in DOMAIN nest, NEW n \in DOMAIN nest, m # n
                PROVE  nest[m].cxt # nest[n].cxt \/ nest[m].depth # nest[n].depth
      OBVIOUS
  <2>1. m < n \/ n < m
      BY <1>3
  <2>. QED BY <1>8, <2>1
<1>. QED BY <1>4, <1>6, <1>7, <1>9 DEF StacksInStep

\* The C stack and the call frames of all contexts stay in step through returns,
\* exceptions, breaks, yields and the ends of fibers.
THEOREM StacksMatch ==
    ASSUME Contained
    PROVE  FiberSpec => []StacksInStep
    BY Always, StacksFromInv, PTL

\* The invariant's chain is the one of FiberLinks.
LEMMA LinksFromInv == FInv => FiberLinks
<1>. SUFFICES ASSUME FInv PROVE FiberLinks
    OBVIOUS
<1>1. PICK S \in SUBSET Context, pos \in [Context -> Nat] : Story(S, pos)
    BY DEF FInv
<1>2. Contexts /\ Path(S, pos)
    BY <1>1, Here DEF Story
<1>3. Chain = S
    BY <1>2, ChainIsPath
<1>4. {x \in Context : status[x] = "RUNNING"} = {cur}
    BY <1>2 DEF Contexts
<1>5. \A x \in Chain \ {cur} : status[x] = "RESUMED"
    BY <1>2, <1>3 DEF Path
<1>6. \A x, y \in Chain : x # y /\ prev[x] # NULL => prev[x] # prev[y]
    BY <1>2, <1>3, OneResumed
<1>7. \A x \in Context : status[x] \in {"none", "TERMINATED"} <=> ci[x] = << >>
    BY <1>2 DEF Contexts
<1>. QED BY <1>4, <1>5, <1>6, <1>7 DEF FiberLinks

\* One context runs, those it goes back to wait for it and for no other, and only
\* a fiber that ended has no frames.
THEOREM LinksHold ==
    ASSUME Contained
    PROVE  FiberSpec => []FiberLinks
    BY Always, LinksFromInv, PTL

\* C code goes on in the context and at the frame where it called a block or
\* resumed a fiber.
THEOREM BackInPosition ==
    ASSUME Contained
    PROVE  FiberSpec => CiPosition
<1>. DEFINE A == Len(nest') < Len(nest) /\ pc' = "c" =>
                   LET e == Last(nest) IN cur' = e.cxt /\ Len(ci'[e.cxt]) = Caller(e)
<1>1. FInv /\ Outermost /\ [FiberNext]_fiberVars => [A]_fiberVars
    BY StepInv DEF Tidy
<1>2. (FiberSpec => [](FInv /\ Outermost)) /\ (FiberSpec => [][FiberNext]_fiberVars)
    BY Always, PTL DEF FiberSpec
<1>. QED BY <1>1, <1>2, PTL DEF CiPosition

\* No frame is left while an ensure clause of it is due.
THEOREM EnsuresRun ==
    ASSUME Contained
    PROVE  FiberSpec => EnsureRuns
<1>. DEFINE A == \A x \in Context : \A i \in DOMAIN ci[x] : i > Len(ci'[x]) => ci[x][i].handler # "ensure"
<1>1. FInv /\ Outermost /\ [FiberNext]_fiberVars => [A]_fiberVars
  <2>. SUFFICES ASSUME FInv, Outermost, [FiberNext]_fiberVars PROVE A
      OBVIOUS
  <2>1. \A x \in Context : Keeps(ci[x], ci'[x])
      BY StepInv DEF Tidy
  <2>2. \A x \in Context : DOMAIN ci[x] = 1 .. Len(ci[x])
    <3>1. \A x \in Context : ci[x] \in Seq(Frame)
        BY Here
    <3>. QED BY <3>1
  <2>. QED BY <2>1, <2>2 DEF Keeps
<1>2. (FiberSpec => [](FInv /\ Outermost)) /\ (FiberSpec => [][FiberNext]_fiberVars)
    BY Always, PTL DEF FiberSpec
<1>. QED BY <1>1, <1>2, PTL DEF EnsureRuns
=============================================================================
