------------------------------- MODULE FiberVM -------------------------------
(***************************************************************************)
(* Control flow of the virtual machine across its three kinds of stack: the*)
(* call frames of every fiber (mrb_context.cibase..ci), the links from a   *)
(* fiber to the one that resumed it, and the C stack, on which mrb_vm_exec *)
(* runs again whenever a C function calls a block or resumes a fiber       *)
(* (src/vm.c, mruby-fiber/src/fiber.c).                                    *)
(*                                                                         *)
(* A return, an exception, a break, a yield and the end of a fiber each    *)
(* leave several of these stacks at once.  Which ones is decided by a few  *)
(* marks: cci of a frame, vmexec of a context and the jump buffer of the   *)
(* innermost mrb_vm_exec or mrb_protect_error.                             *)
(***************************************************************************)
EXTENDS Integers, Sequences, FiniteSetsExt, SequencesExt

CONSTANTS
    Root, Fiber,        \* the root context and the fibers
    NULL,
    MaxDepth,           \* bound: frames of one context
    MaxFrames,          \* bound: frames of all contexts
    MaxBegin,           \* bound: begin blocks and ensure clauses that run
    MaxNest,            \* bound: activations of mrb_vm_exec
    BreakInResumed,     \* programs that break out of a C function in a fiber that
                        \* C code resumed
    TransferInResumed   \* programs that transfer while mrb_fiber_resume() runs

ASSUME FiberAssumption ==
    /\ Root \notin Fiber /\ NULL \notin Fiber \cup {Root}
    /\ {MaxDepth, MaxFrames, MaxBegin} \subseteq Nat /\ MaxNest \in Nat \ {0}
    /\ {BreakInResumed, TransferInResumed} \subseteq BOOLEAN

VARIABLES
    cur,          \* mrb->c
    status,     \* status of every context; "none" for a fiber not made yet
    prev,       \* the context that resumed it
    vmexec,     \* resumed by fiber_switch() from C
    ci,         \* call frames of every context
    nest,       \* activations of mrb_vm_exec on the C stack, innermost last
    pc,         \* what runs: see Running
    brk         \* while a break unwinds, the frame it returns from; 0 for an exception

fiberVars == <<cur, status, prev, vmexec, ci, nest, pc, brk>>

Context == Fiber \cup {Root}

\* "rb": bytecode of the innermost activation; "c": a C function; "raise" and
\* "break": L_RAISE and the loop at L_UNWINDING; "catch": the MRB_CATCH of the
\* innermost activation; "done": the program ended.
Running == {"rb", "c", "raise", "break", "catch", "done"}

CINFO == {"NONE", "SKIP", "DIRECT", "RESUMED"}

\* A frame: what it runs, who pushed it, the handler that covers its pc, what
\* its ensure clause is to raise again at its end (-1: nothing, 0: an exception,
\* n: a break to frame n), the frame its block belongs to (0: it is a method,
\* -1: a frame of another context), and whether the C function has called
\* mrb_protect_error().
Frame == [fn : {"rb", "c"}, cci : CINFO, handler : {"none", "rescue", "ensure"},
          pend : Int, home : Int, protect : BOOLEAN]

RubyFrame(cci, home) == [fn |-> "rb", cci |-> cci, handler |-> "none", pend |-> -1,
                         home |-> home, protect |-> FALSE]
CFrame(cci, protect) == [fn |-> "c", cci |-> cci, handler |-> "none", pend |-> -1,
                         home |-> 0, protect |-> protect]

Depth == Len(ci[cur])
Top == ci[cur][Depth]

AllFrames == {s \in Context \X (1 .. MaxDepth + 1) : s[2] \in DOMAIN ci[s[1]]}
Room == Depth < MaxDepth /\ Cardinality(AllFrames) < MaxFrames
RoomToBegin == LET Inside(s) == ci[s[1]][s[2]].handler # "none" \/ ci[s[1]][s[2]].pend # -1
               IN  Quantify(AllFrames, Inside) < MaxBegin

-----------------------------------------------------------------------------
(* Frames.                                                                 *)

Push(f) == ci' = [ci EXCEPT ![cur] = Append(@, f)]
Pop == ci' = [ci EXCEPT ![cur] = Front(@)]
Exception == brk' = 0

\* The number of frames of stack s below those that mrb_funcall pushed last
BelowDirect(s) == Max({n \in 0 .. Len(s) : n <= 1 \/ s[n].cci # "DIRECT"})

\* An mrb_vm_exec that C code in context x calls when its frame is number d.
Activation(by, x, d, cci) == [by |-> by, cxt |-> x, depth |-> d, cci |-> cci]

-----------------------------------------------------------------------------
(* Ruby code.                                                              *)

InRuby == pc = "rb" /\ Top.fn = "rb"

\* OP_SEND of a method written in Ruby
SendRuby ==
    /\ InRuby /\ Room
    /\ Push(RubyFrame("NONE", 0))
    /\ UNCHANGED <<cur, status, prev, vmexec, nest, pc, brk>>

\* OP_BLKCALL: a method yields to the block its caller gave it.
BlkCall ==
    /\ InRuby /\ Top.home = 0 /\ Room /\ Depth > 1 /\ ci[cur][Depth - 1].fn = "rb"
    /\ Push(RubyFrame("NONE", Depth - 1))
    /\ UNCHANGED <<cur, status, prev, vmexec, nest, pc, brk>>

\* OP_SEND of a C function
SendC(protect) ==
    /\ InRuby /\ Room
    /\ Push(CFrame("NONE", protect)) /\ pc' = "c"
    /\ UNCHANGED <<cur, status, prev, vmexec, nest, brk>>

\* The code enters a begin block, with a rescue or with an ensure clause.
Begin(handler) ==
    /\ InRuby /\ Top.handler = "none" /\ Top.pend = -1 /\ RoomToBegin
    /\ ci' = [ci EXCEPT ![cur][Depth].handler = handler]
    /\ UNCHANGED <<cur, status, prev, vmexec, nest, pc, brk>>

\* The block ends without having raised; its ensure clause has nothing to raise.
EndBegin ==
    /\ InRuby /\ Top.handler # "none"
    /\ ci' = [ci EXCEPT ![cur][Depth].handler = "none"]
    /\ UNCHANGED <<cur, status, prev, vmexec, nest, pc, brk>>

\* The end of the ensure clause: OP_RAISEIF takes up what it interrupted.
RaiseIf ==
    /\ InRuby /\ Top.pend # -1
    /\ brk' = Top.pend /\ pc' = IF Top.pend = 0 THEN "raise" ELSE "break"
    /\ ci' = [ci EXCEPT ![cur][Depth].pend = -1]
    /\ UNCHANGED <<cur, status, prev, vmexec, nest>>

Raise ==
    /\ InRuby
    /\ pc' = "raise" /\ Exception
    /\ UNCHANGED <<cur, status, prev, vmexec, ci, nest>>

\* OP_RETURN: unwinds to the frame itself, so that its ensure clause runs.
Return ==
    /\ InRuby
    /\ pc' = "break" /\ brk' = Depth
    /\ UNCHANGED <<cur, status, prev, vmexec, ci, nest>>

\* Programs of the instance: may the code leave frames across a C function?
MayCross == BreakInResumed \/ ~vmexec[cur] \/ \A i \in DOMAIN ci[cur] : ci[cur][i].cci = "NONE"

\* A jump out of a block to frame d, which is a LocalJumpError when the frame
\* belongs to another context.
JumpTo(d) ==
    /\ InRuby /\ Top.home # 0 /\ MayCross
    /\ \/ d < 0 /\ pc' = "raise" /\ Exception
       \/ d > 0 /\ pc' = "break" /\ brk' = d
    /\ UNCHANGED <<cur, status, prev, vmexec, ci, nest>>

\* OP_BREAK: return from the frame above the block's home.  The code looks for the
\* nearest frame of the proc the block was written in, which is another one if that
\* method has called itself since; programs of the model do not recurse so.
Break == JumpTo(IF Top.home = -1 THEN -1 ELSE Top.home + 1)

\* The frame of the method in which the block of frame i is written
Method[i \in 0 .. Depth] ==
    IF i > 0 /\ ci[cur][i].home > 0 THEN Method[ci[cur][i].home]
    ELSE IF i > 0 /\ ci[cur][i].home = -1 THEN -1 ELSE i

\* OP_RETURN_BLK: return from that method.
ReturnBlk == JumpTo(Method[Depth])

-----------------------------------------------------------------------------
(* Leaving an activation.                                                  *)

\* mrb_vm_exec() returns to the C code that called it: fiber_switch() makes its
\* own context current again and restores its cci, and mrb_funcall pops the frame
\* it had pushed.  `stacks` and `at` are the frames and the context it left.
ReturnToC(stacks, at) ==
    LET e == Last(nest)
        kept == [stacks EXCEPT ![e.cxt][Len(stacks[e.cxt])].cci = e.cci]
    IN  /\ nest' = Front(nest)
        /\ \/ /\ e.by = "top"
              /\ pc' = "done" /\ cur' = at /\ ci' = stacks
           \/ /\ e.by = "yield"
              /\ pc' = "c" /\ cur' = at /\ ci' = stacks
           \/ /\ e.by = "resume"
              /\ pc' = "c" /\ cur' = e.cxt
              /\ ci' = IF e.cci = "DIRECT" THEN [kept EXCEPT ![e.cxt] = Front(@)] ELSE kept

\* MRB_THROW(prev_jmp): to mrb_protect_error() of the C function that called, or
\* to the next activation out.  A break goes on past mrb_protect_error(), because
\* mrb_ensure() and mrb_rescue_exceptions() raise again what is no exception.
\* mrb_protect() and the scheduler do not and take the break for a result:
\* programs of the model do not break through these.
Throw(stacks) ==
    LET e == Last(nest)
        own == e.depth - (IF e.cci = "DIRECT" THEN 1 ELSE 0)
        caught == brk = 0 /\ own \in DOMAIN stacks[e.cxt] /\ stacks[e.cxt][own].protect
        keep == IF cur' = e.cxt THEN own ELSE BelowDirect(stacks[cur'])
    IN  /\ nest' = Front(nest)
        /\ IF caught
           THEN pc' = "c" /\ ci' = [stacks EXCEPT ![cur'] = SubSeq(@, 1, keep)]
           ELSE pc' = "catch" /\ ci' = stacks

-----------------------------------------------------------------------------
(* Unwinding.                                                              *)

\* Mutant: a fiber that ends always ends in the root context.
EndsInRoot == Root

\* Where a fiber that ends goes: to the one that resumed it, or to the root
Resumer == IF prev[cur] = NULL THEN Root ELSE prev[cur]

fiber_terminate ==
    LET back == Resumer
    IN  /\ status' = [status EXCEPT ![cur] = "TERMINATED", ![back] = "RUNNING"]
        /\ prev' = [prev EXCEPT ![cur] = NULL]
        /\ cur' = back

Unhandled == pc = "raise" /\ Top.handler = "none"

\* L_RAISE finds a handler in the top frame.
Handle ==
    /\ pc = "raise" /\ Top.handler # "none"
    /\ ci' = [ci EXCEPT ![cur][Depth].handler = "none",
                        ![cur][Depth].pend = IF Top.handler = "ensure" THEN 0 ELSE -1]
    /\ pc' = "rb"
    /\ UNCHANGED <<cur, status, prev, vmexec, nest, brk>>

\* L_RAISE pops a frame; a frame that an mrb_vm_exec of its own runs ends that.
RaisePop ==
    /\ Unhandled /\ Depth > 1
    /\ UNCHANGED cur
    /\ IF Top.cci = "SKIP" THEN Throw([ci EXCEPT ![cur] = Front(@)])
       ELSE Pop /\ UNCHANGED <<nest, pc>>
    /\ UNCHANGED <<status, prev, vmexec, brk>>

\* Nothing is left of the root context.
RaiseAtRoot ==
    /\ Unhandled /\ Depth = 1 /\ cur = Root
    /\ ReturnToC(ci, cur)
    /\ UNCHANGED <<status, prev, vmexec, brk>>

\* The exception ends the fiber: it goes on in the resumer, in this activation,
\* or in the one that called fiber_switch().
RaiseEndsFiber ==
    /\ Unhandled /\ Depth = 1 /\ cur # Root
    /\ fiber_terminate
    /\ IF vmexec[cur] THEN Throw([ci EXCEPT ![cur] = << >>])
       ELSE ci' = [ci EXCEPT ![cur] = << >>] /\ UNCHANGED <<nest, pc>>
    /\ UNCHANGED <<vmexec, brk>>

\* Mutant: a frame of mrb_funcall is taken for the one that catches.
CatchKeepsDirect ==
    /\ pc = "catch"
    /\ pc' = IF Top.cci = "DIRECT" THEN "catch" ELSE IF brk = 0 THEN "raise" ELSE "break"
    /\ UNCHANGED <<cur, status, prev, vmexec, ci, nest, brk>>

\* MRB_CATCH of the innermost activation, then L_RAISE or L_BREAK.
Catch ==
    /\ pc = "catch"
    /\ ci' = [ci EXCEPT ![cur] = SubSeq(@, 1, BelowDirect(@))]
    /\ pc' = IF brk = 0 THEN "raise" ELSE "break"
    /\ UNCHANGED <<cur, status, prev, vmexec, nest, brk>>

\* UNWIND_ENSURE: the ensure clause of the top frame runs first.
BreakEnsure ==
    /\ pc = "break" /\ Top.handler = "ensure"
    /\ ci' = [ci EXCEPT ![cur][Depth].handler = "none", ![cur][Depth].pend = brk]
    /\ pc' = "rb" /\ Exception
    /\ UNCHANGED <<cur, status, prev, vmexec, nest>>

\* Mutant: the ensure clauses of the frames in between are forgotten.
PopsPastEnsure ==
    /\ pc = "break" /\ Depth > brk
    /\ UNCHANGED cur
    /\ IF Top.cci = "NONE" THEN Pop /\ UNCHANGED <<nest, pc, vmexec>>
       ELSE /\ vmexec' = [vmexec EXCEPT ![cur] = FALSE]
            /\ Throw([ci EXCEPT ![cur] = Front(@)])
    /\ UNCHANGED <<status, prev, brk>>

\* Mutant: the frame to return from is popped as well.
PopsTarget ==
    /\ pc = "break" /\ Top.handler # "ensure" /\ Depth >= brk /\ Depth > 1
    /\ UNCHANGED cur
    /\ IF Top.cci = "NONE" THEN Pop /\ UNCHANGED <<nest, pc, vmexec>>
       ELSE /\ vmexec' = [vmexec EXCEPT ![cur] = FALSE]
            /\ Throw([ci EXCEPT ![cur] = Front(@)])
    /\ UNCHANGED <<status, prev, brk>>

\* A frame above the one to return from is popped.
BreakPop ==
    /\ pc = "break" /\ Top.handler # "ensure" /\ Depth > brk
    /\ UNCHANGED cur
    /\ IF Top.cci = "NONE" THEN Pop /\ UNCHANGED <<nest, pc, vmexec>>
       ELSE /\ vmexec' = [vmexec EXCEPT ![cur] = FALSE]
            /\ Throw([ci EXCEPT ![cur] = Front(@)])
    /\ UNCHANGED <<status, prev, brk>>

Returning == pc = "break" /\ Top.handler # "ensure" /\ Depth = brk

\* The frame itself returns.  The branch for a frame without keep_context is
\* left out: a switch clears that of the frame on top of the context it goes to,
\* which is popped as soon as the C function that switched returns.
ReturnFrame ==
    /\ Returning /\ Depth > 1
    /\ Exception /\ UNCHANGED <<status, prev, vmexec>>
    /\ IF Top.cci \in {"SKIP", "DIRECT"} THEN ReturnToC([ci EXCEPT ![cur] = Front(@)], cur)
       ELSE Pop /\ pc' = "rb" /\ UNCHANGED <<cur, nest>>

\* The program ends, or an activation the root context was switched to.
ReturnFromRoot ==
    /\ Returning /\ Depth = 1 /\ cur = Root
    /\ Exception /\ ReturnToC(ci, cur)
    /\ UNCHANGED <<status, prev, vmexec>>

\* The body of a fiber returns.  The value goes to the C code that resumed it,
\* or to the resume (or transfer) frame on top of the context it ends in.
ReturnFromFiber ==
    LET back == Resumer
        dead == [ci EXCEPT ![cur] = << >>]
        popped == [dead EXCEPT ![back] = Front(@)]
    IN  /\ Returning /\ Depth = 1 /\ cur # Root
        /\ Exception
        /\ status' = [status EXCEPT ![cur] = "TERMINATED", ![back] = "RUNNING"]
        /\ prev' = [prev EXCEPT ![cur] = NULL]
        /\ vmexec' = [vmexec EXCEPT ![cur] = FALSE]
        /\ IF vmexec[cur] \/ (back = Root /\ Len(ci[Root]) = 1) THEN ReturnToC(dead, back)
           ELSE IF Last(ci[back]).cci \in {"SKIP", "DIRECT"} THEN ReturnToC(popped, back)
           ELSE cur' = back /\ ci' = popped /\ pc' = "rb" /\ UNCHANGED nest

-----------------------------------------------------------------------------
(* C functions.                                                            *)

InC == pc = "c" /\ Top.fn = "c"

\* mrb_yield(): the block that was given to the C function
mrb_yield ==
    /\ InC /\ Room /\ Len(nest) < MaxNest
    /\ Push(RubyFrame("SKIP", Depth - 1))
    /\ nest' = Append(nest, Activation("yield", cur, Depth, "NONE"))
    /\ pc' = "rb"
    /\ UNCHANGED <<cur, status, prev, vmexec, brk>>

\* The C function returns; the epilogue of OP_SEND pops its frame.
ReturnFromC ==
    /\ InC
    /\ Pop /\ pc' = "rb"
    /\ UNCHANGED <<cur, status, prev, vmexec, nest, brk>>

\* mrb_raise() jumps to the innermost activation.
RaiseInC ==
    /\ InC
    /\ pc' = "catch" /\ Exception
    /\ UNCHANGED <<cur, status, prev, vmexec, ci, nest>>

-----------------------------------------------------------------------------
(* Fibers.                                                                 *)

\* init_fiber(): the body and a dummy frame above it
fiber_init(f) ==
    /\ InRuby /\ status[f] = "none" /\ Cardinality(AllFrames) < MaxFrames
    /\ status' = [status EXCEPT ![f] = "CREATED"]
    /\ ci' = [ci EXCEPT ![f] = <<RubyFrame("NONE", -1), CFrame("NONE", FALSE)>>]
    /\ UNCHANGED <<cur, prev, vmexec, nest, pc, brk>>

Crosses(x) == \E i \in DOMAIN ci[x] : ci[x][i].cci # "NONE"

\* fiber_switch() raises: to resume or to transfer to this fiber is an error
Refused(f, resume) ==
    \/ f = cur \/ Crosses(f)
    \/ status[f] \in {"RUNNING", "RESUMED", "TERMINATED"}
    \/ resume /\ status[f] = "TRANSFERRED"

\* The method is called from bytecode, its frame is pushed, and it raises.
CallRaises == Push(CFrame("NONE", FALSE)) /\ pc' = "catch" /\ Exception
              /\ UNCHANGED <<cur, status, prev, vmexec, nest>>

\* Fiber#resume from bytecode: the frame of the call stays on top of the caller,
\* and the epilogue pops the frame on top of the fiber.
fiber_resume(f) ==
    /\ InRuby /\ Room /\ status[f] # "none"
    /\ \/ Refused(f, TRUE) /\ CallRaises
       \/ /\ ~Refused(f, TRUE)
          /\ status' = [status EXCEPT ![cur] = "RESUMED", ![f] = "RUNNING"]
          /\ prev' = [prev EXCEPT ![f] = cur]
          /\ cur' = f
          /\ ci' = [ci EXCEPT ![cur] = Append(@, CFrame("NONE", FALSE)), ![f] = Front(@)]
          /\ UNCHANGED <<vmexec, nest, pc, brk>>

\* Resume from a C function, by mrb_funcall of Fiber#resume (a frame with
\* CINFO_DIRECT) or by mrb_fiber_resume() (no frame).
ResumeFromC(f, funcall) ==
    LET pushed == IF funcall THEN Append(ci[cur], CFrame("DIRECT", FALSE)) ELSE ci[cur]
    IN  /\ InC /\ Room /\ Len(nest) < MaxNest /\ status[f] # "none"
        /\ \/ /\ Refused(f, TRUE) /\ Exception
              /\ IF Top.protect THEN UNCHANGED <<ci, pc>>
                 ELSE ci' = [ci EXCEPT ![cur] = pushed] /\ pc' = "catch"
              /\ UNCHANGED <<cur, status, prev, vmexec, nest>>
           \/ /\ ~Refused(f, TRUE)
              /\ status' = [status EXCEPT ![cur] = "RESUMED", ![f] = "RUNNING"]
              /\ prev' = [prev EXCEPT ![f] = cur]
              /\ vmexec' = [vmexec EXCEPT ![f] = TRUE]
              /\ cur' = f
              /\ ci' = [ci EXCEPT ![cur] = pushed, ![f] = Front(@)]
              /\ nest' = Append(nest, Activation("resume", cur, Len(pushed), Last(pushed).cci))
              /\ pc' = "rb"
              /\ UNCHANGED brk

\* Fiber.yield is legal: somebody resumed the fiber, and no C function waits in it
MayYield == /\ cur # Root /\ prev[cur] # NULL /\ ~Crosses(cur)
            /\ prev[cur] # NULL => status[prev[cur]] # "TRANSFERRED"

\* Mutant: a fiber may be left although a C function of its own waits.
YieldCrosses ==
    /\ InRuby /\ Room /\ prev[cur] # NULL
    /\ status' = [status EXCEPT ![cur] = "SUSPENDED", ![prev[cur]] = "RUNNING"]
    /\ prev' = [prev EXCEPT ![cur] = NULL]
    /\ vmexec' = [vmexec EXCEPT ![cur] = FALSE]
    /\ LET left == [ci EXCEPT ![cur] = Append(@, CFrame("NONE", FALSE))]
       IN  IF vmexec[cur] THEN ReturnToC(left, prev[cur])
           ELSE /\ cur' = prev[cur] /\ ci' = [left EXCEPT ![prev[cur]] = Front(@)]
                /\ UNCHANGED <<nest, pc>>
    /\ UNCHANGED brk

\* Fiber.yield.  The frame it was resumed by is popped by the epilogue, which
\* then goes on with bytecode, unless it is marked CINFO_RESUMED: then the
\* activation returns to fiber_switch().
mrb_fiber_yield ==
    LET back == prev[cur]
        left == [ci EXCEPT ![cur] = Append(@, CFrame("NONE", FALSE))]
    IN  /\ InRuby /\ Room
        /\ \/ ~MayYield /\ CallRaises
           \/ /\ MayYield
              /\ status' = [status EXCEPT ![cur] = "SUSPENDED", ![back] = "RUNNING"]
              /\ prev' = [prev EXCEPT ![cur] = NULL]
              /\ vmexec' = [vmexec EXCEPT ![cur] = FALSE]
              /\ IF vmexec[cur] THEN ReturnToC(left, back)
                 ELSE cur' = back /\ ci' = [left EXCEPT ![back] = Front(@)] /\ UNCHANGED <<nest, pc>>
              /\ UNCHANGED brk

\* Mutant: a transfer leaves the link to the fiber that resumed the target.
TransferKeepsPrev(f) ==
    LET left == [ci EXCEPT ![cur] = Append(@, CFrame("NONE", FALSE))]
    IN  /\ InRuby /\ Room /\ f # cur /\ status[f] \in {"SUSPENDED", "CREATED", "TRANSFERRED"}
        /\ ~Crosses(f) /\ ~Crosses(cur)
        /\ status' = [status EXCEPT ![cur] = "TRANSFERRED", ![f] = "RUNNING"]
        /\ cur' = f /\ ci' = [left EXCEPT ![f] = Front(@)]
        /\ UNCHANGED <<prev, vmexec, nest, pc, brk>>

\* fiber_check_cfunc_recursive(): the running context and those its links lead to
Linked(S) == cur \in S /\ \A x \in S : prev[x] # NULL => prev[x] \in S
Chain == {x \in Context : \A S \in SUBSET Context : Linked(S) => x \in S}

\* Fiber#transfer
fiber_transfer(f) ==
    LET left == [ci EXCEPT ![cur] = Append(@, CFrame("NONE", FALSE))]
        ToRoot == /\ status' = [status EXCEPT ![cur] = "TRANSFERRED", ![Root] = "RUNNING"]
                  /\ UNCHANGED prev
        ToFiber == /\ status' = [status EXCEPT ![cur] = "TRANSFERRED", ![f] = "RUNNING"]
                   /\ prev' = [prev EXCEPT ![f] = NULL]
    IN  /\ InRuby /\ Room /\ status[f] # "none"
        /\ TransferInResumed \/ \A n \in DOMAIN nest : nest[n].by = "resume" => nest[n].cci = "DIRECT"
        /\ \/ /\ \/ \E x \in Chain : Crosses(x)
                 \/ status[f] = "RESUMED"
                 \/ f # Root /\ f # cur /\ Refused(f, FALSE)
              /\ CallRaises
           \/ /\ \A x \in Chain : ~Crosses(x)
              /\ status[f] # "RESUMED"
              /\ f # Root => f = cur \/ ~Refused(f, FALSE)
              /\ IF f = Root THEN ToRoot
                 ELSE IF f = cur THEN UNCHANGED <<status, prev>>
                 ELSE ToFiber
              /\ cur' = f
              /\ ci' = [left EXCEPT ![f] = Front(@)]
              /\ UNCHANGED <<vmexec, nest, pc, brk>>

-----------------------------------------------------------------------------

FiberInit ==
    /\ cur = Root
    /\ status = [x \in Context |-> IF x = Root THEN "RUNNING" ELSE "none"]
    /\ prev = [x \in Context |-> NULL]
    /\ vmexec = [x \in Context |-> FALSE]
    /\ ci = [x \in Context |-> IF x = Root THEN <<RubyFrame("NONE", 0)>> ELSE << >>]
    /\ nest = <<Activation("top", Root, 0, "NONE")>>
    /\ pc = "rb"
    /\ brk = 0

Ended == pc = "done" /\ UNCHANGED fiberVars

FiberNext ==
    \/ SendRuby \/ BlkCall \/ EndBegin \/ RaiseIf \/ Raise \/ Return \/ Break \/ ReturnBlk
    \/ \E p \in BOOLEAN : SendC(p)
    \/ \E h \in {"rescue", "ensure"} : Begin(h)
    \/ Handle \/ RaisePop \/ RaiseAtRoot \/ RaiseEndsFiber \/ Catch
    \/ BreakEnsure \/ BreakPop \/ ReturnFrame \/ ReturnFromRoot \/ ReturnFromFiber
    \/ mrb_yield \/ ReturnFromC \/ RaiseInC
    \/ \E f \in Fiber : \/ fiber_init(f) \/ fiber_resume(f)
                        \/ \E funcall \in BOOLEAN : ResumeFromC(f, funcall)
    \/ \E f \in Context : fiber_transfer(f)
    \/ mrb_fiber_yield
    \/ Ended

\* A sequential program: what can go on goes on.
FiberSpec == FiberInit /\ [][FiberNext]_fiberVars /\ WF_fiberVars(FiberNext)

-----------------------------------------------------------------------------
(* Properties.                                                             *)

\* The contexts, their frames (mrb_callinfo) and the VM's position have their types,
\* and a break in flight has a frame of the running context as its target.
FiberTypeOK ==
    /\ cur \in Context
    /\ status \in [Context -> {"none", "CREATED", "RUNNING", "RESUMED", "SUSPENDED",
                              "TRANSFERRED", "TERMINATED"}]
    /\ prev \in [Context -> Context \cup {NULL}]
    /\ vmexec \in [Context -> BOOLEAN]
    /\ \A x \in Context : \A i \in DOMAIN ci[x] : ci[x][i] \in Frame
    /\ pc \in Running /\ brk \in Nat
    /\ pc = "break" => brk \in 1 .. Depth

\* The frame of the C function an activation returns to.
Caller(e) == e.depth - (IF e.cci = "DIRECT" THEN 1 ELSE 0)

\* The C stack and the call frames tell the same story: bytecode runs on top of
\* a frame with bytecode and C code on top of its own frame, every C function
\* that waits for an mrb_vm_exec still has its frame, with the frame it pushed
\* above, every frame that claims to have an mrb_vm_exec of its own has one, and
\* no two activations were called from one frame.
StacksInStep ==
    /\ pc \in {"rb", "c"} => Top.fn = pc
    /\ \A n \in DOMAIN nest : nest[n].by # "top" =>
         LET e == nest[n]
         IN  /\ Caller(e) \in DOMAIN ci[e.cxt] /\ ci[e.cxt][Caller(e)].fn = "c"
             /\ e.by = "yield" => /\ e.depth + 1 \in DOMAIN ci[e.cxt]
                                  /\ ci[e.cxt][e.depth + 1].cci = "SKIP"
    /\ \A x \in Context : \A i \in DOMAIN ci[x] : ci[x][i].cci = "SKIP" =>
         \E n \in DOMAIN nest : nest[n] = Activation("yield", x, i - 1, "NONE")
    /\ \A m, n \in DOMAIN nest : m # n => <<nest[m].cxt, nest[m].depth>> # <<nest[n].cxt, nest[n].depth>>

\* One context runs, those it goes back to when it yields or ends wait for it
\* and for no other, and a fiber that ended has no frames.
FiberLinks ==
    /\ {x \in Context : status[x] = "RUNNING"} = {cur}
    /\ \A x \in Chain \ {cur} : status[x] = "RESUMED"
    /\ \A x, y \in Chain : x # y /\ prev[x] # NULL => prev[x] # prev[y]
    /\ \A x \in Context : status[x] \in {"none", "TERMINATED"} <=> ci[x] = << >>

\* C code that called a block or resumed a fiber goes on in the context and at
\* the call frame where it was: the check that fibertest.c makes after every
\* mrb_fiber_resume() and mrb_vm_run() asserts at its end.
CiPosition ==
    [][Len(nest') < Len(nest) /\ pc' = "c" =>
         LET e == Last(nest) IN cur' = e.cxt /\ Len(ci'[e.cxt]) = Caller(e)]_fiberVars

\* No frame is left while an ensure clause of it is due, whichever way it is left.
EnsureRuns ==
    [][\A x \in Context : \A i \in DOMAIN ci[x] :
         i > Len(ci'[x]) => ci[x][i].handler # "ensure"]_fiberVars

\* An exception or a break comes to an end: in a handler, in C code, in the frame
\* it returns to, or with the program.
UnwindingEnds == pc \in {"raise", "break", "catch"} ~> pc \in {"rb", "c", "done"}
=============================================================================
