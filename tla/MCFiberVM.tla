----------------------------- MODULE MCFiberVM -----------------------------
(* FiberVM with two fibers beside the root context.                        *)
EXTENDS FiberVM

FiberSymmetry == Permutations(Fiber)
=============================================================================
