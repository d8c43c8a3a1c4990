---------------------------- MODULE MCClosureEnv ----------------------------
(* Instances of ClosureEnv.  The program's own frame calls blocks only while *)
(* they run to the end; the fiber or task has room for a method and a load.  *)
EXTENDS ClosureEnv, TLC

\* The envs, blocks and containers lie on a page that is swept before or after
\* that of the fiber.
TwoPages == {{F}, Cell \ {F}}
OneOf(X) == IF X = {} THEN {} ELSE {CHOOSE x \in X : TRUE}
Depths == Root :> 1 @@ Fib :> 3
=============================================================================
