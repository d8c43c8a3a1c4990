---------------------------- MODULE MCClassTree ----------------------------
(* Instances of ClassTree: a root class, a subclass, the singleton class   *)
(* of one of its instances, and modules.                                   *)
EXTENDS ClassTree, TLC

CONSTANTS O, Y, S, M, N

MCSuperOf == (O :> NULL) @@ (Y :> O) @@ (S :> Y)
=============================================================================
