------------------------------ MODULE MCGcHeap ------------------------------
(* Instances of GcHeap for TLC. *)
EXTENDS GcHeap, TLC

CONSTANTS o1, o2, o3, p1, p2

\* o1 and o2 share a page, o3 has one of its own.
MCPageOf == (o1 :> p1) @@ (o2 :> p1) @@ (o3 :> p2)
=============================================================================
