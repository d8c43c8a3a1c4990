--------------------------- MODULE MCSharedArray ---------------------------
(* Instances of SharedArray; array objects are interchangeable.            *)
EXTENDS SharedArray, TLC

Symmetry == Permutations(Arr)
=============================================================================
