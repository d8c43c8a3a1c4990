---------------------------- MODULE MCTaskSched -----------------------------
(* Instances of TaskSched for TLC. *)
EXTENDS TaskSched, TLC

CONSTANTS t1, t2, t3

\* Task structures are interchangeable until one is created.
Symmetry == Permutations(Task)
=============================================================================
