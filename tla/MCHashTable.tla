---------------------------- MODULE MCHashTable ----------------------------
(* HashTable with hash codes that collide and a table that starts near its *)
(* limits: as an AR, as an HT about to grow, and with given capacities.    *)
EXTENDS HashTable

CONSTANT FillSizes

MCHashOf == [k \in Key |-> IF k <= 4 THEN k % 2 ELSE k]
MCFills == {[n \in 1 .. m |-> n] : m \in FillSizes}
=============================================================================
