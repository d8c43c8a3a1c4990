---------------------------- MODULE ManagedHeap -----------------------------
(***************************************************************************)
(* What a garbage-collected heap promises the program: slots are handed    *)
(* out, references move among reachable objects, and only what the program *)
(* can no longer reach is taken back.  gc.c is shown to implement this.    *)
(***************************************************************************)
CONSTANT Obj
VARIABLES alloc,  \* slots in use
          ref,    \* object -> objects it refers to
          roots   \* objects the program holds directly

heapVars == <<alloc, ref, roots>>

\* The reachable objects: the least set that holds the roots and is closed
\* under the references.
Closed(S) == roots \subseteq S /\ \A o \in S : ref[o] \subseteq S
Live == {o \in Obj : \A S \in SUBSET Obj : Closed(S) => o \in S}

Init == alloc = {} /\ ref = [o \in Obj |-> {}] /\ roots = {}

Allocate ==
    \E n \in Obj \ alloc :
        /\ alloc' = alloc \cup {n}
        /\ ref' = [ref EXCEPT ![n] = {}]
        /\ roots' = roots \cup {n}

\* The program works on what it can reach and finds nothing else.
Mutate ==
    /\ roots' \subseteq Live
    /\ ref' \in [Obj -> SUBSET Obj]
    /\ \A o \in Obj : ref'[o] \subseteq ref[o] \cup Live
    /\ alloc' = alloc

Reclaim ==
    \E G \in SUBSET (alloc \ Live) :
        /\ alloc' = alloc \ G
        /\ ref' = [o \in Obj |-> IF o \in G THEN {} ELSE ref[o]]
        /\ roots' = roots

Next == Allocate \/ Mutate \/ Reclaim
Spec == Init /\ [][Next]_heapVars

\* No object the program can reach has been taken back.
LiveAllocated == Live \subseteq alloc
=============================================================================
