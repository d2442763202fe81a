------------------------------ MODULE HeapAbs ------------------------------
(***************************************************************************)
(* What the collector of src/src/vm/gc.c promises to everything above it.   *)
(*                                                                          *)
(* A heap is a set of allocated objects, the strong references between      *)
(* them and the objects the running program holds.  A program step changes  *)
(* references between allocated objects at will; memory enters the heap     *)
(* only through Allocate, which never hands out a block that is still       *)
(* allocated, and leaves it only through Reclaim, which takes nothing the   *)
(* program can still reach.  Marking, epochs, pages and sweeping do not     *)
(* appear.                                                                  *)
(***************************************************************************)
CONSTANT Obj

VARIABLES allocated,  \* the blocks that are objects now
          refs,       \* [Obj -> SUBSET Obj]: the strong references an object holds
          held        \* what the program holds: VM roots, native roots, C locals

absVars == <<allocated, refs, held>>

\* S is closed under references and contains every object of H.
ClosedFrom(S, H, r) == H \subseteq S /\ \A o \in S : r[o] \subseteq S

\* The least closed set: what can be reached from H.
ReachFrom(H, r) == {o \in Obj : \A S \in SUBSET Obj : ClosedFrom(S, H, r) => o \in S}

Init == /\ allocated = {}
        /\ refs = [o \in Obj |-> {}]
        /\ held = {}

\* The program runs: it may read and write references and drop or take up
\* objects, but never touches a block that is not an object.
Program == /\ held' \in SUBSET allocated
           /\ refs' \in [Obj -> SUBSET allocated]
           /\ \A o \in Obj \ allocated : refs'[o] = {}
           /\ UNCHANGED allocated

Allocate(o) == /\ o \notin allocated
               /\ allocated' = allocated \union {o}
               /\ held' \in SUBSET allocated'
               /\ refs' \in [Obj -> SUBSET allocated']
               /\ \A x \in Obj \ {o} : refs'[x] = refs[x]

\* A block leaves the heap with its references; a survivor keeps its own,
\* except that a corpse may go on naming a block that went before it.
Reclaim(S) == /\ S \subseteq allocated
              /\ S \intersect ReachFrom(held, refs) = {}
              /\ allocated' = allocated \ S
              /\ refs' = [o \in Obj |-> IF o \in S THEN {} ELSE refs[o]]
              /\ UNCHANGED held

Next == \/ Program
        \/ \E o \in Obj : Allocate(o)
        \/ \E S \in SUBSET Obj : Reclaim(S)

Spec == Init /\ [][Next]_absVars
=============================================================================
