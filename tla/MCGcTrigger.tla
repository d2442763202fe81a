---------------------------- MODULE MCGcTrigger ----------------------------
(* Instances of GcTrigger for TLC. *)
EXTENDS GcTrigger

\* Bound: bytes credited between two collections.
Small == credited <= MaxHeap /\ nextGC <= 3 * MaxHeap
=============================================================================
