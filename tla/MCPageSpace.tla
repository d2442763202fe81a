---------------------------- MODULE MCPageSpace ----------------------------
(* Instances of PageSpace for TLC. *)
EXTENDS PageSpace, TLC

Symmetric == Permutations(Page)
\* A plain class of two grains and a finalizing one of one grain.
TwoClasses == <<2, 1>>
\* Bound: objects at once.
Few == Cardinality(objs) <= 6
=============================================================================
