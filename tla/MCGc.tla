------------------------------- MODULE MCGc -------------------------------
(* Instances of Gc for TLC. *)
EXTENDS Gc, TLC

Symmetric == Permutations(Obj)

\* One holder in use at a time, a temporary root counted as one, and none while
\* an object has two fields or more.
Small ==
  LET InUse == {h \in 1 .. 4 : <<intern \union fmt # {}, mega # <<>>, shape # NoObj,
                                 tempRoots # <<>>>>[h]}
  IN  Cardinality(InUse) <= IF \E o \in Obj : Cardinality(refs[o]) > 1 THEN 0 ELSE 1
=============================================================================
