------------------------------ MODULE MCTable ------------------------------
(* Instances of Table and TableIter for TLC: three keys in arrays of four    *)
(* and eight slots, two of them hashed to the last slot and one to the       *)
(* first, where the second of the others ends up.                            *)
EXTENDS TableIter

Hashes == [k \in Key |-> CASE k = "a" -> 7 [] k = "b" -> 15 [] OTHER -> 0]
AFewOthers == {<<<<"c", 1>>, <<"b", 0>>>>, <<<<"b", 1>>, <<"c", 1>>, <<"a", 1>>>>}
SomeWhites == {{"b"}, {"a", "c"}}

\* What a table does next never depends on its version counters, and a
\* traversal whose table has changed can only raise or be dropped.
Situation ==
  <<[table EXCEPT !.version = 0, !.keyVersion = 0],
    IF ~iter.on THEN <<"none">> ELSE IF Changed THEN <<"late">>
    ELSE <<iter.index, iter.came, iter.over>> >>

\* A traversal never looks at values: those of one value are enough.
OneValue == \A i \in DOMAIN iter.over : iter.over[i][2] = 0
=============================================================================
