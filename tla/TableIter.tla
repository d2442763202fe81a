----------------------------- MODULE TableIter -----------------------------
(***************************************************************************)
(* A traversal of a dict or a set (src/src/vm/object/object_iter.c) while   *)
(* the program goes on writing to the table.                                *)
(*                                                                          *)
(* The iterator holds a position in `order` and the version it started     *)
(* with; every step that meets another version raises.                     *)
(***************************************************************************)
EXTENDS Table

VARIABLE iter   \* ObjIter: [on, index, limit, version], and three history fields:
                \* came, the pairs it produced, over, those it set out for, and
                \* writes, how far `version` has been counted up since

vars == <<table, iter>>

NoIter == [on |-> FALSE, index |-> 0, limit |-> 0, version |-> 0,
           came |-> <<>>, over |-> <<>>, writes |-> 0]

IterInit == Init /\ iter = NoIter

\* jaiIterNew on a dict or a set.
IterNew ==
  /\ ~iter.on
  /\ iter' = [on |-> TRUE, index |-> 0, limit |-> table.count,
              version |-> table.version, came |-> <<>>, over |-> Listing(table), writes |-> 0]
  /\ UNCHANGED table

\* (slip: only a change of size is noticed)
ChangedSize == table.count # iter.limit
\* iterStep's test of the table it traverses.
Changed == table.version # iter.version

\* The positions of `order` jaiTableNext has still to look at.
Ahead == {i \in DOMAIN table.order : i > iter.index /\ table.order[i] >= 0}

\* iterStep with an entry to produce ...
IterStep ==
  /\ iter.on /\ ~Changed
  /\ table.count > 0 /\ Ahead # {}
  /\ iter' = [iter EXCEPT !.index = Min(Ahead),
                          !.came = Append(@, Pair(table, table.order[Min(Ahead)]))]
  /\ UNCHANGED table

\* ... with none left ...
IterEnd ==
  /\ iter.on /\ ~Changed
  /\ table.count = 0 \/ Ahead = {}
  /\ iter' = NoIter
  /\ UNCHANGED table

\* ... or raising: the table changed under it.
IterMutated ==
  /\ iter.on /\ Changed
  /\ iter' = NoIter
  /\ UNCHANGED table

\* The loop is left early.
IterDropped ==
  /\ iter.on
  /\ iter' = NoIter
  /\ UNCHANGED table

\* The body of the loop, or anything else, writes to the table.
Advance == (table'.version - table.version) % VersionMod
Write ==
  /\ Next
  /\ iter' = IF iter.on THEN [iter EXCEPT !.writes = @ + Advance] ELSE iter

IterNext == Write \/ IterNew \/ IterStep \/ IterEnd \/ IterMutated \/ IterDropped

IterSpec == IterInit /\ [][IterNext]_vars

-----------------------------------------------------------------------------
\* A traversal that ends without raising has produced every pair that was
\* there when it began, in order, once; unless its body made so many writes
\* that the version came round to where it was.
TraversalExact == [][IterEnd /\ iter.writes < VersionMod => iter.came = iter.over]_vars
=============================================================================
