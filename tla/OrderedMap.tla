----------------------------- MODULE OrderedMap -----------------------------
(***************************************************************************)
(* What src/src/vm/table.h promises to dicts, sets, modules and classes: a  *)
(* map that remembers the order its keys were first set in.                 *)
(*                                                                          *)
(* The map is a sequence of <<key, value>> pairs with distinct keys.        *)
(* Setting a key the map has leaves the key where it is; setting a new key  *)
(* puts it last; a deleted key that is set again goes to the end.           *)
(***************************************************************************)
EXTENDS Naturals, Sequences, Picks

CONSTANTS
  Key, Value,
  Others     \* the maps AddAll is given, as sequences of pairs
VARIABLE map

KeysOf(m)   == {m[i][1] : i \in DOMAIN m}
IndexOf(m, k) == CHOOSE i \in DOMAIN m : m[i][1] = k
With(m, k, v) ==
  IF k \in KeysOf(m) THEN [m EXCEPT ![IndexOf(m, k)] = <<k, v>>]
                     ELSE Append(m, <<k, v>>)
Without(m, S) == Picked(m, {i \in DOMAIN m : m[i][1] \notin S})
\* m after each number of the pairs.
Merges(m, pairs) ==
  LET merged[n \in 0 .. Len(pairs)] ==
        IF n = 0 THEN m ELSE With(merged[n - 1], pairs[n][1], pairs[n][2])
  IN merged
Merged(m, pairs) == Merges(m, pairs)[Len(pairs)]

Init == map = <<>>

Set(k, v)     == map' = With(map, k, v)
Delete(S)     == map' = Without(map, S)
AddAll(pairs) == map' = Merged(map, pairs)

Next ==
  \/ \E k \in Key, v \in Value : Set(k, v)
  \/ \E S \in SUBSET Key : Delete(S)
  \/ \E p \in Others : AddAll(p)

Spec == Init /\ [][Next]_map
=============================================================================
