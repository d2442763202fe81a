------------------------------- MODULE Picks -------------------------------
(* Part of a sequence: its elements at the positions of S, in order.        *)
EXTENDS Naturals, Sequences, FiniteSets

\* The n-th of the numbers of S, counted from the least.
Nth(S, n) == CHOOSE i \in S : Cardinality({j \in S : j <= i}) = n

Picked(s, S) == [n \in 1 .. Cardinality(S) |-> s[Nth(S, n)]]
=============================================================================
