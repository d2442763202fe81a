------------------------------ MODULE MCStrBuf ------------------------------
(* Instances of StrBuf for TLC: the empty string and two one-byte strings.   *)
EXTENDS StrBuf, TLC

Bytes(x) == [i \in Pos |-> x]
Pieces == {[n |-> 0, bytes |-> Bytes(CHOOSE x \in Byte : TRUE)]} \union {[n |-> 1, bytes |-> Bytes(x)] : x \in Byte}
Symmetric == Permutations(Str) \union Permutations(Buf)
=============================================================================
