----------------------------- MODULE MCImport -----------------------------
(* Instances of Import for TLC: a program of two modules and the prelude, the *)
(* compiler of two modules and one of the prompt's beside it, and two modules *)
(* of the library that both use.                                              *)
EXTENDS Import

Imported == [m \in Module |->
  CASE m = "main" -> {"u", "str", "json", "ast"}
    [] m = "u" -> {"main", "repl"}
    [] m = "json" -> {"str"}
    [] m = "compile" -> {"ast", "json"}
    [] m = "ast" -> {"str"}
    [] m = "repl" -> {"ast"}
    [] OTHER -> {}]
=============================================================================
