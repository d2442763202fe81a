------------------------------- MODULE Meaning ------------------------------
(* What a program means, by the language's own rules and without bytecode: the *)
(* statements of Emit evaluated directly.  `finally` runs on every way out of  *)
(* its try; a `defer` block runs when the function that registered it is left, *)
(* the newest first, and a failure in one replaces what it left with.          *)
(*                                                                             *)
(* The result of a statement is [seen, out, defers]: what was seen, how it     *)
(* ended, the defers it registered.  out is <<"normal">>, <<"throw", c>>,      *)
(* <<"return", value>>, <<"break", l>> or <<"continue", l>>.                   *)
EXTENDS Integers, Sequences

Normal == <<"normal">>
Res(seen, out) == [seen |-> seen, out |-> out, defers |-> <<>>]
Then(r, s) == [seen |-> r.seen \o s.seen, out |-> s.out, defers |-> r.defers \o s.defers]

RECURSIVE Does(_, _), DoesAll(_, _), Loops(_, _, _), Leaves(_, _, _), Result(_, _)

DoesAll(body, p) ==
    IF body = <<>> THEN Res(<<>>, Normal)
    ELSE LET r == Does(Head(body), p)
         IN  IF r.out = Normal THEN Then(r, DoesAll(Tail(body), p)) ELSE r

(* The defers run, newest first, over what the function was left with. *)
Leaves(r, defers, p) ==
    IF defers = <<>> THEN r
    ELSE LET d == Result(defers[Len(defers)], p)
             failed == d.out[1] = "throw"
         IN  Leaves([r EXCEPT !.seen = @ \o d.seen, !.out = IF failed THEN d.out ELSE @],
                    SubSeq(defers, 1, Len(defers) - 1), p)

(* A function's own result: <<"return", value>> or <<"throw", c>>. *)
Result(body, p) ==
    LET r == DoesAll(body, p)
        left == Leaves(r, r.defers, p)
    IN  Res(left.seen, IF left.out = Normal THEN <<"return", <<"null">>>> ELSE left.out)

Loops(body, n, p) ==
    IF n = 0 THEN Res(<<>>, Normal)
    ELSE LET r == DoesAll(body, p)
         IN  CASE r.out \in {Normal, <<"continue", 0>>} -> Then(r, Loops(body, n - 1, p))
               [] r.out = <<"break", 0>> -> [r EXCEPT !.out = Normal]
               [] r.out[1] \in {"break", "continue"} -> [r EXCEPT !.out[2] = @ - 1]
               [] OTHER -> r

(* The catch that takes class c, or 0. *)
CatchFor(catches, c) ==
    LET fits == {i \in 1..Len(catches) : catches[i][1] \in {"any", c}}
    IN  IF fits = {} THEN 0 ELSE CHOOSE i \in fits : \A j \in fits : i <= j

Tries(body, catches, fin, p) ==
    LET r == DoesAll(body, p)
        i == IF r.out[1] = "throw" THEN CatchFor(catches, r.out[2]) ELSE 0
        caught == IF i = 0 THEN r ELSE Then(r, DoesAll(catches[i][2], p))
        last == DoesAll(fin, p)
    IN  IF last.out = Normal THEN [Then(caught, last) EXCEPT !.out = caught.out]
                             ELSE Then(caught, last)

Does(s, p) ==
    CASE s[1] = "mark" -> Res(<<s>>, Normal)
      [] s[1] \in {"call", "native"} ->
           LET r == Result(p[s[2]], p)
           IN  IF r.out[1] = "throw" THEN r ELSE Res(Append(r.seen, r.out[2]), Normal)
      [] s[1] = "throw"      -> Res(<<>>, s)
      [] s[1] = "leave"      -> Res(<<>>, <<"return", <<"null">>>>)
      [] s[1] = "return"     -> Res(<<>>, <<"return", <<"val", s[2]>>>>)
      [] s[1] = "returncall" -> Result(p[s[2]], p)
      [] s[1] = "for"        -> Loops(s[2], 2, p)
      [] s[1] \in {"break", "continue"} -> Res(<<>>, s)
      [] s[1] = "try"        -> Tries(s[2], s[3], s[4], p)
      [] s[1] = "defer"      -> [Res(<<>>, Normal) EXCEPT !.defers = <<s[2]>>]

(* Everything a program is seen to do, and how it ends. *)
Expected(p) ==
    LET r == Result(p.main, p)
    IN  Append(r.seen, IF r.out[1] = "throw" THEN <<"exc", r.out[2]>> ELSE <<"end">>)
=============================================================================
