------------------------------ MODULE Untiered ------------------------------
(* Small programs and what the interpreter alone makes of them: the reference  *)
(* Tier is held against.                                                       *)
(*                                                                             *)
(* A body is a sequence of operations on one value, `acc`: the argument when   *)
(* the body starts, the result when it returns.  A value has a kind -- an int  *)
(* or an instance of class A or B -- and a number the recursive bodies count   *)
(* down.  One heap cell stands for everything a body can write.                *)
EXTENDS Naturals, Sequences

Classes == {"A", "B"}
Value(k, n) == [kind |-> k, n |-> n]

(* A's field holds an int, B's an A. *)
FieldKind == [A |-> "int", B |-> "A"]

(* A frame: `form` is the compiled form the body runs in, 0 in the             *)
(* interpreter; `wrote` records that it, or something it called, has written.  *)
Frame(fn, arg) == [fn |-> fn, pc |-> 1, acc |-> arg, form |-> 0, wrote |-> FALSE]

Started(bound, cell, arg) ==
    [acts |-> <<Frame("main", arg)>>, bound |-> bound, version |-> 0, cell |-> cell, seen |-> <<>>]

Running(m) == m.acts # <<>>
Top(m) == m.acts[Len(m.acts)]
OpOf(prog, a) == prog[a.fn][a.pc]

Returns(op, a) == op[1] = "ret" \/ (op[1] = "down" /\ a.acc.n = 0)
Raises(op, a) == op[1] = "throw" \/ (op[1] = "field" /\ a.acc.kind \notin Classes)

-----------------------------------------------------------------------------
Pop(m) == [m EXCEPT !.acts = SubSeq(@, 1, Len(@) - 1)]
Push(m, a) == [m EXCEPT !.acts = Append(@, a)]
SetTop(m, a) == [m EXCEPT !.acts[Len(m.acts)] = a]
Stepped(a, v) == [a EXCEPT !.acc = v, !.pc = @ + 1]

(* A visible effect: every body under way has now taken part in it. *)
Show(m, v) ==
    [m EXCEPT !.seen = Append(@, v),
              !.acts = [i \in DOMAIN @ |-> [@[i] EXCEPT !.wrote = TRUE]]]

(* The operations that neither call nor leave. *)
Effect(m, op) ==
    LET a == Top(m)
        To(v) == SetTop(m, Stepped(a, v))
        Past(w) == SetTop(w, Stepped(Top(w), a.acc))
    IN  CASE op[1] = "let"   -> To(op[2])
          [] op[1] = "load"  -> To(m.cell)
          [] op[1] = "field" -> To(Value(FieldKind[a.acc.kind], a.acc.n))
          [] op[1] = "down"  -> To(Value(a.acc.kind, a.acc.n - 1))
          [] op[1] = "write" -> Past([Show(m, a.acc) EXCEPT !.cell = a.acc])
          [] op[1] = "odd"   -> Past(Show(m, Value("odd", a.acc.n)))
          [] op[1] = "bind"  -> Past([m EXCEPT !.bound[op[2]] = op[3], !.version = @ + 1])

(* Only the script catches: a raise ends everything it had called. *)
Caught(m) ==
    LET main == m.acts[1]
    IN  [m EXCEPT !.seen = Append(@, Value("raised", 0)),
                  !.acts = <<Stepped(main, main.acc)>>]

Returned(m, v) ==
    LET p == Pop(m) IN IF Running(p) THEN SetTop(p, Stepped(Top(p), v)) ELSE p

PlainStep(prog, m) ==
    LET a == Top(m)
        op == OpOf(prog, a)
    IN  IF op[1] = "call" THEN Push(m, Frame(m.bound[op[2]], a.acc))
        ELSE IF Returns(op, a) THEN Returned(m, a.acc)
        ELSE IF Raises(op, a) THEN Caught(m)
        ELSE Effect(m, op)

(* A left fold that computes each intermediate value once.  TLC re-evaluates   *)
(* a lazy argument under ENABLED, so SequencesExt's FoldLeft is exponential.   *)
Through(step(_, _), start, ops) ==
    LET after[n \in 0..Len(ops)] ==
            IF n = 0 THEN start
            ELSE CHOOSE next \in {step(v, ops[n]) : v \in {after[n - 1]}} : TRUE
    IN  after[Len(ops)]

(* The machine after `fuel` steps, or when it ended. *)
Plain(prog, start, fuel) ==
    Through(LAMBDA m, n : IF Running(m) THEN PlainStep(prog, m) ELSE m,
            start, [n \in 1..fuel |-> n])
=============================================================================
