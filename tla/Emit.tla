-------------------------------- MODULE Emit --------------------------------
(* The self-hosted compiler's lowering of control flow: calls, `for`, `break`, *)
(* `continue`, `return`, `throw`, `try`/`catch`/`finally` and `defer`, from    *)
(* statements to bytecode with its exception table.                            *)
(*                                                                             *)
(* A statement is a tuple:                                                     *)
(*   <<"mark", n>>          something the program is seen to do                *)
(*   <<"call", h>>          n = h(), and n is seen                             *)
(*   <<"native", h>>        the same through a native that calls h back        *)
(*   <<"throw", c>>         throw an exception of class c                      *)
(*   <<"return", n>>        return n;      <<"leave">>   return without value  *)
(*   <<"returncall", h>>    return h()                                         *)
(*   <<"for", body>>        for x in <a list of two>                           *)
(*   <<"break", l>>, <<"continue", l>>   out of the l-th enclosing loop, 0 the *)
(*                          innermost                                          *)
(*   <<"try", body, catches, fin>>   catches: <<class or "any", body>> each;   *)
(*                          fin = <<>> when there is no `finally`              *)
(*   <<"defer", body>>                                                         *)
(*                                                                             *)
(* Expressions leave one value; jumps are relative to the next instruction;    *)
(* an instruction is one cell wide.  Captured variables (CLOSE_UPVALUE) and    *)
(* the optimiser that runs after this are left out.                            *)
EXTENDS Naturals, Integers, Sequences

CATCH_ALL == "any"

(* A stretch of code with the exception entries it pushed, offsets from its    *)
(* own start, and whether it registered a `defer`.                             *)
Frag(code) == [code |-> code, exceptions |-> <<>>, defer |-> FALSE]

Shifted(e, n) ==
    [e EXCEPT !.start = @ + n, !.end = @ + n, !.handler = @ + n]

f (+) g ==
    [code       |-> f.code \o g.code,
     exceptions |-> f.exceptions \o
                    [i \in 1..Len(g.exceptions) |-> Shifted(g.exceptions[i], Len(f.code))],
     defer      |-> f.defer \/ g.defer]

(* FnCtx: the operand depth, the loops' two depths innermost last, the          *)
(* `finally` blocks with the number of loops each was entered under, whether a  *)
(* defer was lowered so far, and protect_depth.                                 *)
FnCtx(protect) ==
    [depth |-> 0, loops |-> <<>>, finallys |-> <<>>, defer |-> FALSE, protect |-> protect]

Deeper(ctx, n) == [ctx EXCEPT !.depth = @ + n]
Protected(ctx) == [ctx EXCEPT !.protect = @ + 1]

_pop_n(n) ==
    Frag(IF n = 0 THEN <<>> ELSE IF n = 1 THEN << <<"POP">> >> ELSE << <<"POPN", n>> >>)

_run_defers(ctx, f) == Frag(IF ctx.defer \/ f.defer THEN << <<"RUN_DEFERS">> >> ELSE <<>>)

_can_tail_call_deferring(ctx) == ctx.protect = 0 /\ ctx.finallys = <<>>
_can_tail_call(ctx) == ctx.protect = 0 /\ ~ctx.defer /\ ctx.finallys = <<>>

_close_loop(code) ==
    LET Patched(i) ==
          CASE code[i] = <<"BREAK", 0>>    -> <<"JUMP", Len(code) - i>>
            [] code[i] = <<"CONTINUE", 0>> -> <<"LOOP", 2 - i>>
            [] code[i][1] \in {"BREAK", "CONTINUE"} -> <<code[i][1], code[i][2] - 1>>
            [] OTHER -> code[i]
    IN  [i \in 1..Len(code) |-> Patched(i)]

RECURSIVE _stmt(_, _), _block(_, _), _catches(_, _), _chain(_, _, _)

_block(body, ctx) ==
    IF body = <<>> THEN Frag(<<>>)
    ELSE LET first == _stmt(Head(body), ctx)
         IN  first (+) _block(Tail(body), [ctx EXCEPT !.defer = @ \/ first.defer])

(* The `finally` blocks an exit runs, innermost first, while their loop depth   *)
(* exceeds `above`; ctx still holds them all while each is lowered.             *)
_chain(ctx, position, above) ==
    IF position = 0 \/ ctx.finallys[position].loops <= above THEN Frag(<<>>)
    ELSE _block(ctx.finallys[position].body, ctx) (+) _chain(ctx, position - 1, above)

_finally_chain_for_loop(ctx, index) == _chain(ctx, Len(ctx.finallys), index)
_finally_chain_for_return(ctx) == _chain(ctx, Len(ctx.finallys), -1)

(* `value` leaves n values; then the `finally` blocks, the defers, the exit.     *)
_return(value, n, ctx, op) ==
    LET out == Frag(value) (+) _finally_chain_for_return(Deeper(ctx, n))
    IN  out (+) _run_defers(ctx, out) (+) Frag(<< <<op>> >>)

_for(body, ctx) ==
    LET inner == [Deeper(ctx, 1) EXCEPT
                    !.loops = Append(@, [continue |-> ctx.depth + 1, break |-> ctx.depth])]
        run   == Frag(<< <<"POP">> >>) (+) _block(body, inner)
        size  == Len(run.code)
        whole == Frag(<< <<"CONST", <<"list">>>>, <<"GET_ITER">>, <<"FOR_ITER", size + 1>> >>)
                 (+) run (+) Frag(<< <<"LOOP", -(size + 2)>> >>)
    IN  [whole EXCEPT !.code = _close_loop(@)]

_jump(kind, level, ctx) ==
    LET index == Len(ctx.loops) - level
        want  == IF kind = "BREAK" THEN ctx.loops[index].break ELSE ctx.loops[index].continue
    IN  _finally_chain_for_loop(ctx, index) (+) _pop_n(ctx.depth - want)
        (+) Frag(<< <<kind, level>> >>)

(* The exception is bound or dropped, then the body runs protected.             *)
_catch_body(body, ctx) ==
    Frag(<< <<"GET_EXC">>, <<"POP">> >>) (+) _block(body, Protected(ctx))

(* The catch bodies in order, each ending in a jump to `done`, which lies just  *)
(* past the last: [frag, at |-> the offset of each body in it].                 *)
_catches(catches, ctx) ==
    IF catches = <<>> THEN [frag |-> Frag(<<>>), at |-> <<>>]
    ELSE LET init == SubSeq(catches, 1, Len(catches) - 1)
             last == catches[Len(catches)]
             done == _catches(init, ctx)
             here == _catch_body(last[2], [ctx EXCEPT !.defer = @ \/ done.frag.defer])
         IN  [frag |-> done.frag (+) here (+) Frag(<< <<"DONE">> >>),
              at   |-> Append(done.at, Len(done.frag.code))]

(* Every <<"DONE">> of `code` becomes a jump to just past its end.              *)
_patch_done(frag) ==
    [frag EXCEPT !.code = [i \in 1..Len(frag.code) |->
        IF frag.code[i] = <<"DONE">> THEN <<"JUMP", Len(frag.code) - i>> ELSE frag.code[i]]]

(* One test per catch, the first that matches wins; RERAISE when none does.     *)
_catch_dispatch(catches, bodies) ==
    LET typed(i) == catches[i][1] # CATCH_ALL
        width[i \in 0..Len(catches)] ==
            IF i = 0 THEN 0 ELSE width[i - 1] + (IF typed(i) THEN 2 ELSE 1)
        total  == width[Len(catches)] + 1
        to(i)  == total - width[i] + bodies.at[i]
        test[i \in 0..Len(catches)] ==
            IF i = 0 THEN <<>>
            ELSE test[i - 1] \o
                 (IF typed(i) THEN << <<"MATCH_EXC", catches[i][1]>>, <<"JUMP_IF_TRUE", to(i)>> >>
                              ELSE << <<"JUMP", to(i)>> >>)
    IN  Frag(Append(test[Len(catches)], <<"RERAISE">>)) (+) bodies.frag

(* PUSH_FINALLY and, for a dispatched try, PUSH_HANDLER open it; the body and   *)
(* the catches are guarded; on the way out only PUSH_HANDLER is popped.         *)
_try(body, catches, fin, ctx) ==
    LET hasFin  == fin # <<>>
        dynamic == catches # <<>> /\ (ctx.depth > 0 \/ hasFin)
        inner   == IF hasFin
                     THEN [ctx EXCEPT !.finallys =
                             Append(@, [body |-> fin, loops |-> Len(ctx.loops)])]
                     ELSE ctx
        guarded == _block(body, Protected(inner))
                   (+) Frag(IF dynamic THEN << <<"POP_HANDLER">> >> ELSE <<>>)
        later   == [inner EXCEPT !.defer = @ \/ guarded.defer]
        bodies  == _catches(catches, later)
        rest    == IF dynamic THEN _catch_dispatch(catches, bodies) ELSE bodies.frag
        size    == Len(guarded.code)
        whole   == _patch_done(guarded (+) Frag(<< <<"DONE">> >>) (+) rest)
        entries == IF dynamic THEN <<>>
                   ELSE [i \in 1..Len(catches) |->
                           [start |-> 0, end |-> size, handler |-> size + 1 + bodies.at[i],
                            type  |-> catches[i][1]]]
        caught  == [whole EXCEPT !.exceptions = guarded.exceptions \o entries \o
                      SubSeq(@, Len(guarded.exceptions) + 1, Len(@))]
        total   == Len(caught.code)
        last    == [caught EXCEPT !.exceptions = Append(@,
                      [start |-> 0, end |-> total, handler |-> total, type |-> CATCH_ALL])]
        open    == (IF hasFin THEN << <<"PUSH_FINALLY", total + (IF dynamic THEN 1 ELSE 0)>> >>
                              ELSE <<>>)
                   \o (IF dynamic THEN << <<"PUSH_HANDLER", size + 1>> >> ELSE <<>>)
        after   == [ctx EXCEPT !.defer = @ \/ caught.defer]
    IN  Frag(open) (+)
        (IF hasFin THEN last (+) _block(fin, Protected(after)) (+) Frag(<< <<"END_FINALLY">> >>)
                   ELSE caught)

_stmt(s, ctx) ==
    CASE s[1] = "mark"       -> Frag(<< <<"MARK", s[2]>> >>)
      [] s[1] = "call"       -> Frag(<< <<"GET_GLOBAL", s[2]>>, <<"CALL">>, <<"SHOW">> >>)
      [] s[1] = "native"     -> Frag(<< <<"CONST", <<"native", s[2]>>>>, <<"CALL">>, <<"SHOW">> >>)
      [] s[1] = "throw"      -> Frag(<< <<"CONST", <<"exc", s[2]>>>>, <<"THROW">> >>)
      [] s[1] = "leave"      -> _return(<<>>, 0, ctx, "RETURN_NULL")
      [] s[1] = "return"     -> _return(<< <<"CONST", <<"val", s[2]>>>> >>, 1, ctx, "RETURN")
      [] s[1] = "returncall" ->
           IF _can_tail_call(ctx)
             THEN Frag(<< <<"GET_GLOBAL", s[2]>>, <<"TAIL_CALL">>, <<"RETURN">> >>)
             ELSE _return(<< <<"GET_GLOBAL", s[2]>>, <<"CALL">> >>, 1, ctx, "RETURN")
      [] s[1] = "for"        -> _for(s[2], ctx)
      [] s[1] = "break"      -> _jump("BREAK", s[2], ctx)
      [] s[1] = "continue"   -> _jump("CONTINUE", s[2], ctx)
      [] s[1] = "try"        -> _try(s[2], s[3], s[4], ctx)
      [] s[1] = "defer"      ->
           [Frag(<< <<"PUSH_DEFER", [kind |-> "thunk", body |-> s[2]]>> >>) EXCEPT !.defer = TRUE]

(* A function, the module body or a `defer` thunk: [code, exceptions].          *)
Compiled(fn) ==
    CASE fn.kind = "raw"   -> [code |-> fn.body, exceptions |-> <<>>]
      [] fn.kind = "thunk" ->
           LET f == _block(fn.body, FnCtx(1)) (+) Frag(<< <<"RETURN_NULL">> >>)
           IN  [code |-> f.code, exceptions |-> f.exceptions]
      [] OTHER ->
           LET b == _block(fn.body, FnCtx(0))
               f == b (+) _run_defers(FnCtx(0), b) (+) Frag(<< <<"RETURN_NULL">> >>)
           IN  [code |-> f.code, exceptions |-> f.exceptions]
=============================================================================
