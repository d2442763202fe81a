------------------------------- MODULE Loader -------------------------------
(* How Machine gets its functions: compiled by Emit, judged by Verify, with    *)
(* the number of stack cells each needs (state.jai, chunk.jai, verify.c).      *)
EXTENDS Machine, Emit, Verify

(* The `defer` blocks inside a body, to any depth. *)
RECURSIVE ThunksOf(_)
ThunksOf(body) ==
    UNION {LET s == body[i] IN
             CASE s[1] = "for"   -> ThunksOf(s[2])
               [] s[1] = "try"   -> ThunksOf(s[2]) \cup ThunksOf(s[4]) \cup
                                    UNION {ThunksOf(s[3][k][2]) : k \in 1..Len(s[3])}
               [] s[1] = "defer" -> {[kind |-> "thunk", body |-> s[2]]} \cup ThunksOf(s[2])
               [] OTHER          -> {}
           : i \in 1..Len(body)}

Nested(fn) ==
    IF fn.kind = "raw"
      THEN {fn.body[i][2] : i \in {j \in 1..Len(fn.body) : fn.body[j][1] = "PUSH_DEFER"}}
      ELSE ThunksOf(fn.body)

Functions(p) ==
    LET named == {Main(p), Fn(p.f), Fn(p.g)}
    IN  named \cup UNION {Nested(fn) : fn \in named}

(* A function as compiled, with what the verifier makes of it and the deepest   *)
(* its operand stack gets (Chunk.max_depth).                                    *)
MaxDepth(code, depth) ==
    LET after(i) == depth[i] - fallEffect(code[i]).pops + fallEffect(code[i]).pushes
        all == {0} \cup {depth[i] : i \in DOMAIN depth} \cup {after(i) : i \in DOMAIN depth}
    IN  CHOOSE m \in all : \A d \in all : d <= m

Judged(c, v) ==
    [code |-> c.code, exceptions |-> c.exceptions, ok |-> v.ok, depth |-> v.depth,
     max_depth |-> IF v.ok THEN MaxDepth(c.code, v.depth) ELSE 0,
     cfg |-> IF v.ok THEN jaiChunkCfg(c) ELSE <<>>]
Proved(c) == Judged(c, jaiVerifyChunk(c))

(* The functions of a program, ready to run.  A window is slot 0 and the        *)
(* operand stack's worth of spare cells _finish adds (maxSlots); a function     *)
(* makes room for its `defer` blocks too.                                       *)
Loaded(p) ==
    LET fns    == Functions(p)
        proved == [fn \in fns |-> Proved(Compiled(fn))]
        window(fn) ==
            LET depths == {proved[f].max_depth : f \in {fn} \cup Nested(fn)}
            IN  1 + CHOOSE m \in depths : \A d \in depths : d <= m
    IN  [fn \in fns |-> [code |-> proved[fn].code, exceptions |-> proved[fn].exceptions,
                         ok |-> proved[fn].ok, depth |-> proved[fn].depth,
                         cfg |-> proved[fn].cfg, window |-> window(fn)]]
=============================================================================
