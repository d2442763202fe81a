------------------------------ MODULE MCMachine -----------------------------
(* Programs for Machine, and its comparison with Meaning. *)
EXTENDS Loader, Depths, Meaning

-----------------------------------------------------------------------------
(* Statements the programs are made of; the marks tell their places apart. *)

Mk(n) == <<"mark", n>>
Any(h) == <<CATCH_ALL, h>>
Try(body, catches) == <<"try", body, catches, <<>>>>
Finally(body, catches, fin) == <<"try", body, catches, fin>>
For(body) == <<"for", body>>
Defer(body) == <<"defer", body>>
A == <<"throw", "A">>
B == <<"throw", "B">>
CallG == <<"call", "g">>
NativeG == <<"native", "g">>

Catching == {<< <<c, <<h>>>> >> : c \in {"A", CATCH_ALL}, h \in {Mk(3), B}}
            \cup {<< <<"A", <<Mk(3)>>>>, Any(<<Mk(4)>>) >>}

(* try/catch, alone, one inside the other, and in a loop *)
Flat == {Try(<<s, Mk(2)>>, c) : s \in {Mk(1), A, B, CallG, NativeG}, c \in Catching}
Deep == {Try(<<t, Mk(5)>>, << <<c, <<Mk(6)>>>> >>) :
           t \in Flat \cup {For(<<t>>) : t \in Flat}, c \in {"B", CATCH_ALL}}
Guarded == {<<t, Mk(7)>> : t \in Flat \cup Deep \cup {For(<<t>>) : t \in Flat \cup Deep}}

(* `defer`, in every way a function is left *)
Exits == {<<Mk(1)>>, <<A>>, << <<"return", 1>> >>, << <<"leave">> >>, << <<"returncall", "g">> >>,
          <<For(<< <<"return", 2>> >>)>>, <<Try(<<A>>, <<Any(<<Mk(3)>>)>>), Mk(2)>>,
          <<Try(<<CallG, A>>, << <<"B", <<Mk(3)>>>> >>)>>}
Blocks == {<<Mk(8)>>, <<B>>, <<CallG, Mk(8)>>}
Deferred ==
    {<<Defer(d)>> \o x : d \in Blocks, x \in Exits}
    \cup {<<Defer(d), Defer(e)>> \o x : d, e \in Blocks, x \in Exits}
    \cup {<<Defer(<<Try(<<A>>, <<Any(<<Mk(8)>>)>>)>>)>> \o x : x \in {<<Mk(1)>>, <<A>>, << <<"leave">> >>}}
    \cup {<<For(<<Defer(d)>> \o x), Mk(7)>> :
            d \in Blocks, x \in {<<Mk(1)>>, << <<"break", 0>> >>, << <<"continue", 0>> >>,
                                 <<A>>, << <<"return", 1>> >>}}

(* Ways out of loops *)
Jumps == {<< <<k, l>> >> : k \in {"break", "continue"}, l \in {0, 1}}
Looping ==
    {<<For(<<For(<<Mk(1)>> \o j \o <<Mk(2)>>), Mk(3)>>), Mk(4)>> : j \in Jumps}
    \cup {<<For(<<For(<<Try(<<A>>, <<Any(j)>>), Mk(2)>>), Mk(3)>>), Mk(4)>> : j \in Jumps}
    \cup {<<For(<<Try(<<For(<<Mk(1)>> \o j)>> \o <<s>>, <<Any(<<Mk(3)>>)>>)>>), Mk(4)>> :
            j \in {<< <<"break", 0>> >>, << <<"continue", 0>> >>}, s \in {Mk(2), A, CallG}}
    \cup {<<For(j), Mk(1)>> : j \in {<< <<"break", 0>> >>, << <<"continue", 0>> >>}}
    \cup {<<For(<<Try(<<s, <<"return", 1>>>>, <<Any(<<Mk(3)>>)>>)>>), Mk(4)>> :
            s \in {Mk(1), A, CallG}}

(* `finally`, once or in a loop, with nothing thrown after it *)
Ended ==
    {Finally(b, c, <<Mk(4)>>) :
       b \in {<<Mk(1)>>, <<A>>, <<B, Mk(2)>>, <<CallG>>, <<NativeG>>, << <<"return", 1>> >>,
              << <<"leave">> >>, << <<"returncall", "g">> >>, <<For(<< <<"return", 2>> >>)>>},
       c \in {<<>>} \cup Catching}
Finals == {<<t, Mk(7)>> : t \in Ended \cup {For(<<t>>) : t \in Ended}}

-----------------------------------------------------------------------------
(* Programs: f called from the module body, directly, under a try and through  *)
(* a native; g returning, throwing, deferring.                                 *)

Prog(main, f, g) == [kind |-> "fn", main |-> main, f |-> f, g |-> g]

Mains == {<< <<"call", "f">>, Mk(0)>>,
          <<Try(<< <<"native", "f">>, <<"call", "f">>>>, <<Any(<<Mk(10)>>)>>), Mk(0)>>}

GBodies == {<<Mk(9), <<"return", 9>>>>, <<A>>, <<Defer(<<Mk(9)>>), A>>,
            <<Defer(<<B>>), <<"return", 9>>>>, <<Try(<<A>>, <<Any(<<Mk(9)>>)>>)>>}

FBodies == Guarded \cup Deferred \cup Looping \cup Finals

(* f calls g somewhere *)
RECURSIVE CallsG(_)
CallsG(body) ==
    \E i \in 1..Len(body) :
        LET s == body[i]
        IN  \/ s[1] \in {"call", "native", "returncall"}
            \/ s[1] \in {"for", "defer"} /\ CallsG(s[2])
            \/ s[1] = "try" /\ (CallsG(s[2]) \/ CallsG(s[4]) \/
                                \E k \in 1..Len(s[3]) : CallsG(s[3][k][2]))

Written == {Prog(m, f, g) : m \in Mains, f \in FBodies, g \in GBodies}

(* Bytecode the verifier is to judge: every sequence of three instructions of   *)
(* an alphabet, and every two of them after a branch either way.                *)
Alphabet ==
    {<<"CONST", v>> : v \in {<<"bool", TRUE>>, <<"list">>}}
    \cup {<<"JUMP", n>> : n \in {-1, 1}} \cup {<<"JUMP_IF_TRUE", n>> : n \in {0, 1}}
    \cup {<<"POP">>, <<"POPN", 2>>, <<"LOOP", -2>>, <<"GET_ITER">>, <<"FOR_ITER", 0>>, <<"CALL">>,
          <<"RETURN">>, <<"RETURN_NULL">>, <<"THROW">>, <<"RERAISE">>}

Codes ==
    {<<i, j, k>> : i, j, k \in Alphabet}
    \cup {<< <<"CONST", <<"bool", b>>>>, <<"JUMP_IF_TRUE", 1>>, i, j, <<"RETURN_NULL">> >> :
            b \in BOOLEAN, i, j \in Alphabet}

(* Tail calls with a deferred block waiting, and of what is not a closure. *)
TailCodes ==
    {<< <<"PUSH_DEFER", [kind |-> "thunk", body |-> <<d>>]>>, <<"GET_GLOBAL", "g">>,
        <<"TAIL_CALL">>, <<"RETURN">> >> : d \in {Mk(8), B}}
    \cup {<< <<"CONST", v>>, <<"TAIL_CALL">>, <<"RETURN">> >> : v \in {<<"native", "g">>, <<"list">>}}

Coded(code) == [kind |-> "raw", main |-> code, f |-> <<>>, g |-> <<>>]

(* A function that is its own tail call, for ever in the one frame. *)
Endless == [kind |-> "raw", main |-> << <<"GET_GLOBAL", "f">>, <<"CALL">>, <<"RETURN">> >>,
            f |-> << <<"returncall", "f">> >>, g |-> <<>>]

MCPrograms ==
    {p \in Written : CallsG(p.f) \/ p.g = <<A>>}
    \cup {Coded(c) : c \in Codes \cup TailCodes} \cup {Endless}

(* A break out of try/finally in a loop; a defer with a try of its own; a try   *)
(* after a try/finally.                                                         *)
MCDeviating ==
    {Prog(<< <<"call", "f">>, Mk(0), <<"call", "g">>,
             Finally(<<Mk(3)>>, <<>>, <<Mk(4)>>), Try(<<A>>, <<Any(<<Mk(5)>>)>>)>>,
          <<For(<<Finally(<< <<"break", 0>> >>, <<>>, <<Mk(1)>>)>>)>>,
          <<Defer(<<Try(<<A>>, <<Any(<<>>)>>)>>), <<"return", 5>>>>)}

(* Bodies with a `finally` in another, or with a try or a jump inside.            *)
Tangled ==
    LET inner == Flat \cup {Finally(<<s>>, c, <<Mk(8)>>) : s \in {Mk(1), A}, c \in {<<>>} \cup Catching}
                      \cup {<<k, 0>> : k \in {"break", "continue"}}
        outer == {Finally(<<t, Mk(5)>>, c, <<Mk(4)>>) : t \in inner, c \in {<<>>, <<Any(<<B>>)>>}}
                 \cup {Finally(<<CallG>>, <<>>, <<t, Mk(4)>>) : t \in inner}
    IN  {<<For(<<t>>), Mk(7)>> : t \in outer}

(* The most handlers that can be counted on, at each of the first n addresses.   *)
RECURSIVE Counts(_, _)
Counts(c, n) ==
    IF n = 0 THEN <<>>
    ELSE LET q    == Counts(c, n - 1)
             from == {a \in 1..n - 1 : /\ jaiOpBranchOperandAt(c.code[a][1])
                                       /\ branchTarget(c.code, a) = n}
             all  == (IF n = 1 THEN {0} ELSE {OpenAfter(c.code[n - 1][1], q[n - 1])})
                     \cup {q[a] : a \in from}
         IN  Append(q, CHOOSE m \in all : \A k \in all : m <= k)

(* What the proofs ask of code (Depths) is what the compiler and the verifier     *)
(* give it: that depths agree, of all that passes the verifier; that exception    *)
(* tables are taken at depth 0, of all but a deferred block that has a catch      *)
(* of its own.                                                                    *)
ASSUME CodeAsVerified ==
    \A p \in {q \in MCPrograms : q.kind = "raw" \/ q.g = <<A>>} \cup MCDeviating
            \cup {Prog(<< <<"call", "f">> >>, f, <<A>>) : f \in Tangled} :
        LET L == Loaded(p)
        IN  (\A fn \in DOMAIN L : L[fn].ok) =>
                /\ GraphsOK(L)
                /\ Agrees(p, L)
                /\ \A fn \in DOMAIN L :
                     \/ GuardedBy(fn, L[fn], Counts(L[fn], Len(L[fn].code)))
                     \/ fn.kind = "thunk" /\ \E i \in 1..Len(fn.body) : fn.body[i][1] = "try" /\ fn.body[i][3] # <<>>

(* What a program is seen to do, and how it ends, is what the language says of  *)
(* it: handlers, `finally` and `defer` as compiled and executed, across         *)
(* unwinding and nested runs, do what their statements mean.                    *)
TraceAgrees == ctl.do = "done" /\ prog.kind = "fn" => seen = Expected(prog)
=============================================================================
