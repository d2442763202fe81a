------------------------------- MODULE MCTier -------------------------------
(* Programs for Tier: a script that calls f, g and h, f that calls g, g that   *)
(* may call itself or h, and k, which a name may be bound to later.            *)
EXTENDS Tier

AnInt(n) == Value("int", n)
InA(n) == Value("A", n)
InB(n) == Value("B", n)
Load == <<"load">>
Write == <<"write">>
Field == <<"field">>
Odd == <<"odd">>
Ret == <<"ret">>
Down == <<"down">>
Throw == <<"throw">>
Let(v) == <<"let", v>>
Call(g) == <<"call", g>>
Rebind(name, fn) == <<"bind", name, fn>>

(* What the script calls a function with, in order. *)
Calls(f, vs) == FlattenSeq([i \in DOMAIN vs |-> <<Let(vs[i]), Call(f)>>])

AllPrograms(scripts, fs, gs, hs) ==
    {[main |-> s \o <<Ret>>, f |-> f, g |-> g, h |-> h, k |-> <<Write, Let(InB(0)), Ret>>] :
        s \in scripts, f \in fs, g \in gs, h \in hs}

H == <<Write, Let(AnInt(0)), Ret>>
HBodies == {H, <<Let(InB(0)), Write, Odd, Ret>>}
Afters == {<<>>, <<Load, Write>>, <<Write, Odd>>, <<Field, Write>>}
Around(befores) == {b \o <<Call("g")>> \o a \o <<Ret>> : b \in befores, a \in Afters}
FBodies == Around({<<>>, <<Write>>})

-----------------------------------------------------------------------------
(* Callee before caller and caller before callee, then values of other kinds.  *)
Scripts ==
    {Calls("g", <<v, v>>) \o Calls("f", <<v, v, w, w>>) :
        v \in {AnInt(0), InA(0)}, w \in {AnInt(0), InA(0), InB(0)}}
    \cup {Calls("f", <<v, v>>) \o Calls("g", <<v, v>>) \o Calls("f", <<v, v, v>>) :
            v \in {AnInt(0), InA(0)}}
GBodies == {<<Ret>>, <<Load, Ret>>, <<Let(InA(0)), Ret>>, <<Field, Ret>>, <<Write, Ret>>,
            <<Load, Write, Ret>>, <<Write, Load, Ret>>, <<Load, Load, Odd, Ret>>,
            <<Write, Let(InB(0)), Odd, Ret>>, <<Write, Load, Throw>>,
            <<Write, Call("h"), Ret>>}

(* A name bound anew once f, or only g, has been compiled. *)
RebindScripts ==
    {Calls("g", <<v, v>>) \o Calls("f", <<v, v>>) \o <<Rebind("g", "h")>> \o Calls("f", <<v, v>>) :
        v \in {AnInt(0), InA(0)}}
    \cup {Calls("h", <<v, v>>) \o Calls("g", <<v, v>>) \o <<Rebind("h", "k")>> \o Calls("f", <<v, v, v>>) :
            v \in {AnInt(0), InA(0)}}

RebindBodies == {<<Ret>>, <<Write, Ret>>, <<Load, Load, Odd, Ret>>, <<Write, Call("h"), Ret>>}

(* Bodies that call themselves, alone and under a caller. *)
SelfScripts ==
    {Calls("g", <<v[0], v[w], v[w], v[w]>>) \o Calls("f", <<v[w], v[w], v[1]>>) :
        v \in {[n \in 0..2 |-> AnInt(n)], [n \in 0..2 |-> InA(n)]}, w \in 1..2}
SelfBodies ==
    {<<Down>> \o b \o <<Call("g")>> \o a \o <<Ret>> :
        b \in {<<>>, <<Write>>, <<Odd>>},
        a \in {<<>>, <<Write>>, <<Load>>, <<Write, Odd>>, <<Write, Odd, Let(InB(0))>>, <<Call("h")>>}}

(* What such a call leaves, an instance by its shape alone, goes on to h: a    *)
(* later return then keeps that shape or takes it back.                        *)
ShapeBodies ==
    {<<Down>> \o b \o <<Call("g"), Call("h"), Let(v), Ret>> : b \in {<<>>, <<Write>>}, v \in {InA(0), InB(0)}}
ShapeScripts ==
    {Calls("h", <<InA(0), InA(0)>>) \o Calls("g", <<InA(0), InA(1), InA(n), InA(3)>>) \o Calls("f", <<InA(2), InA(1)>>) : n \in 1..2}

(* One that calls another from every depth of it, the stack's limit included.  *)
DeepBody == <<Call("h"), Down, Call("g"), Ret>>
DeepScript == Calls("h", <<AnInt(0), AnInt(0)>>) \o Calls("g", <<AnInt(0), AnInt(1), AnInt(3), AnInt(3)>>)

(* A body that returns one kind to some callers and another to the rest. *)
MixedScripts ==
    {Calls("g", <<v[a], v[a]>>) \o Calls("f", <<v[0], v[b], v[1], v[0]>>) :
        v \in {[n \in 0..1 |-> AnInt(n)], [n \in 0..1 |-> InA(n)]}, a \in 0..1, b \in 0..1}
MixedBodies == {<<Down>> \o b \o <<Let(v), Ret>> :
                   b \in {<<>>, <<Write>>}, v \in {AnInt(0), InA(0), InB(0)}}

(* A body that writes nothing and yet has a guard to fail, once the script has *)
(* changed the kind of the cell under it.                                      *)
QuietScripts ==
    {Calls("g", <<v, v>>) \o Calls("f", <<v, v>>) \o <<Let(InA(0)), Write>> \o Calls("f", <<v, v>>) :
        v \in {AnInt(0), InA(0)}}
QuietBodies == {<<Load, Load, Ret>>, <<Let(InB(0)), Load, Load, Let(AnInt(1)), Ret>>}

(* A body whose only write is its callee's, and which leaves after it.         *)
ViaScripts ==
    {Calls("h", <<v, v>>) \o Calls("g", <<v, v>>) \o Calls("f", <<v, v, v>>) : v \in {AnInt(1), InA(1)}}
ViaBodies == {<<Down, Call("h"), Odd, Ret>>, <<Down, Call("h"), Load, Load, Ret>>}

(* A body that waits on two callees, each compiled only after it has been.     *)
ChainScripts ==
    {Calls("f", <<v, v>>) \o Calls("g", <<v, v>>) \o Calls("f", <<v>>) \o Calls("h", <<v, v>>)
         \o Calls("f", <<v, v>>) : v \in {AnInt(0), InA(0)}}
ChainBodies == {b \o <<Call("g"), Write, Call("h")>> \o a \o <<Ret>> :
                   b \in {<<Load>>, <<Write>>}, a \in Afters}
ChainCallees == {<<Write, Ret>>, <<Write, Load, Ret>>, <<Write, Load, Odd, Ret>>}

-----------------------------------------------------------------------------
MCPrograms ==
    UNION {AllPrograms(Scripts, FBodies, GBodies, {H}),
           AllPrograms(RebindScripts, FBodies, RebindBodies, HBodies),
           AllPrograms(SelfScripts, Around({<<Write>>}), SelfBodies, {H}),
           AllPrograms(ShapeScripts, Around({<<Write>>}), ShapeBodies,
                       {H, <<Write, Field, Write, Ret>>}),
           AllPrograms({DeepScript}, {<<Ret>>}, {DeepBody}, {<<Write, Odd, Ret>>}),
           AllPrograms(MixedScripts, Around({<<Write>>}), MixedBodies, {H}),
           AllPrograms(QuietScripts, FBodies, QuietBodies, {H}),
           AllPrograms(ViaScripts, FBodies, ViaBodies, HBodies),
           AllPrograms(ChainScripts, ChainBodies, ChainCallees, ChainCallees)}

MCBound == [f |-> "f", g |-> "g", h |-> "h", k |-> "k"]
MCStart == [cell |-> AnInt(0), acc |-> AnInt(0)]

(* What the theorem about CallsCurrent asks of programs is so of these.        *)
ASSUME ScriptsBind == OnlyScriptBinds
=============================================================================
