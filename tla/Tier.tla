-------------------------------- MODULE Tier --------------------------------
(* The boundary between the interpreter and compiled code (vm/jit): when a     *)
(* body is compiled, entered, declined, left part-way, finished by the         *)
(* interpreter and compiled again.                                             *)
(*                                                                             *)
(* Compiled code is not machine words here.  A form is what the walk of        *)
(* jit_compile.c decided: how far it got, the kind it assumed of `acc` at each *)
(* operation, and what it made of each call.  Running a form acts on those     *)
(* decisions, so a wrong one shows as a wrong effect.                          *)
EXTENDS Untiered, FiniteSets, SequencesExt

CONSTANTS
    Programs,       \* programs: function name |-> body, "main" the script
    Bound,          \* what the global names are bound to when it starts
    Start,          \* the heap cell and main's `acc` when it starts
    Fuel,           \* plain steps a program may take
    Threshold,      \* calls interpreted before the first compile
    EarlyMax,       \* EARLY_UNARMED_MAX
    MaxAttempts,    \* failed compiles before a body is refused
    ColdRetries,    \* JAI_JIT_COLD_RETRIES
    MaxRecompiles,  \* JAI_JIT_RECOMPILES
    PolyDeclines,   \* POLY_PARAM_DECLINES
    StackLow,       \* compiled activations the C stack has room for
    MaxMisses       \* bound: compiles that fail for reasons outside the body

ASSUME TierAssumption ==
    /\ {Threshold, EarlyMax, ColdRetries, MaxRecompiles, MaxMisses} \subseteq Nat
    /\ {MaxAttempts, PolyDeclines, StackLow, Fuel} \subseteq Nat \ {0}

(* The kinds the compiler alone has: "likeA" is an instance with the shape of  *)
(* A and no class beside it (stackShape set, stackClass NULL), which is what a *)
(* call of the body's own function leaves.                                     *)
Likeness == [likeA |-> "A", likeB |-> "B"]
Like == [A |-> "likeA", B |-> "likeB"]

(* What the compiler makes a body of: known operations on names there are, the *)
(* last of them one that leaves.                                               *)
Ops == {"let", "load", "write", "field", "odd", "down", "call", "bind", "throw", "ret"}
IsOp(p, op) ==
    /\ op[1] \in Ops
    /\ op[1] \in {"call", "bind"} => op[2] \in DOMAIN Bound
    /\ op[1] = "bind" => op[3] \in DOMAIN p
    /\ op[1] = "let" => op[2].kind \notin DOMAIN Likeness
IsBody(p, body) ==
    /\ Len(body) \in Nat \ {0} /\ DOMAIN body = 1..Len(body)
    /\ \A i \in DOMAIN body : IsOp(p, body[i])
    /\ body[Len(body)][1] \in {"ret", "throw"}
ASSUME ProgramsAssumption ==
    \A p \in Programs :
        /\ "main" \in DOMAIN p
        /\ \A f \in DOMAIN p : IsBody(p, p[f])
        /\ \A name \in DOMAIN Bound : Bound[name] \in DOMAIN p

(* What CallsCurrent rests on: only the script binds names, and none to itself, *)
(* so that no compiled body is under way when one changes.  jaiJitEnterFunc     *)
(* compares the version of the bindings where a body starts and nowhere else.   *)
OnlyScriptBinds ==
    /\ \A p \in Programs : \A f \in DOMAIN p : \A i \in DOMAIN p[f] :
          p[f][i][1] = "bind" => f = "main" /\ p[f][i][3] # "main"
    /\ \A name \in DOMAIN Bound : Bound[name] # "main"

VARIABLES
    prog,    \* the program
    plain,   \* what the interpreter alone shows of it
    m,       \* the running machine: activations, globals, heap cell, effects
    forms,   \* every form ever compiled (the code arena: never freed)
    tier,    \* the fields of ObjFunction the tier keeps, by function
    deopt,   \* gDeopt, the one deopt record
    pending, \* the call on its way in, and how far it has got
    answer,  \* what the activation that has just left said
    misses
vars == <<prog, plain, m, forms, tier, deopt, pending, answer, misses>>

None == "none"
Fns == DOMAIN prog
NoCall == [at |-> None]
NoAnswer == [verdict |-> None]

(* ObjFunction as jaiFunctionNew leaves it. *)
Untried ==
    [form |-> 0, param |-> None, ret |-> "int", known |-> FALSE, noWrite |-> FALSE,
     version |-> 0, blocked |-> None, recompiles |-> 0, attempts |-> 0, cold |-> 0,
     refused |-> FALSE, count |-> 0, obs |-> None,
     poly |-> FALSE, declines |-> 0, tried |-> FALSE]

-----------------------------------------------------------------------------
(* THE WALK.  `w.kind` is the model's static kind of acc; "inst" is an         *)
(* instance of no known class (stackShape 0, stackClass NULL).                 *)

(* The kind as stackShape has it, and as the register does.                    *)
Shape(k) == IF k \in DOMAIN Likeness THEN Likeness[k] ELSE k
Payload(k) == IF k \in DOMAIN Likeness THEN "inst" ELSE k

(* Whether a guard for `param` lets a value of kind k through. *)
Takes(param, k) == (k = param /\ k \notin DOMAIN Likeness) \/ (param = "inst" /\ k \in Classes)

(* mergeReturnKind over the returns met so far; a body that met none claims    *)
(* the SLOT_INT of a zeroed Emit.                                              *)
Merged(rets) ==
    CASE rets = {} -> "int"
      [] Cardinality(rets) = 1 -> CHOOSE k \in rets : TRUE
      [] Cardinality(rets) > 1 /\ rets \subseteq Classes \cup {"inst"} -> "inst"
      [] OTHER -> "dyn"

Straight(body) == \A i \in DOMAIN body : body[i][1] \in {"let", "load", "field", "ret"}
Inlinable(body) == Straight(body) /\ Cardinality({i \in DOMAIN body : body[i][1] = "load"}) <= 1

(* The kind an inlined body leaves, None when it cannot be emitted. *)
KindAfter(cell, k, op) ==
    CASE k # None /\ op[1] = "let" -> op[2].kind
      [] k # None /\ op[1] = "load" -> cell
      [] k # None /\ op[1] = "field" -> IF k \in Classes THEN FieldKind[k] ELSE None
      [] OTHER -> k
InlineKind(body, k0, cell) == Through(LAMBDA k, op : KindAfter(cell, k, op), k0, body)

NoSite == [mode |-> "interp", callee |-> None, form |-> 0, ret |-> None, writes |-> TRUE,
           name |-> None, cell |-> None]

(* emitCall: what the walk makes of calling global `g`, resolved now and baked. *)
(* A record with bad = TRUE when the whole body has to decline.                 *)

(* A call of itself is taken to return what the returns met so far do: a later  *)
(* one of another class drops the form's shape (mergeReturnKind) and not this.  *)
(* Its own argument has to be of the parameter's class, not of its shape.       *)
Taken(ret) == IF ret \in Classes THEN Like[ret] ELSE ret
SelfSite(fn, name, param, w) ==
    [site |-> [NoSite EXCEPT !.mode = "self", !.callee = fn, !.ret = Merged(w.rets), !.name = name],
     kind |-> Taken(Merged(w.rets)),
     bad  |-> ~Takes(param, Payload(w.kind)) \/ Merged(w.rets) = "dyn"]

InlineSite(g, name, w) ==
    [site |-> [NoSite EXCEPT !.mode = "inline", !.callee = g, !.name = name,
                             !.cell = m.cell.kind, !.writes = FALSE],
     kind |-> InlineKind(prog[g], w.kind, m.cell.kind),
     bad  |-> FALSE]

(* emitDirectCall's checks, and the call when they hold: directCallArgsMatch    *)
(* reads the shape alone.                                                       *)
(* (slip: the callee's version is not compared)                                 *)
DirectAnyVersion(t, w) ==
    /\ Takes(t.param, Shape(w.kind))
    /\ t.known
    /\ t.ret \in Classes \cup {"int"}
Direct(t, w) ==
    /\ t.version = m.version
    /\ Takes(t.param, Shape(w.kind))
    /\ t.known
    /\ t.ret \in Classes \cup {"int"}

DirectSite(g, name, t) ==
    [site |-> [NoSite EXCEPT !.mode = "direct", !.callee = g, !.name = name, !.form = t.form,
                             !.ret = t.ret, !.writes = ~t.noWrite],
     kind |-> t.ret, bad |-> FALSE]

(* Through jaiCallValue, the result checked against what the callee has been    *)
(* seen to return, else against what its form says it does.                     *)
(* (slip: the call is not counted as a write)                                    *)
DescSiteQuiet(g, name, t) ==
    LET rk == IF t.obs \in Classes \cup {"int"} THEN t.obs ELSE t.ret
    IN  [site |-> [NoSite EXCEPT !.mode = "desc", !.callee = g, !.ret = rk, !.name = name,
                                 !.writes = FALSE],
         kind |-> rk, bad |-> rk \notin Classes \cup {"int"}]
DescSite(g, name, t) ==
    LET rk == IF t.obs \in Classes \cup {"int"} THEN t.obs ELSE t.ret
    IN  [site |-> [NoSite EXCEPT !.mode = "desc", !.callee = g, !.ret = rk, !.name = name],
         kind |-> rk, bad |-> rk \notin Classes \cup {"int"}]

CallSite(fn, param, w, name) ==
    LET g == m.bound[name]
    IN  IF g = fn THEN SelfSite(fn, name, param, w)
        ELSE IF Inlinable(prog[g]) /\ InlineKind(prog[g], w.kind, m.cell.kind) # None
            THEN InlineSite(g, name, w)
        ELSE IF Direct(tier[g], w) THEN DirectSite(g, name, tier[g])
        ELSE DescSite(g, name, tier[g])

(* The opcodes the walk stops at: those the tier does not speak, and naming a  *)
(* function that has no form of its own yet.                                   *)
Unarmed(fn, op) ==
    \/ op[1] \in {"odd", "throw"}
    \/ op[1] = "call" /\ m.bound[op[2]] # fn /\ tier[m.bound[op[2]]].form = 0

(* One operation of the walk. *)
Emit(fn, param, w0, op) ==
    LET w == [w0 EXCEPT !.kinds = Append(@, w0.kind)]
        Plainly(k) == [w EXCEPT !.kind = k, !.sites = Append(@, NoSite)]
    IN  IF w0.stop # 0 \/ w0.bad THEN w0
        ELSE IF Unarmed(fn, op) THEN [w EXCEPT !.stop = Len(w.kinds)]
        ELSE CASE op[1] = "let" -> Plainly(op[2].kind)
               [] op[1] = "load" -> Plainly(m.cell.kind)
               [] op[1] = "write" -> [Plainly(w.kind) EXCEPT !.writes = TRUE]
               [] op[1] \in {"down", "ret"} -> [Plainly(w.kind) EXCEPT !.rets = @ \cup {Shape(w.kind)}]
               [] op[1] = "field" -> IF w.kind \in Classes THEN Plainly(FieldKind[w.kind])
                                     ELSE [w EXCEPT !.bad = TRUE]
               [] op[1] = "bind" -> [w EXCEPT !.bad = TRUE]
               [] op[1] = "call" ->
                    LET c == CallSite(fn, param, w, op[2])
                    IN  [w EXCEPT !.kind = c.kind, !.bad = c.bad,
                                  !.sites = Append(@, c.site),
                                  !.writes = @ \/ c.site.writes,
                                  !.self = @ \/ c.site.mode = "self",
                                  !.guessed = @ \/ (c.site.mode = "self" /\ w.rets = {})]

Walk(fn, param) ==
    Through(LAMBDA w, op : Emit(fn, param, w, op),
            [kind |-> param, kinds |-> <<>>, sites |-> <<>>, rets |-> {}, stop |-> 0,
             bad |-> FALSE, writes |-> FALSE, self |-> FALSE, guessed |-> FALSE],
            prog[fn])

(* earlyUnarmedDecline: a stop this near the entry, with no branch before it,  *)
(* would deoptimise on every call.                                             *)
EarlyStop(fn, w) ==
    /\ w.stop # 0
    /\ w.stop - 1 < EarlyMax
    /\ \A i \in 1..w.stop : prog[fn][i][1] # "down"

(* The callee the walk stopped at, if a call stopped it. *)
Blocker(fn, w) ==
    IF w.stop # 0 /\ prog[fn][w.stop][1] = "call" THEN m.bound[prog[fn][w.stop][2]] ELSE None

(* jaiJitCompileFunc: the walk and the refusals that follow it. *)
Compiles(fn, w) ==
    /\ ~w.bad
    /\ ~EarlyStop(fn, w)
    /\ ~(w.self /\ Merged(w.rets) = "dyn")
    /\ ~(w.guessed /\ Merged(w.rets) # "int")

Cold(fn, w) == ~w.bad /\ EarlyStop(fn, w) /\ Blocker(fn, w) # None

Param(arg, poly) == IF poly /\ arg.kind \in Classes THEN "inst" ELSE arg.kind

(* What a compile may come to: what the walk makes of it, or nothing at all     *)
(* because the code arena or the emitter had no room.                           *)
Compile(fn, param) ==
    {[ok |-> Compiles(fn, w), cold |-> Cold(fn, w), param |-> param, walk |-> w, missed |-> 0] :
       w \in {Walk(fn, param)}}
    \cup {[ok |-> FALSE, cold |-> FALSE, param |-> param, walk |-> w, missed |-> 1] :
            w \in {x \in {Walk(fn, param)} : misses < MaxMisses /\ Compiles(fn, x)}}

(* Its success tail, and the version its callers store beside it. *)
Form(fn, c) ==
    [fn |-> fn, param |-> c.param, kinds |-> c.walk.kinds, sites |-> c.walk.sites,
     stop |-> c.walk.stop, ret |-> Merged(c.walk.rets), writes |-> c.walk.writes]

Installed(t, fn, c) ==
    [t EXCEPT !.form = Len(forms) + 1, !.param = c.param,
              !.ret = Merged(c.walk.rets), !.known = c.walk.rets # {},
              !.noWrite = ~c.walk.writes, !.version = m.version,
              !.blocked = Blocker(fn, c.walk)]

(* tier[fn] becomes t, the new form installed in it when there is one. *)
Keep(fn, t, c) ==
    /\ tier' = [tier EXCEPT ![fn] = t]
    /\ forms' = IF c.ok THEN Append(forms, Form(fn, c)) ELSE forms
    /\ misses' = misses + c.missed

-----------------------------------------------------------------------------
(* ENTRY.  A call goes to the compiled form ("form"), else to the count         *)
(* ("count"), else to the tier ("tier"), which may come back to the form it has *)
(* just compiled ("again"); declined there, it is the interpreter's.            *)
At(stages) == pending.at \in stages
To(stage) == pending' = [pending EXCEPT !.at = stage]
T == tier[pending.fn]
Set(t) == tier' = [tier EXCEPT ![pending.fn] = t]
Given == <<prog, plain>>
Elsewhere == UNCHANGED <<Given, m, deopt, answer>>

Run(form) ==
    /\ m' = Push(m, [Frame(pending.fn, pending.arg) EXCEPT !.form = form])
    /\ pending' = NoCall
    /\ UNCHANGED <<Given, deopt, answer>>

(* JAI_JIT_DECLINED. *)
Decline == IF pending.at = "form" THEN To("count") /\ Elsewhere ELSE Run(0)

LowStack == Cardinality({i \in DOMAIN m.acts : m.acts[i].form # 0}) >= StackLow

Valid == T.form # 0 /\ T.version = m.version
Due == T.blocked # None /\ tier[T.blocked].form # 0

(* jaiJitEnterFunc and jitEnterFuncFull. *)
NoForm ==
    /\ At({"form"})
    /\ T.form = 0
    /\ To("count") /\ Elsewhere /\ UNCHANGED <<tier, forms, misses>>

Retired ==
    /\ At({"form", "again"})
    /\ T.form # 0 /\ T.version # m.version
    /\ Set([T EXCEPT !.blocked = None])
    /\ Decline /\ UNCHANGED <<forms, misses>>

(* jitRecompileBlocked: the callee the walk stopped at has a form now.          *)
RecompileBlocked ==
    /\ At({"form", "again"})
    /\ Valid /\ Due
    /\ \E c \in Compile(pending.fn, Param(pending.arg, T.poly)) :
          LET n == T.recompiles + 1
              t == [T EXCEPT !.recompiles = n]
              new == Installed(t, pending.fn, c)
          IN  Keep(pending.fn,
                   IF ~c.ok THEN [t EXCEPT !.blocked = None]
                   ELSE IF new.blocked = T.blocked \/ n >= MaxRecompiles
                       THEN [new EXCEPT !.blocked = None]
                   ELSE new, c)
    /\ UNCHANGED pending /\ Elsewhere

Ready == At({"form", "again"}) /\ Valid /\ ~Due

(* polyParamDecline: an instance of another class, once too often: compile     *)
(* again with the parameter bound to no class, or keep the form there was.     *)
WrongArgument ==
    LET n == T.declines + 1
        pinned == ~T.tried /\ T.param \in Classes /\ pending.arg.kind \in Classes
        t == [T EXCEPT !.declines = n, !.tried = TRUE]
    IN  /\ Ready
        /\ ~Takes(T.param, pending.arg.kind)
        /\ \/ ~pinned /\ UNCHANGED <<tier, forms, misses>>
           \/ pinned /\ n < PolyDeclines /\ Set([T EXCEPT !.declines = n])
                     /\ UNCHANGED <<forms, misses>>
           \/ /\ pinned /\ n >= PolyDeclines
              /\ \E c \in Compile(pending.fn, "inst") :
                    Keep(pending.fn,
                         IF c.ok THEN Installed([t EXCEPT !.poly = TRUE], pending.fn, c) ELSE t, c)
        /\ Decline

(* The prologue finds the stack low; jitResultOut's verdict 1: nothing was      *)
(* written, and the body is never entered again.                                *)
Refuse ==
    /\ Ready
    /\ Takes(T.param, pending.arg.kind) /\ LowStack
    /\ Set([T EXCEPT !.refused = TRUE, !.form = 0, !.blocked = None])
    /\ Decline /\ UNCHANGED <<forms, misses>>

Enter ==
    /\ Ready
    /\ Takes(T.param, pending.arg.kind) /\ ~LowStack
    /\ Run(T.form) /\ UNCHANGED <<tier, forms, misses>>

(* callClosure past its entry branch. *)
Count ==
    /\ At({"count"})
    /\ IF T.count < Threshold THEN Set([T EXCEPT !.count = @ + 1]) /\ Run(0)
       ELSE UNCHANGED tier /\ IF T.refused THEN Run(0) ELSE To("tier") /\ Elsewhere
    /\ UNCHANGED <<forms, misses>>

(* jaiJitEnter: a form, compiled now if there is none, or a failure counted.    *)
EnterAgain ==
    /\ At({"tier"})
    /\ T.form # 0
    /\ To("again") /\ Elsewhere /\ UNCHANGED <<tier, forms, misses>>

Failed(t, c) ==
    IF c.cold /\ t.cold < ColdRetries THEN [t EXCEPT !.cold = @ + 1, !.count = 0]
    ELSE IF t.attempts + 1 >= MaxAttempts
        THEN [t EXCEPT !.attempts = @ + 1, !.refused = TRUE]
    ELSE [t EXCEPT !.attempts = @ + 1, !.count = 0]

CompileFirst ==
    /\ At({"tier"})
    /\ T.form = 0
    /\ \E c \in Compile(pending.fn, Param(pending.arg, T.poly)) :
          /\ Keep(pending.fn, IF c.ok THEN Installed(T, pending.fn, c) ELSE Failed(T, c), c)
          /\ IF c.ok THEN To("again") /\ Elsewhere ELSE Run(0)

-----------------------------------------------------------------------------
(* RUNNING.  What compiled code holds is a payload; its kind is what the walk  *)
(* said, and a payload of another kind is read as something it is not.         *)
Junk == Value("junk", 0)
Held(k, v) == IF Takes(Payload(k), v.kind) THEN v ELSE Junk

Compiled(a) == a.form # 0
Site(a) == IF Compiled(a) THEN forms[a.form].sites[a.pc] ELSE NoSite
Acc(a) == IF Compiled(a) THEN Held(forms[a.form].kinds[a.pc], a.acc) ELSE a.acc
Stopped(a) == Compiled(a) /\ forms[a.form].stop = a.pc

(* A load is kept only of the kind the walk saw there. *)
GuardFails(a, op) ==
    /\ Compiled(a)
    /\ op[1] = "load"
    /\ a.pc < Len(forms[a.form].kinds)
    /\ ~Takes(forms[a.form].kinds[a.pc + 1], m.cell.kind)

Quiet == answer.verdict = None /\ pending.at = None /\ Running(m)
TierSame == UNCHANGED <<Given, forms, tier, pending, misses>>

(* The activation on top leaves through a deopt stub: the record says where    *)
(* the interpreter picks it up and with what.                                  *)
LeaveAt(pc, v) ==
    LET a == Top(m)
    IN  /\ deopt' = [fn |-> a.fn, pc |-> pc, acc |-> v]
        /\ m' = Pop(m)
        /\ answer' = [verdict |-> "deopt", fn |-> a.fn]
        /\ TierSame

(* An operation that neither calls nor leaves. *)
Step ==
    LET a == Top(m)
        op == OpOf(prog, a)
    IN  /\ Quiet
        /\ ~Stopped(a) /\ ~GuardFails(a, op)
        /\ op[1] # "call" /\ ~Returns(op, a) /\ ~Raises(op, [a EXCEPT !.acc = Acc(a)])
        /\ m' = Effect(SetTop(m, [a EXCEPT !.acc = Acc(a)]), op)
        /\ UNCHANGED <<deopt, answer>> /\ TierSame

(* A guard fails, or the walk never got any further. *)
Deopt ==
    LET a == Top(m)
    IN  /\ Quiet
        /\ Stopped(a) \/ GuardFails(a, OpOf(prog, a))
        /\ LeaveAt(a.pc, Acc(a))

(* An interpreted return also records what kind it was, while the body is      *)
(* still being counted.                                                        *)
Observed(t, k) ==
    IF t.count >= Threshold THEN t
    ELSE [t EXCEPT !.obs = IF @ \in {None, k} THEN k ELSE "mixed"]

(* OP_RETURN of either tier.  A form that returns one of several kinds sends   *)
(* the kind along; any other sends the bare payload.                           *)
Return ==
    LET a == Top(m)
        k == forms[a.form].ret
    IN  /\ Quiet
        /\ ~Stopped(a)
        /\ Returns(OpOf(prog, a), a)
        /\ m' = Pop(m)
        /\ answer' = IF Compiled(a)
                     THEN [verdict |-> "done", fn |-> a.fn, raw |-> TRUE, value |-> Acc(a),
                           tag |-> IF k = "dyn" THEN forms[a.form].kinds[a.pc] ELSE None]
                     ELSE [verdict |-> "done", fn |-> a.fn, raw |-> FALSE, value |-> a.acc, tag |-> None]
        /\ tier' = IF Compiled(a) THEN tier
                   ELSE [tier EXCEPT ![a.fn] = Observed(@, a.acc.kind)]
        /\ UNCHANGED <<Given, forms, deopt, pending, misses>>

Raise ==
    LET a == Top(m)
    IN  /\ Quiet
        /\ ~Stopped(a)
        /\ Raises(OpOf(prog, a), [a EXCEPT !.acc = Acc(a)])
        /\ m' = Pop(m)
        /\ answer' = [verdict |-> "raised", fn |-> a.fn]
        /\ UNCHANGED deopt /\ TierSame

-----------------------------------------------------------------------------
(* CALLS. *)
Calling(mode) ==
    /\ Quiet
    /\ OpOf(prog, Top(m))[1] = "call"
    /\ ~Stopped(Top(m))
    /\ Site(Top(m)).mode = mode

Callee(a) == IF Compiled(a) THEN Site(a).callee ELSE m.bound[OpOf(prog, a)[2]]

(* OP_CALL, and jitCallOut through a descriptor: both are callClosure. *)
CallOut ==
    LET a == Top(m)
    IN  /\ Calling("interp") \/ Calling("desc")
        /\ pending' = [at |-> "form", fn |-> Callee(a), arg |-> Acc(a)]
        /\ Elsewhere /\ UNCHANGED <<forms, tier, misses>>

(* A branch to the entry the site was compiled with -- its own for a self-call. *)
(* A body that finds the stack low says so having written nothing, and the      *)
(* caller leaves at the call.                                                   *)
Branch ==
    LET a == Top(m)
        form == IF Site(a).mode = "self" THEN a.form ELSE Site(a).form
    IN  /\ Calling("direct") \/ Calling("self")
        /\ ~LowStack
        /\ m' = Push(m, [Frame(Site(a).callee, Acc(a)) EXCEPT !.form = form])
        /\ UNCHANGED <<deopt, answer>> /\ TierSame

BranchLow ==
    /\ Calling("direct") \/ Calling("self")
    /\ LowStack
    /\ LeaveAt(Top(m).pc, Acc(Top(m)))

(* The callee's body where the call is; a guard inside it leaves at the call. *)
InlineFails(a) ==
    /\ \E i \in DOMAIN prog[Site(a).callee] : prog[Site(a).callee][i][1] = "load"
    /\ ~Takes(Site(a).cell, m.cell.kind)

(* The value it leaves. *)
ValueAfter(cell, v, op) ==
    CASE op[1] = "let" -> op[2]
      [] op[1] = "load" -> cell
      [] op[1] = "field" -> IF v.kind \in Classes THEN Value(FieldKind[v.kind], v.n) ELSE Junk
      [] OTHER -> v
Inlined(a) == Through(LAMBDA v, op : ValueAfter(m.cell, v, op), Acc(a), prog[Site(a).callee])

Inline ==
    /\ Calling("inline")
    /\ ~InlineFails(Top(m))
    /\ m' = SetTop(m, Stepped(Top(m), Inlined(Top(m))))
    /\ UNCHANGED <<deopt, answer>> /\ TierSame

InlineLeave ==
    /\ Calling("inline")
    /\ InlineFails(Top(m))
    /\ LeaveAt(Top(m).pc, Acc(Top(m)))

-----------------------------------------------------------------------------
(* ANSWERS.  What the caller does with what the activation it called said.     *)
Answered(verdict) == answer.verdict = verdict /\ Running(m)

(* jitResultOut: the value is rebuilt from what the callee's metadata says NOW; *)
(* any object pointer makes the object it points to.                            *)
Rebuilt(r) ==
    LET ret == tier[r.fn].ret
    IN  IF ret = "dyn" /\ r.tag = None THEN Value("null", 0)
        ELSE Held(IF ret = "dyn" THEN r.tag ELSE IF ret = "int" THEN "int" ELSE "inst", r.value)

(* A result that comes with a tag is checked against the kind the site was      *)
(* compiled for; one in a bare register is not.                                 *)
Handed(s) ==
    IF answer.raw /\ s.mode \in {"interp", "desc"} THEN Rebuilt(answer) ELSE answer.value
(* (slip: what the interpreter finished is taken unchecked) *)
TaggedDesc(s) == s.mode = "desc"
Tagged(s) == s.mode = "desc" \/ (s.mode \in {"direct", "self"} /\ ~answer.raw)
Surprise(s) == Tagged(s) /\ ~Takes(s.ret, Handed(s).kind)

Result ==
    LET a == Top(m)
    IN  /\ Answered("done")
        /\ ~Surprise(Site(a))
        /\ m' = SetTop(m, Stepped(a, Handed(Site(a))))
        /\ answer' = NoAnswer
        /\ UNCHANGED deopt /\ TierSame

(* A surprise leaves AFTER the call, which has happened.                        *)
(* (slip: it leaves at the call)                                                *)
ResultSurpriseAgain ==
    LET a == Top(m)
    IN  /\ Answered("done")
        /\ Surprise(Site(a))
        /\ LeaveAt(a.pc, Acc(a))
ResultSurprise ==
    LET a == Top(m)
    IN  /\ Answered("done")
        /\ Surprise(Site(a))
        /\ LeaveAt(a.pc + 1, Handed(Site(a)))

(* Verdict 4.  A caller that came through the interpreter's entry, or one that  *)
(* branched to a body that writes, has it finished from its record.             *)
Finish ==
    LET s == Site(Top(m))
    IN  /\ Answered("deopt")
        /\ s.mode \in {"interp", "desc"} \/ s.writes
        /\ m' = Push(m, [Frame(deopt.fn, deopt.acc) EXCEPT !.pc = deopt.pc])
        /\ answer' = NoAnswer
        /\ UNCHANGED deopt /\ TierSame

(* A caller that branched to a body that writes nothing leaves at the call, to  *)
(* make all of it again.                                                        *)
(* (slip: the compiled caller makes it again)                                   *)
RedoCompiled ==
    /\ Answered("deopt")
    /\ Site(Top(m)).mode = "direct" /\ ~Site(Top(m)).writes
    /\ answer' = NoAnswer
    /\ UNCHANGED <<m, deopt>> /\ TierSame
Redo ==
    LET a == Top(m)
    IN  /\ Answered("deopt")
        /\ Site(a).mode = "direct" /\ ~Site(a).writes
        /\ LeaveAt(a.pc, Acc(a))

(* Verdict 2: only the script catches. *)
Unwind ==
    /\ Answered("raised")
    /\ IF Len(m.acts) = 1
       THEN m' = Caught(m) /\ answer' = NoAnswer
       ELSE m' = Pop(m) /\ answer' = [verdict |-> "raised", fn |-> Top(m).fn]
    /\ UNCHANGED deopt /\ TierSame

Done == ~Running(m) /\ UNCHANGED vars

-----------------------------------------------------------------------------
Init ==
    /\ prog \in Programs
    /\ m = Started(Bound, Start.cell, Start.acc)
    /\ plain = Plain(prog, m, Fuel)
    /\ ~Running(plain)
    /\ forms = <<>>
    /\ tier = [f \in Fns |-> Untried]
    /\ deopt = [fn |-> None]
    /\ pending = NoCall
    /\ answer = NoAnswer
    /\ misses = 0

Next ==
    \/ Step \/ Deopt \/ Return \/ Raise
    \/ CallOut \/ Branch \/ BranchLow \/ Inline \/ InlineLeave
    \/ NoForm \/ Retired \/ RecompileBlocked \/ WrongArgument \/ Refuse \/ Enter
    \/ Count \/ EnterAgain \/ CompileFirst
    \/ Result \/ ResultSurprise \/ Finish \/ Redo \/ Unwind

Spec == Init /\ [][Next \/ Done]_vars /\ WF_vars(Next)

-----------------------------------------------------------------------------
(* No body calls itself for an instance of a class that a later return of its  *)
(* own takes back.  The compiler does not see to it: such a body holds one     *)
(* class for another and branches with it to a form compiled for the other.    *)
ShapesStand ==
    \A n \in DOMAIN forms : \A s \in Range(forms[n].sites) :
        s.mode = "self" /\ s.ret \in Classes => forms[n].ret = s.ret

(* A compiled activation stands where its form goes and, while ShapesStand,    *)
(* holds a value of the kind and the shape the walk gave it there: no guard    *)
(* was left out, and no result was mistyped.                                   *)
TypeOK ==
    /\ \A f \in Fns : tier[f].form \in 0..Len(forms)
    /\ \A i \in DOMAIN m.acts :
          LET a == m.acts[i]
          IN  /\ a.pc \in DOMAIN prog[a.fn]
              /\ Compiled(a) => /\ forms[a.form].fn = a.fn
                                /\ a.pc \in DOMAIN forms[a.form].kinds
                                /\ ShapesStand => Takes(Shape(forms[a.form].kinds[a.pc]), a.acc.kind)

(* Whatever is compiled, declined, left and finished, the program shows what    *)
(* the interpreter alone would have: nothing twice, nothing missed, nothing     *)
(* read as something else (jit/README.md, "The boundary contract"), while       *)
(* ShapesStand.                                                                 *)
SameTrace ==
    ShapesStand => /\ IsPrefix(m.seen, plain.seen)
                   /\ ~Running(m) => m.seen = plain.seen

(* A form said to write nothing has written nothing while an activation of it   *)
(* is under way, its callees included: jitFuncNoWrite is what lets a caller run *)
(* the whole call again.                                                        *)
NoWriteHonest ==
    \A i \in DOMAIN m.acts :
        Compiled(m.acts[i]) /\ ~forms[m.acts[i].form].writes => ~m.acts[i].wrote

(* A compiled activation calls what the names are bound to now: one version     *)
(* test at entry covers every function baked into the form, and into the forms  *)
(* it branches to.                                                              *)
CallsCurrent ==
    \A i \in DOMAIN m.acts :
        Compiled(m.acts[i]) =>
            \A s \in Range(forms[m.acts[i].form].sites) :
                s.name # None => m.bound[s.name] = s.callee

(* Every program ends, however often its bodies are compiled and left.          *)
Terminates == <>(~Running(m))
=============================================================================
