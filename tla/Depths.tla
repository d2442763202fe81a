------------------------------- MODULE Depths -------------------------------
(* Why the interpreter's stack is as deep as the verifier computed, in a form   *)
(* that says what the code is relied on for and what every step keeps.          *)
EXTENDS Machine, Effects

-----------------------------------------------------------------------------
(* Code as loaded, put as a property of each instruction and of its neighbours. *)

Callable(p) == {Fn(p.f), Fn(p.g)}

ValueOK(p, v) == /\ v[1] = "fn" => v[2] \in Callable(p)
                 /\ v[1] = "native" => v[2] \in {"f", "g"}

(* Depth d at address `to` of function c. *)
DepthIs(c, to, d) == to \in 1..Len(c.code) /\ d \in Nat /\ c.depth[to] = d

InstructionOK(p, L, c, at) ==
    LET ins  == c.code[at]
        here == c.depth[at]
        e    == fallEffect(ins)
    IN  /\ here \in Nat /\ e.pops \in Nat /\ e.pops <= here
        /\ jaiOpFallsThrough(ins[1]) => DepthIs(c, at + 1, here - e.pops + e.pushes)
        /\ opBranchIsEdge(ins[1]) => DepthIs(c, branchTarget(c.code, at), jumpDepth(ins[1], here))
        /\ ins[1] \in Registers => DepthIs(c, branchTarget(c.code, at), here)
        /\ ins[1] = "CONST" => ValueOK(p, ins[2])
        /\ ins[1] = "GET_GLOBAL" => ins[2] \in {"f", "g"}
        /\ ins[1] = "PUSH_DEFER" => ins[2] \in DOMAIN L /\ ins[2].kind = "thunk"

(* The depths agree along every edge, a registered handler has the depth of its *)
(* PUSH.  What is asked beyond the verifier: a TAIL_CALL is followed by an        *)
(* instruction, as the compiler has it.                                          *)
FunctionOK(p, L, fn) ==
    LET c == L[fn]
    IN  /\ c.ok /\ c.window \in Nat \ {0}
        /\ DepthIs(c, 1, 0)
        /\ \A at \in 1..Len(c.code) : c.depth[at] >= 0 => InstructionOK(p, L, c, at)
        /\ \A i \in 1..Len(c.exceptions) :
             LET e == c.exceptions[i]
             IN  e.start \in Nat /\ e.end \in Nat /\ e.start < e.end

(* q[at]: how many handlers a frame at `at` has open, at the least.  A PUSH opens *)
(* one, for the instruction at the next address; what a handler is entered with  *)
(* was open at its PUSH.                                                         *)
OpenAfter(op, n) ==
    CASE op \in Registers             -> n + 1
      [] op = "POP_HANDLER" /\ n > 0  -> n - 1
      [] OTHER                        -> n

CountsOpen(c, q) ==
    /\ q \in [1..Len(c.code) -> Nat]
    /\ q[1] = 0
    /\ \A at \in 1..Len(c.code) :
         LET op == c.code[at][1]
         IN  /\ at + 1 \in 1..Len(c.code) => q[at + 1] <= OpenAfter(op, q[at])
             /\ jaiOpBranchOperandAt(op) => q[branchTarget(c.code, at)] <= q[at]

(* The exception table is searched when the frame has no handler open, and then  *)
(* its operand stack becomes slots plus window: empty, in the frame of a          *)
(* function.  So the handler is met with none open, at depth 0, in a function;    *)
(* or the entry is never taken, for a handler that catches all is open wherever   *)
(* it covers.  Such is the entry of a `finally`: its target has the depth of the  *)
(* PUSH_FINALLY, 1 for each `for` around it.                                      *)
Taken(fn, c, q, e)  == /\ fn.kind # "thunk"
                       /\ DepthIs(c, e.handler + 1, 0) /\ q[e.handler + 1] = 0
Shadowed(q, e) == \A at \in e.start + 1..e.end : q[at] >= 1

GuardedBy(fn, c, q) ==
    /\ CountsOpen(c, q)
    /\ \A i \in 1..Len(c.exceptions) :
         Taken(fn, c, q, c.exceptions[i]) \/ Shadowed(q, c.exceptions[i])

Guards(L, o) == \A fn \in DOMAIN L : GuardedBy(fn, L[fn], o[fn])

(* Code that agrees with its facts, but for what its exception tables do.        *)
Agrees(p, L) ==
    /\ Main(p) \in DOMAIN L /\ Main(p).kind # "thunk"
    /\ Callable(p) \subseteq DOMAIN L
    /\ \A fn \in DOMAIN L : FunctionOK(p, L, fn)

CodeOK(p, L) == Agrees(p, L) /\ \E o : Guards(L, o)

(* The graph has an edge for every way on to another block, and its order a      *)
(* place for every block control gets to.                                        *)
EdgeTo(g, at, to) == to \in g.succ[g.blockAt[at]] /\ to \in g.rpo
WaysOn(c, at) ==
    LET op == c.code[at][1]
        g  == c.cfg
        to == branchTarget(c.code, at)
    IN  /\ jaiOpFallsThrough(op) =>
             g.blockAt[at + 1] = g.blockAt[at] \/ EdgeTo(g, at, at + 1)
        /\ opBranchIsEdge(op) => EdgeTo(g, at, to)
        /\ op \in Registers => to \in g.rpo

GraphsOK(L) ==
    \A fn \in DOMAIN L :
        LET c == L[fn]
        IN  /\ 1 \in c.cfg.rpo
            /\ \A at \in 1..Len(c.code) : c.depth[at] >= 0 => WaysOn(c, at)
            /\ \A i \in 1..Len(c.exceptions) : c.exceptions[i].handler + 1 \in c.cfg.rpo

-----------------------------------------------------------------------------
(* What every step keeps.                                                      *)

(* Where the operand stack of a frame starts, and whether the frame can go on    *)
(* at its instruction with the stack h high.                                     *)
Floor(L, f) == IF f.fn.kind = "thunk" THEN f.base ELSE f.slots + L[f.fn].window
GoesOnAt(L, f, pc, h) ==
    /\ pc \in 1..Len(L[f.fn].code) /\ L[f.fn].depth[pc] \in Nat
    /\ h = Floor(L, f) + L[f.fn].depth[pc]
GoesOn(L, f, h) == GoesOnAt(L, f, f.pc, h)

FrameHeld(L, f, m) ==
    /\ f.fn \in DOMAIN L /\ f.slots \in 0..m - 1
    /\ f.base \in 0..m /\ Floor(L, f) \in 1..m

Held(L, fs, m) ==
    /\ \A i \in 1..Len(fs) : FrameHeld(L, fs[i], m)
    /\ \A i \in 2..Len(fs) : fs[i].base >= 1

(* A handler is of a frame that is there and lies in its stretch, and when it    *)
(* is entered the stack has the height its target is to have.                    *)
Owned(L, fs, hs, m) ==
    /\ IsList(hs)
    /\ \A i \in 1..Len(fs) :
         /\ fs[i].handlerBase \in 0..Len(hs)
         /\ \A j \in 1..i : fs[j].handlerBase <= fs[i].handlerBase
    /\ \A i \in 1..Len(hs) :
         LET k == hs[i].frame
         IN  /\ k \in 1..Len(fs)
             /\ fs[k].handlerBase < i
             /\ k < Len(fs) => i <= fs[k + 1].handlerBase
             /\ hs[i].top \in 1..m
             /\ GoesOnAt(L, fs[k], hs[i].at, hs[i].top)

(* The number of frames under the activation j, a native or a deferred block.    *)
Under(cs, n, j) == IF j = Len(cs) THEN n ELSE cs[j + 1].base

(* What is above a frame leaves the stack as high as the frame expects it: the   *)
(* next frame, or the native or the deferred block whose run starts above it.    *)
Awaited(L, fs, cs, m) ==
    /\ \A i \in 1..Len(fs) - 1 :
         \/ \E j \in 1..Len(cs) : cs[j].k = "run" /\ cs[j].base = i
         \/ GoesOn(L, fs[i], fs[i + 1].base + 1)
    /\ \A j \in 1..Len(cs) :
         cs[j].k \in {"native", "deferred"} =>
             /\ cs[j].base \in 1..m
             /\ (cs[j].k = "deferred" => cs[j - 1].then = "op") =>
                    GoesOn(L, fs[Under(cs, Len(fs), j)], cs[j].base)

CarriedOK(p, a) ==
    a.k = "defers" => /\ DOMAIN a = {"k", "had", "carried", "then", "value"}
                      /\ ValueOK(p, a.carried) /\ ValueOK(p, a.value)
                      /\ a.then = "tail" => a.value[1] = "fn"

Values(p, m, e, cs) ==
    /\ IsList(m) /\ \A i \in 1..Len(m) : ValueOK(p, m[i])
    /\ ValueOK(p, e)
    /\ \A j \in 1..Len(cs) : CarriedOK(p, cs[j])

TopHeld ==
    /\ top \in 0..Len(mem)
    /\ frames # <<>> => top >= 1
    /\ ctl.do = "run" => GoesOn(loaded, Frame, top)
    /\ ctl.do = "defers" /\ cstack[Len(cstack)].then = "op" => GoesOn(loaded, Frame, top)

DepthInv ==
    /\ CodeOK(prog, loaded)
    /\ Held(loaded, frames, Len(mem))
    /\ Owned(loaded, frames, handlers, Len(mem))
    /\ Awaited(loaded, frames, cstack, Len(mem))
    /\ Values(prog, mem, pendingException, cstack)
    /\ TopHeld

(* A block that waits is one of the functions. *)
KnownDefers == \A i \in 1..Len(defers) : defers[i].fn \in DOMAIN loaded /\ defers[i].fn.kind = "thunk"

(* A handler that waits is entered at a block of its frame's function.           *)
InGraph(L, fs, hs) == \A i \in 1..Len(hs) : hs[i].at \in L[fs[hs[i].frame].fn].cfg.rpo
GraphInv == InGraph(loaded, frames, handlers)

(* Of the first n handlers, frame f has k or more.                               *)
Has(f, n, k) == k <= n - f.handlerBase

(* Frame f has as many as counted where it goes on; or, when it has stopped after *)
(* an instruction, as counted at that instruction.                               *)
HasHere(o, f, n) == Has(f, n, o[f.fn][f.pc])
HasLeft(L, o, f, n) ==
    /\ f.pc - 1 \in 1..Len(L[f.fn].code)
    /\ L[f.fn].code[f.pc - 1][1] \notin Registers
    /\ Has(f, n, o[f.fn][f.pc - 1])

(* As many handlers are open as counted: below each one, and in each frame.  All  *)
(* catch whatever is thrown.                                                     *)
CoveredBelow(L, o, fs, hs) ==
    /\ \A i \in 1..Len(hs) :
         /\ hs[i].type \in {JAI_HANDLER_CATCH_ALL, "finally"}
         /\ LET f == fs[hs[i].frame] IN Has(f, i - 1, o[f.fn][hs[i].at])
    /\ \A i \in 1..Len(fs) - 1 : HasLeft(L, o, fs[i], fs[i + 1].handlerBase)

CoverInv(o) ==
    /\ CoveredBelow(loaded, o, frames, handlers)
    /\ frames # <<>> => IF ctl.do = "run" THEN HasHere(o, Frame, Len(handlers))
                                          ELSE HasLeft(loaded, o, Frame, Len(handlers))

(* What is proved: of code that is well put together, DepthInv; with it          *)
(* DepthAsVerified.                                                              *)
DepthKept ==
    /\ CodeOK(prog, loaded) => DepthInv /\ KnownDefers
    /\ CodeOK(prog, loaded) => \A o : Guards(loaded, o) => CoverInv(o)
=============================================================================
