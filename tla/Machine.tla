------------------------------- MODULE Machine ------------------------------
(* The interpreter's exception machinery: frames, the operand stack, dynamic   *)
(* handlers and exception tables, unwinding, `finally` and `defer`, and the    *)
(* nested runs a native or a deferred block starts (vm.c, vm_call.c,           *)
(* vm_except.c).  What code it executes is Loader's matter.                    *)
(*                                                                             *)
(* A program is [kind, main, f, g]: the module body and two global functions,  *)
(* each a sequence of statements; with kind "raw", main is bytecode, run when  *)
(* the verifier accepts it.  A native calls one of the functions through       *)
(* jaiCallValue and gives its result back.  The compiled tier, locals and      *)
(* captured variables, the frame and re-entry limits and HALT are left out.    *)
EXTENDS Integers, Sequences, FiniteSets

CONSTANTS
    Programs,
    Load(_)           \* the functions of a program as loaded

VARIABLES
    prog,             \* the program run
    loaded,           \* its functions: code, exception table, verifier's facts
    frames,           \* vm.frames: [fn, pc, slots, base, handlerBase, deferBase]
    mem,              \* vm.stack, every cell written so far
    top,              \* vm.stackTop: cells 1..top are live
    iters,            \* elements left in each iterator made so far
    handlers,         \* vm.handlers: [at, type, frame, top]
    defers,           \* vm.defers: [fn, id]
    hasException, pendingException, sFinallyPending,
    cstack,           \* the C activations above: runs, natives, runFrameDefers
    ctl,              \* what the innermost one is doing
    seen,             \* what the program has been seen to do
    registered,       \* how many deferred blocks PUSH_DEFER registered
    ran               \* the ids of those run, in order

program == <<prog, loaded>>
core    == <<program, frames, mem, top>>
exn     == <<hasException, pendingException, sFinallyPending>>
lists   == <<handlers, defers>>
history == <<seen, registered, ran>>
vars    == <<core, iters, exn, lists, cstack, ctl, history>>

Fn(body) == [kind |-> "fn", body |-> body]
Main(p) == [kind |-> p.kind, body |-> p.main]

frameWindowSize(fn) == loaded[fn].window

JAI_HANDLER_CATCH_ALL == "any"

Null == <<"null">>

Frame == frames[Len(frames)]
Proto == loaded[Frame.fn]
Ins == Proto.code[Frame.pc]
Peek == mem[top]

Running(op) == ctl.do = "run" /\ Ins[1] = op

Upto(s, n) == SubSeq(s, 1, IF n < Len(s) THEN n ELSE Len(s))

(* What is left of handlers or defers when a frame is done: those before it.    *)
TrimmedAll(s, base) == <<>>
Trimmed(s, base) == SubSeq(s, 1, base)

Pred(s) == SubSeq(s, 1, Len(s) - 1)
Put(m, at, v) == IF at > Len(m) THEN Append(m, v) ELSE [m EXCEPT ![at] = v]

Goto(pc) == frames' = [frames EXCEPT ![Len(frames)].pc = pc]
Next1 == Goto(Frame.pc + 1)
Push(v) == mem' = Put(mem, top + 1, v) /\ top' = top + 1
Drop(n) == top' = top - n /\ mem' = mem

(* goto vmThrow with exception e. *)
Throw(e) ==
    /\ Next1
    /\ hasException' = TRUE /\ pendingException' = e
    /\ ctl' = [do |-> "unwind"]
    /\ UNCHANGED sFinallyPending

(* pushFrame, and for a call bindCallArgs: the window above slot 0 is cleared.  *)
NewFrame(fn, slots, base) ==
    [fn |-> fn, pc |-> 1, slots |-> slots, base |-> base,
     handlerBase |-> Len(handlers), deferBase |-> Len(defers)]

Cleared(m, at, n) ==
    [i \in 1..(IF at + n - 1 > Len(m) THEN at + n - 1 ELSE Len(m)) |->
        IF i \in at..at + n - 1 THEN Null ELSE m[i]]

(* The callee already lies in cell slots + 1 of m. *)
EnterCall(fs, m, fn, slots) ==
    /\ frames' = Append(fs, NewFrame(fn, slots, slots))
    /\ mem' = Cleared(m, slots + 2, frameWindowSize(fn) - 1)
    /\ top' = slots + frameWindowSize(fn)

Init ==
    /\ prog \in Programs
    /\ loaded = Load(prog)
    /\ LET main == Main(prog)
       IN  /\ frames = <<[fn |-> main, pc |-> 1, slots |-> 0, base |-> 0,
                          handlerBase |-> 0, deferBase |-> 0]>>
           /\ prog.kind = "raw" => loaded[main].ok
           /\ mem = [i \in 1..frameWindowSize(main) |-> Null]
           /\ top = frameWindowSize(main)
    /\ iters = <<>> /\ handlers = <<>> /\ defers = <<>>
    /\ hasException = FALSE /\ pendingException = Null /\ sFinallyPending = 0
    /\ cstack = <<[k |-> "run", base |-> 0]>>
    /\ ctl = [do |-> "run"]
    /\ seen = <<>> /\ registered = 0 /\ ran = <<>>

-----------------------------------------------------------------------------
(* Values, jumps and loops *)

Const ==
    /\ Running("CONST")
    /\ Next1 /\ Push(Ins[2])
    /\ UNCHANGED <<program, iters, exn, lists, cstack, ctl, history>>

GetGlobal ==
    /\ Running("GET_GLOBAL")
    /\ Next1
    /\ Push(<<"fn", Fn(prog[Ins[2]])>>)
    /\ UNCHANGED <<program, iters, exn, lists, cstack, ctl, history>>

Pop ==
    /\ ctl.do = "run" /\ Ins[1] \in {"POP", "POPN"}
    /\ Next1 /\ Drop(IF Ins[1] = "POP" THEN 1 ELSE Ins[2])
    /\ UNCHANGED <<program, iters, exn, lists, cstack, ctl, history>>

(* What the program is seen to do: a step of its own, or a value it was given.  *)
Mark ==
    /\ Running("MARK")
    /\ Next1
    /\ seen' = Append(seen, <<"mark", Ins[2]>>)
    /\ UNCHANGED <<program, mem, top, iters, exn, lists, cstack, ctl, registered, ran>>

Show ==
    /\ Running("SHOW")
    /\ Next1 /\ Drop(1)
    /\ seen' = Append(seen, Peek)
    /\ UNCHANGED <<program, iters, exn, lists, cstack, ctl, registered, ran>>

Jump ==
    /\ ctl.do = "run" /\ Ins[1] \in {"JUMP", "LOOP"}
    /\ Goto(Frame.pc + 1 + Ins[2])
    /\ UNCHANGED <<program, mem, top, iters, exn, lists, cstack, ctl, history>>

(* REQUIRE_BOOL *)
JumpIfTrue ==
    /\ Running("JUMP_IF_TRUE")
    /\ Drop(1)
    /\ \/ /\ Peek[1] = "bool"
          /\ Goto(Frame.pc + 1 + (IF Peek[2] THEN Ins[2] ELSE 0))
          /\ UNCHANGED <<exn, ctl>>
       \/ /\ Peek[1] # "bool"
          /\ Throw(<<"exc", "TypeError">>)
    /\ UNCHANGED <<program, iters, lists, cstack, history>>

GetIter ==
    /\ Running("GET_ITER")
    /\ \/ /\ Peek[1] = "list"
          /\ Next1
          /\ iters' = Append(iters, 2)
          /\ mem' = [mem EXCEPT ![top] = <<"iter", Len(iters')>>]
          /\ UNCHANGED <<top, exn, ctl>>
       \/ /\ Peek[1] # "list"
          /\ Throw(<<"exc", "TypeError">>)
          /\ UNCHANGED <<iters, mem, top>>
    /\ UNCHANGED <<program, lists, cstack, history>>

ForIter ==
    /\ Running("FOR_ITER")
    /\ \/ /\ Peek[1] = "iter" /\ iters[Peek[2]] > 0
          /\ Next1
          /\ iters' = [iters EXCEPT ![Peek[2]] = @ - 1]
          /\ Push(Null)
          /\ UNCHANGED <<exn, ctl>>
       \/ /\ Peek[1] = "iter" /\ iters[Peek[2]] = 0
          /\ Goto(Frame.pc + 1 + Ins[2])
          /\ Drop(1)
          /\ UNCHANGED <<iters, exn, ctl>>
       \/ /\ Peek[1] # "iter"
          /\ Throw(<<"exc", "TypeError">>)
          /\ UNCHANGED <<iters, mem, top>>
    /\ UNCHANGED <<program, lists, cstack, history>>

-----------------------------------------------------------------------------
(* Calls and returns *)

(* A closure gets a frame; a native runs at once, and the native here pushes    *)
(* its function and starts a run of its own for it (jaiCallValue).              *)
Invoke ==
    LET called == [frames EXCEPT ![Len(frames)].pc = @ + 1]
    IN  \/ /\ Peek[1] = "fn"
           /\ EnterCall(called, mem, Peek[2], top - 1)
           /\ UNCHANGED <<exn, cstack, ctl>>
        \/ /\ Peek[1] = "native"
           /\ LET f == Fn(prog[Peek[2]])
              IN  EnterCall(called, Put(mem, top + 1, <<"fn", f>>), f, top)
           /\ cstack' = cstack \o <<[k |-> "native", base |-> top],
                                    [k |-> "run", base |-> Len(frames)]>>
           /\ UNCHANGED <<exn, ctl>>
        \/ /\ Peek[1] \notin {"fn", "native"}
           /\ Throw(<<"exc", "TypeError">>)
           /\ UNCHANGED <<mem, top, cstack>>

Call ==
    /\ Running("CALL")
    /\ Invoke
    /\ UNCHANGED <<program, iters, lists, history>>

HasDefersButOne(f) == Len(defers) > f.deferBase + 1
HasDefers(f) == Len(defers) > f.deferBase

(* runFrameDefers: what is carried while the blocks run, and what follows.      *)
StartDefers(then, value) ==
    /\ cstack' = Append(cstack, [k |-> "defers", had |-> hasException,
                                 carried |-> pendingException, then |-> then,
                                 value |-> value])
    /\ ctl' = [do |-> "defers"]

(* The window is reused once the frame's defers have run. *)
ReuseFrame(f) ==
    LET callee == mem[top]
        slots  == Frame.slots
    IN  /\ frames' = [frames EXCEPT ![Len(frames)].fn = f, ![Len(frames)].pc = 1]
        /\ mem' = Cleared([mem EXCEPT ![slots + 1] = callee], slots + 2, frameWindowSize(f) - 1)
        /\ top' = slots + frameWindowSize(f)
        /\ handlers' = Trimmed(handlers, Frame.handlerBase)
        /\ defers' = Trimmed(defers, Frame.deferBase)

(* A callee that is not a closure is called the ordinary way; the RETURN after  *)
(* the instruction then returns what it gave.                                   *)
TailCall ==
    /\ Running("TAIL_CALL")
    /\ \/ /\ Peek[1] # "fn"
          /\ Invoke
          /\ UNCHANGED lists
       \/ /\ Peek[1] = "fn" /\ HasDefers(Frame)
          /\ Next1
          /\ StartDefers("tail", Peek)
          /\ UNCHANGED <<mem, top, exn, lists>>
       \/ /\ Peek[1] = "fn" /\ ~HasDefers(Frame)
          /\ ReuseFrame(Peek[2])
          /\ UNCHANGED <<exn, cstack, ctl>>
    /\ UNCHANGED <<program, iters, history>>

(* The rest of opReturn: the frame's handlers and defers go, the result takes   *)
(* the place of everything it had on the stack.                                 *)
LeaveFrame(value) ==
    /\ frames' = Pred(frames)
    /\ mem' = Put(mem, Frame.base + 1, value)
    /\ top' = Frame.base + 1
    /\ handlers' = Trimmed(handlers, Frame.handlerBase)
    /\ defers' = Trimmed(defers, Frame.deferBase)

(* Returning from the first frame of this run ends the run; `cs` holds it last. *)
ReturnWith(value, cs) ==
    /\ LeaveFrame(value)
    /\ \/ /\ Len(frames') <= cs[Len(cs)].base
          /\ cstack' = Pred(cs)
          /\ ctl' = [do |-> "returned", ok |-> TRUE]
       \/ /\ Len(frames') > cs[Len(cs)].base
          /\ cstack' = cs
          /\ ctl' = [do |-> "run"]

Return ==
    /\ ctl.do = "run" /\ Ins[1] \in {"RETURN", "RETURN_NULL"}
    /\ LET value == IF Ins[1] = "RETURN" THEN Peek ELSE Null
       IN  \/ /\ HasDefers(Frame)
              /\ Next1
              /\ Drop(IF Ins[1] = "RETURN" THEN 1 ELSE 0)
              /\ StartDefers("return", value)
              /\ UNCHANGED lists
           \/ /\ ~HasDefers(Frame)
              /\ ReturnWith(value, cstack)
    /\ UNCHANGED <<program, iters, exn, history>>

(* A run handed its result, or its failure, to the C code that started it.      *)
NativeReturns ==
    /\ ctl.do = "returned" /\ cstack # <<>> /\ cstack[Len(cstack)].k = "native"
    /\ LET base == cstack[Len(cstack)].base
       IN  \/ /\ ctl.ok
              /\ mem' = [mem EXCEPT ![base] = mem[top]]
              /\ top' = base
              /\ ctl' = [do |-> "run"]
           \/ /\ ~ctl.ok
              /\ mem' = mem
              /\ top' = base
              /\ ctl' = [do |-> "unwind"]
    /\ cstack' = Pred(cstack)
    /\ UNCHANGED <<program, frames, iters, exn, lists, history>>

(* The module body has returned, or its exception is reported and cleared;      *)
(* jaiVMResetStack drops whatever is left.                                      *)
Exit ==
    /\ ctl.do = "returned" /\ cstack = <<>>
    /\ seen' = Append(seen, IF ctl.ok THEN <<"end">> ELSE pendingException)
    /\ ctl' = [do |-> "done"]
    /\ frames' = <<>> /\ top' = 0 /\ handlers' = <<>> /\ defers' = <<>>
    /\ sFinallyPending' = 0
    /\ IF ctl.ok THEN UNCHANGED <<hasException, pendingException>>
                 ELSE hasException' = FALSE /\ pendingException' = Null
    /\ UNCHANGED <<program, mem, iters, cstack, registered, ran>>

-----------------------------------------------------------------------------
(* Exceptions and defer *)

ThrowOp ==
    /\ Running("THROW")
    /\ Drop(1)
    /\ Throw(Peek)
    /\ UNCHANGED <<program, iters, lists, cstack, history>>

Reraise ==
    /\ Running("RERAISE")
    /\ Throw(IF pendingException[1] = "null" THEN <<"exc", "RuntimeError">> ELSE pendingException)
    /\ UNCHANGED <<program, mem, top, iters, lists, cstack, history>>

\* (slip: the target counts from the start of the instruction)
PushHandlerFromStart ==
    /\ ctl.do = "run" /\ Ins[1] \in {"PUSH_HANDLER", "PUSH_FINALLY"}
    /\ Next1
    /\ handlers' = Append(handlers,
          [at    |-> Frame.pc + Ins[2],
           type  |-> IF Ins[1] = "PUSH_FINALLY" THEN "finally" ELSE JAI_HANDLER_CATCH_ALL,
           frame |-> Len(frames), top |-> top])
    /\ UNCHANGED <<program, mem, top, iters, exn, defers, cstack, ctl, history>>
PushHandler ==
    /\ ctl.do = "run" /\ Ins[1] \in {"PUSH_HANDLER", "PUSH_FINALLY"}
    /\ Next1
    /\ handlers' = Append(handlers,
          [at    |-> Frame.pc + 1 + Ins[2],
           type  |-> IF Ins[1] = "PUSH_FINALLY" THEN "finally" ELSE JAI_HANDLER_CATCH_ALL,
           frame |-> Len(frames), top |-> top])
    /\ UNCHANGED <<program, mem, top, iters, exn, defers, cstack, ctl, history>>

PopHandler ==
    /\ Running("POP_HANDLER")
    /\ Next1
    /\ handlers' = IF Len(handlers) > Frame.handlerBase THEN Pred(handlers) ELSE handlers
    /\ UNCHANGED <<program, mem, top, iters, exn, defers, cstack, ctl, history>>

(* The exception the unwinder suspended goes on; without one, nothing.          *)
EndFinally ==
    /\ Running("END_FINALLY")
    /\ Next1
    /\ \/ /\ sFinallyPending > 0
          /\ sFinallyPending' = sFinallyPending - 1
          /\ hasException' = TRUE
          /\ ctl' = [do |-> "unwind"]
       \/ /\ sFinallyPending = 0
          /\ UNCHANGED <<sFinallyPending, hasException, ctl>>
    /\ UNCHANGED <<program, mem, top, iters, pendingException, lists, cstack, history>>

PushDefer ==
    /\ Running("PUSH_DEFER")
    /\ Next1
    /\ defers' = Append(defers, [fn |-> Ins[2], id |-> registered + 1])
    /\ registered' = registered + 1
    /\ UNCHANGED <<program, mem, top, iters, exn, handlers, cstack, ctl, seen, ran>>

RunDefers ==
    /\ Running("RUN_DEFERS")
    /\ Next1
    /\ IF HasDefers(Frame) THEN StartDefers("op", Null) ELSE UNCHANGED <<cstack, ctl>>
    /\ UNCHANGED <<program, mem, top, iters, exn, lists, history>>

MatchExc ==
    /\ Running("MATCH_EXC")
    /\ Next1
    /\ Push(<<"bool", pendingException = <<"exc", Ins[2]>>>>)
    /\ UNCHANGED <<program, iters, exn, lists, cstack, ctl, history>>

GetExc ==
    /\ Running("GET_EXC")
    /\ Next1
    /\ Push(pendingException)
    /\ UNCHANGED <<program, iters, exn, lists, cstack, ctl, history>>

(* callDeferred: the newest block runs over the slots of the frame that         *)
(* registered it, its own stack above everything live, in a run of its own.     *)
CallDeferred ==
    /\ ctl.do = "defers" /\ HasDefers(Frame)
    /\ LET d == defers[Len(defers)]
       IN  /\ defers' = Pred(defers)
           /\ ran' = Append(ran, d.id)
           /\ hasException' = FALSE
           /\ frames' = Append(frames, [NewFrame(d.fn, Frame.slots, top) EXCEPT
                                          !.deferBase = Len(defers) - 1])
           /\ cstack' = cstack \o <<[k |-> "deferred", base |-> top],
                                    [k |-> "run", base |-> Len(frames)]>>
    /\ ctl' = [do |-> "run"]
    /\ UNCHANGED <<program, mem, top, iters, handlers, pendingException, sFinallyPending, seen, registered>>

(* The newest failure replaces the exception carried. *)
DeferredReturns ==
    /\ ctl.do = "returned" /\ cstack # <<>> /\ cstack[Len(cstack)].k = "deferred"
    /\ LET n == Len(cstack)
       IN  /\ top' = cstack[n].base
           /\ cstack' = IF ctl.ok THEN Pred(cstack)
                        ELSE [Pred(cstack) EXCEPT ![n - 1].had = TRUE,
                                                  ![n - 1].carried = pendingException]
    /\ ctl' = [do |-> "defers"]
    /\ UNCHANGED <<program, frames, mem, iters, exn, lists, history>>

(* popFrameForUnwind, past the defers *)
DiscardFrame ==
    /\ frames' = Pred(frames)
    /\ top' = Frame.base
    /\ handlers' = Upto(handlers, Frame.handlerBase)
    /\ defers' = Upto(defers, Frame.deferBase)
    /\ mem' = mem

(* All have run: the carried state is back, and the caller goes on.             *)
DefersDone ==
    /\ ctl.do = "defers" /\ ~HasDefers(Frame)
    /\ LET me == cstack[Len(cstack)]
           cs == Pred(cstack)
       IN  /\ hasException' = me.had
           /\ pendingException' = me.carried
           /\ \/ /\ me.then = "unwind"
                 /\ DiscardFrame
                 /\ cstack' = cs /\ ctl' = [do |-> "unwind"]
              \/ /\ me.then # "unwind" /\ me.had
                 /\ cstack' = cs /\ ctl' = [do |-> "unwind"]
                 /\ UNCHANGED <<frames, mem, top, lists>>
              \/ /\ me.then = "op" /\ ~me.had
                 /\ cstack' = cs /\ ctl' = [do |-> "run"]
                 /\ UNCHANGED <<frames, mem, top, lists>>
              \/ /\ me.then = "tail" /\ ~me.had
                 /\ cstack' = cs /\ ctl' = [do |-> "run"]
                 /\ ReuseFrame(me.value[2])
              \/ /\ me.then = "return" /\ ~me.had
                 /\ ReturnWith(me.value, cs)
    /\ UNCHANGED <<program, iters, sFinallyPending, history>>

handlerMatches(type) ==
    type \in {JAI_HANDLER_CATCH_ALL, "finally"} \/ pendingException = <<"exc", type>>

(* The run whose frames may be unwound. *)
RunBase == cstack[Len(cstack)].base

(* The newest dynamic handler of this frame, if any matches. *)
DynamicHandlers ==
    {i \in Frame.handlerBase + 1..Len(handlers) :
        handlers[i].frame = Len(frames) /\ handlerMatches(handlers[i].type)}

(* The entries of the frame's exception table over the faulting instruction.    *)
StaticHandlers ==
    LET table == Proto.exceptions
    IN  {i \in 1..Len(table) : /\ table[i].start < Frame.pc - 1
                               /\ Frame.pc - 1 <= table[i].end
                               /\ handlerMatches(table[i].type)}

Narrowest(found) ==
    LET table == Proto.exceptions
        width(i) == table[i].end - table[i].start
    IN  CHOOSE i \in found : \A j \in found : width(i) < width(j) \/ (width(i) = width(j) /\ i <= j)

UnwindingAbove == ctl.do = "unwind" /\ Len(frames) > RunBase + 1
Unwinding == ctl.do = "unwind" /\ Len(frames) > RunBase

\* (slip: the stack keeps what the protected region left on it)
EnterDynamicAbove ==
    /\ Unwinding /\ DynamicHandlers # {}
    /\ LET i == CHOOSE i \in DynamicHandlers : \A j \in DynamicHandlers : j <= i
           h == handlers[i]
       IN  /\ handlers' = SubSeq(handlers, 1, i - 1)
           /\ Goto(h.at)
           /\ sFinallyPending' = sFinallyPending + (IF h.type = "finally" THEN 1 ELSE 0)
    /\ hasException' = FALSE
    /\ ctl' = [do |-> "run"]
    /\ UNCHANGED <<program, mem, top, iters, pendingException, defers, cstack, history>>
EnterDynamic ==
    /\ Unwinding /\ DynamicHandlers # {}
    /\ LET i == CHOOSE i \in DynamicHandlers : \A j \in DynamicHandlers : j <= i
           h == handlers[i]
       IN  /\ handlers' = SubSeq(handlers, 1, i - 1)
           /\ Goto(h.at)
           /\ top' = h.top
           /\ sFinallyPending' = sFinallyPending + (IF h.type = "finally" THEN 1 ELSE 0)
    /\ hasException' = FALSE
    /\ ctl' = [do |-> "run"]
    /\ UNCHANGED <<program, mem, iters, pendingException, defers, cstack, history>>

EnterStatic ==
    /\ Unwinding /\ DynamicHandlers = {} /\ StaticHandlers # {}
    /\ Goto(Proto.exceptions[Narrowest(StaticHandlers)].handler + 1)
    /\ top' = Frame.slots + frameWindowSize(Frame.fn)
    /\ handlers' = Trimmed(handlers, Frame.handlerBase)
    /\ hasException' = FALSE
    /\ ctl' = [do |-> "run"]
    /\ UNCHANGED <<program, mem, iters, pendingException, sFinallyPending, defers, cstack, history>>

UnwindFrame ==
    /\ Unwinding /\ DynamicHandlers = {} /\ StaticHandlers = {}
    /\ IF HasDefers(Frame)
         THEN /\ StartDefers("unwind", Null)
              /\ UNCHANGED <<core, lists>>
         ELSE /\ DiscardFrame
              /\ UNCHANGED <<program, cstack, ctl>>
    /\ UNCHANGED <<iters, exn, history>>

(* The exception leaves this run. *)
Escape ==
    /\ ctl.do = "unwind" /\ Len(frames) <= RunBase
    /\ hasException' = TRUE
    /\ sFinallyPending' = 0
    /\ cstack' = Pred(cstack)
    /\ ctl' = [do |-> "returned", ok |-> FALSE]
    /\ UNCHANGED <<core, iters, pendingException, lists, history>>

Next ==
    \/ Const \/ GetGlobal \/ Pop \/ Mark \/ Show
    \/ Jump \/ JumpIfTrue \/ GetIter \/ ForIter
    \/ Call \/ TailCall \/ Return \/ NativeReturns \/ Exit
    \/ ThrowOp \/ Reraise \/ PushHandler \/ PopHandler \/ EndFinally
    \/ PushDefer \/ RunDefers \/ MatchExc \/ GetExc
    \/ CallDeferred \/ DeferredReturns \/ DefersDone
    \/ EnterDynamic \/ EnterStatic \/ UnwindFrame \/ Escape

Spec == Init /\ [][Next]_vars /\ WF_vars(Next)

-----------------------------------------------------------------------------
(* Properties *)

(* A dynamic handler belongs to a frame that is there, lies in that frame's own *)
(* stretch of vm.handlers, and restores a stack no higher than was ever written. *)
HandlersOwned ==
    \A i \in 1..Len(handlers) :
        LET f == handlers[i].frame
        IN  /\ f <= Len(frames)
            /\ frames[f].handlerBase < i
            /\ f < Len(frames) => i <= frames[f + 1].handlerBase
            /\ handlers[i].top <= Len(mem)

(* The shape of the state: frames and handlers stack up as pushed.              *)
TypeOK ==
    /\ HandlersOwned
    /\ \A i \in 1..Len(frames) :
         /\ frames[i].pc \in 1..Len(loaded[frames[i].fn].code) + 1
         /\ frames[i].slots <= frames[i].base /\ frames[i].base <= top
         /\ frames[i].handlerBase <= Len(handlers) /\ frames[i].deferBase <= Len(defers)
    /\ ctl.do = "run" => Frame.pc <= Len(Proto.code)
    /\ top <= Len(mem)
    /\ sFinallyPending \in Nat
    /\ ctl.do \in {"run", "unwind", "defers", "returned", "done"}

(* The operand stack of the frame that runs is as deep, at each instruction,    *)
(* as the verifier computed: whatever was unwound, deferred or re-entered on    *)
(* the way there.                                                               *)
OperandDepth ==
    top - (IF Frame.fn.kind = "thunk" THEN Frame.base ELSE Frame.slots + frameWindowSize(Frame.fn))

DepthAsVerified ==
    ctl.do = "run" => /\ Proto.depth[Frame.pc] >= 0
                      /\ OperandDepth = Proto.depth[Frame.pc]

(* No deferred block is lost or run twice: each one registered is waiting or    *)
(* has run, and when the program is over all have.                              *)
DefersOnce ==
    /\ \A id \in 1..registered :
         Cardinality({i \in 1..Len(ran) : ran[i] = id})
         + Cardinality({i \in 1..Len(defers) : defers[i].id = id}) = 1
    /\ ctl.do = "done" => Len(ran) = registered

(* A tail call puts its callee in the place of the function that runs. *)
Reuses ==
    \/ Running("TAIL_CALL") /\ Peek[1] = "fn"
    \/ ctl.do = "defers" /\ cstack[Len(cstack)].then = "tail"

(* Control goes from an instruction to the next in its block or along an edge   *)
(* of the control-flow graph the range analysis walks, and the unwinder, or a    *)
(* tail call of the function itself, enters a frame at the start of a block;     *)
(* never a block the graph's order leaves out.                                   *)
CfgStep ==
    \A i \in 1..Len(frames) :
      LET cfg == loaded[frames[i].fn].cfg
          pc  == frames[i].pc
          q   == frames'[i].pc
          Block == q \in cfg.rpo
      IN  (/\ i <= Len(frames') /\ frames'[i].fn = frames[i].fn
           /\ q # pc /\ ctl'.do = "run")
          => IF ctl.do = "unwind" \/ Reuses THEN Block
             ELSE \/ q = pc + 1 /\ cfg.blockAt[q] = cfg.blockAt[pc]
                  \/ q \in cfg.succ[cfg.blockAt[pc]] /\ Block
FollowsCfg == [][CfgStep]_vars

(* Every program of statements comes to its end. *)
Terminates == prog.kind = "fn" ~> ctl.do = "done"

-----------------------------------------------------------------------------
(* What carries DefersOnce, whatever the code does.                            *)

IsList(s) == s \in Seq({s[i] : i \in DOMAIN s})

(* Each frame's stretch of vm.defers, m long, starts where those of the frames   *)
(* below end.                                                                    *)
FrameFields == {"fn", "pc", "slots", "base", "handlerBase", "deferBase"}
Stretched(fs, m) ==
    /\ IsList(fs)
    /\ \A i \in 1..Len(fs) :
         /\ DOMAIN fs[i] = FrameFields
         /\ fs[i].deferBase \in 0..m
         /\ \A j \in 1..i : fs[j].deferBase <= fs[i].deferBase
    /\ IF fs = <<>> THEN m = 0 ELSE fs[1].deferBase = 0

(* The C stack above n frames: a run, then a native or the defers of a frame and *)
(* one block of them, then the run it started, and so on.  Each run has a frame  *)
(* of its own, but for the topmost when all of it is unwound.                    *)
Nests(below, a) ==
    CASE a = "run"                 -> below \in {"native", "deferred"}
      [] a \in {"native", "defers"} -> below = "run"
      [] a = "deferred"            -> below = "defers"
      [] OTHER                     -> FALSE

Suits(do, a) ==
    CASE do \in {"run", "unwind"} -> a = "run"
      [] do = "defers"            -> a = "defers"
      [] do = "returned"          -> a \in {"native", "deferred"}
      [] OTHER                    -> FALSE

Stacked(cs, n, do) ==
    /\ IsList(cs)
    /\ \A j \in 1..Len(cs) :
         /\ "k" \in DOMAIN cs[j]
         /\ IF j = 1 THEN cs[1].k = "run" /\ cs[1].base = 0
                     ELSE Nests(cs[j - 1].k, cs[j].k)
         /\ cs[j].k = "run" =>
              /\ cs[j].base \in 0..n
              /\ cs[j].base = n => j = Len(cs) /\ do = "unwind"
              /\ \A i \in 1..j - 1 : cs[i].k = "run" => cs[i].base < cs[j].base
    /\ IF cs = <<>> THEN n = 0 /\ do \in {"returned", "done"}
                    ELSE Suits(do, cs[Len(cs)].k)

FramesOK == Stretched(frames, Len(defers))
CStackOK == Stacked(cstack, Len(frames), ctl.do)

(* The blocks registered are those that wait and those that ran, each once.      *)
IdsOK ==
    /\ IsList(defers) /\ registered \in Nat /\ ran \in Seq(1..registered)
    /\ Len(ran) + Len(defers) = registered
    /\ \A i \in 1..Len(defers) : defers[i].id \in 1..registered
    /\ \A i, j \in 1..Len(defers) : defers[i].id = defers[j].id => i = j
    /\ \A i, j \in 1..Len(ran) : ran[i] = ran[j] => i = j
    /\ \A i \in 1..Len(ran), j \in 1..Len(defers) : ran[i] # defers[j].id
    /\ \A id \in 1..registered : \/ \E i \in 1..Len(ran) : ran[i] = id
                                 \/ \E j \in 1..Len(defers) : defers[j].id = id

(* What each step keeps, so that DefersOnce holds. *)
DefersInv == FramesOK /\ CStackOK /\ IdsOK
=============================================================================
