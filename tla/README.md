# A verification of the Jaithon runtime

Jaithon is a dynamic language with a C core (`src/src/`, about 100k lines: a
bytecode interpreter, a mark-sweep collector, an arm64 compiled tier, builtins,
module loader, platform layer) and a compiler and standard library written in
Jaithon itself (`src/lib/`).  This directory models the part of the core on
which every program depends and whose mistakes are silent: memory, the threads
that share some of it, the loading of modules, how control leaves the ordinary
path (exceptions, `finally` and `defer`, from the compiler that lowers them
through the verifier to the interpreter that executes them), and how execution
passes between the interpreter and compiled code.  It holds TLA+ modules translated from the C, TLC configurations that check them on small
instances, and TLAPS proofs for all instances.

Paths below are relative to the repository; `gc.c` and friends live in
`src/src/vm/`.

## 1. The system

### Components, their state, and what makes them correct

| Component | State | Operations | What can go wrong | Correct when |
|---|---|---|---|---|
| Collector (`vm/gc.c`, weak tables in `vm/vm_cache.c`, `vm/value.c`, `vm/table.c`) | object list, mark bits and epoch, gray stack, root stacks, weak tables | collect (roots, trace, weak phase, sweep), push and pop roots, permanent roots | a native allocates with something only its C locals name; a weak table hands out a freed object; the epoch flip leaves an object in the wrong colour | nothing reachable is freed, everything else is, weak holders are honest, a collection ends |
| Trigger (`vm/gc.c`, `runtime/modules/module.c`, `builtins_gc.c`) | heap bytes, threshold, cached limit, enabled, stress counter, front-end pause | allocate, grow an array, loop safepoint, `gc_collect`, `gc_enable`, `gc_disable`, load begin and end, credit | the cached limit goes stale; a load switches a collector on or off against the program; credits ratchet | the limit follows its inputs, no due collection is missed, the program's choice survives |
| Page space (`vm/gc_page.c`) | pages, cursors, mark, live and in-use bitmaps, pool, byte counts | pop, refill, collect begin and end, reset | words are handed out ahead of use; pages change class; the cursor resumes a scan after the list changed | no two blocks overlap, counts are exact, finalizers run on exactly the dead |
| Strings (`vm/object/object_string.c`) | headers, shared append buffers | new, concatenate in place or afresh, terminate for C | an append through the wrong view overwrites another string | a string never changes |
| Hash table (`vm/table.c`) | entries, order list, counters, versions | set, delete, clear, reserve, add all, remove white | tombstones, compaction, rehash, stale baked slots | an insertion-ordered map; an unchanged key version pins slots |
| Traversal (`vm/object/object_iter.c`) | position, version | new, step, end, raise | the body writes to the table | exact or an error |
| Threads (`builtins_thread.c`, `runtime/handles.c`, `native/posix/thread.c`) | handle table, tasks, worker state | spawn, join, detach, reap, mutexes, conditions | freed task read by its worker, slot reused under a stale id, a task that is never freed | a task outlives its worker's accesses, live memory has one owner, a join returns its worker's result, detached tasks are reclaimed |
| Module import (`runtime/modules/module.c`) | module table and states, import stack, window and warm-up flags; on disk: sources and `__jaicache__` files | run a file, import, warm up, load from cache, seed or compiler, run a body, fail, eval | the compiler imports modules to compile modules; caches, seed and sources drift apart; a load fails half-way | no stale body runs outside the window, the compiler arrives as one set, no module is replaced or left half loaded, only real cycles are reported |
| Exceptions (`vm/vm_except.c`) | handlers, frames, defers, pending exception, `sFinallyPending` | throw, unwind, run defers, call back | a defer throws while another exception unwinds; a handler is entered at a wrong depth or outlives its try; a nested run unwinds frames of the run below | control goes where the statements say, the stack is as deep as the handler expects, each defer runs once |
| Interpreter, calls, caches (`vm/vm.c`, `vm_call.c`, `vm_cache.c`) | stack, frames, inline caches | opcodes, calls, returns, tail calls | frames and natives interleave with unwinding; stale caches | control follows the verified graph; a cache never calls what is freed |
| Verifier (`vm/bytecode/verify.c`) | work list, depth of each instruction, basic blocks | verify a chunk, build its graph | a path, a handler or a registered target forgotten | the depth it computes is the depth the interpreter has |
| Compiler (`lib/jaithon/compile/emit/`) | operand depth, loops, `finally` blocks, protection | lower statements to bytecode | an exit inlines the wrong `finally` blocks or pops the wrong values | compiled code does what the statement means |
| Compiled tier (`vm/jit/`, `vm_call.c`) | forms, the tier's fields of each function, the one deopt record, activations of both tiers on one C stack | count, compile, enter, decline, refuse, recompile; leave part-way, finish, redo, unwind | an effect is repeated or lost when a body leaves part-way; a value is read as another kind; a stale callee is called; compiling is retried for ever | a program shows what the interpreter alone would show |
| Snapshot, trace, parallel for, builtins, platform, CLI, library, packages, tools | | | | not modelled, section 7 |

### How they interact

An allocation (`allocObj`, `object.c`) compares `jaiHeapBytes` with
`jaiGCLimit` (trigger), may run a whole collection (collector) and only then
takes a block from a page (page space) or the list.  The collector reads the
roots of interpreter and natives, calls the page space at the beginning and end
of a collection, and the hash table to drop white interned strings.  Strings
are interned through a hash table and may be views into a buffer object which
they must keep alive.  Compiled code and iterators rely on the version counters
of tables.  A module load pauses the collector and credits what it built.
To compile a module the loader imports the compiler, a set of modules itself,
in a window during which modules come from the seed built into the binary.
A call (`callClosure`, `vm_call.c`) goes to the callee's compiled form when there
is one; compiled code calls other forms directly, or back through
`jaiCallValue`, and hands a body it cannot go on with to the interpreter by way
of the deopt record.

There is one thread that runs the VM.  Most of the concurrency is re-entrance: a
collection can happen inside any allocation, a program's loop body inside any
traversal, a front-end load inside any import.  `thread_spawn` adds OS threads,
each of which runs one native primitive and shares a `ThreadTask` with the VM
thread, without a lock.  The hard behaviours are orders of such steps that no
test was written for.

## 2. Modules

| Module | Models | Composes |
|---|---|---|
| `HeapAbs` | what the runtime relies on: an ideal heap that may lose only unreachable objects | |
| `Gc` | `gc.c`, the weak phase, `allocObj` around it | instantiates `HeapAbs` |
| `GcTrigger` | when a collection runs | |
| `PageSpace` | `gc_page.c` | |
| `StrBuf` | concatenation and termination in `object_string.c` | |
| `OrderedMap` | an insertion-ordered map | |
| `Picks` | part of a sequence, counted through | extended by `Table` and `OrderedMap` |
| `Table` | `table.c` | instantiates `OrderedMap` |
| `TableIter` | `object_iter.c` over a table being written to | extends `Table` |
| `Threads` | `builtins_thread.c`, `handles.c`, `thread.c`: handles, tasks and their OS threads | |
| `Import` | `module.c`: imports, the window, the warm-up, edits between processes | |
| `Gc_proofs` | theorems about the collector and about when it runs | extends `Gc` and `GcTrigger`, which share no state |
| `PageSpace_proofs`, `StrBuf_proofs`, `Threads_proofs`, `Table_proofs`, `Import_proofs`, `Tier_proofs` | theorems | extend their component |
| `Machine_proofs` | theorems about control, deferred blocks and stack depths | extends `Machine` and `Depths` |
| `Depths` | what loaded code is relied on for, depths and graphs, and what every step of `Machine` keeps of them | extends `Machine` and `Effects` |
| `Emit` | the compiler's lowering of control flow, statements to bytecode | |
| `Effects` | `verify.c`: what an instruction does to the stack and where it leads | |
| `Verify` | `verify.c`: addresses, stack depths, the control-flow graph | extends `Effects` |
| `Machine` | `vm_except.c` and the opcodes and calls around it, for any loaded code | |
| `Loader` | how programs become loaded code | extends `Machine`, `Emit` and `Verify`: the one executes what the second compiles and the third lets through |
| `Meaning` | what the statements of `Emit` mean, without bytecode | |
| `MCMachine` | the programs, and `TraceAgrees` | composes `Loader`, and with it `Machine`, with `Meaning`; extends `Depths` to evaluate its premise |
| `Untiered` | small programs, and what the interpreter alone makes of them | |
| `Tier` | the compiled tier's boundary: compile, enter, leave, finish, redo, recompile | extends `Untiered`, the reference it is compared with |
| `MC*` | TLC instances: symmetry, bounds, small definitions | extend their component |

Operators marked `(slip: ...)` in the modules are not part of any specification.
Each is a plausible mistake in the definition it stands next to, and a property
is only worth stating when such a mistake breaks it; `PROJECT.json` pairs every
property with one.

### Correspondence

`PROJECT.json` maps each definition to lines.  In outline:

* **Gc.** `isMarked[o] = epoch` is `jaiGCIsMarked`.  `pc` is where
  `jaiGCCollect` stands: `BeginCollect` the flip, `MarkRoots`, `Blacken` one
  turn of the trace loop, `RemoveWhite` the four weak tables, `SweepList` one
  dead object of the list, `SweepPages` the end of the page sweep.  `allocObj`
  is split at the one point where something happens inside it: `RequestObject`
  may start a collection, `FinishAlloc` makes the object after it.  `local` is
  what a native names only in C; the runtime's rule that a native pushes what it
  needs before it allocates is `local' = NoObj` in `RequestObject`.  The mutator
  can read, store, erase, root and unroot anything it can reach.  Object types
  are reduced to the four the marker treats differently.
* **GcTrigger.** One action per caller of `jaiGCSyncLimit`, `jaiGCMaybeCollect`
  or `jaiGCCollect`.  Bytes are numbers, `growFactor` a whole number.  `wanted`,
  `base`, `credited`, `budget` and `made` are history.  `cadence` is
  `--gc-stress=N`, set once, 0 when not given.
* **PageSpace.** Bitmaps are sets of grains, the page list a sequence, `rest`
  the list from `nextPage` on.  `HandOut` is one word handed out, the first
  block popped; `HeldBack` what `handOut` keeps while `jaiGCLimit` is 0.  `Total`
  stands for the sums of the `FOR_EACH_CURSOR` loops, as the number of units they
  add up, and `Kept` for the loop that unlinks emptied pages, as the n-th page that
  stays: both are forms a proof can use where a fold is not.
* **StrBuf.** A string is a header (buffer, offset, length, flag); the buffer is
  a sequence with unwritten bytes as junk.  `ConcatShort` (interned result),
  `ConcatInPlace` and `ConcatFresh` are the three exits of `jaiStringConcat`.
* **Table.** A `JaiTable` is a record; probes, `adjustCapacity`,
  `compactOrder`, `insertAt`, `removeEntry`, `jaiTableAddAll` and
  `jaiTableRemoveWhite` are operators on it.  A probe goes as many steps as the
  least distance (`Min`) at which it meets a slot of the set it looks for; the loops
  of `adjustCapacity` and `jaiTableAddAll` are the recursive functions `Moves` and
  `Puts`, the table after each number of turns; `Picked` passes over the holes of
  `order`.  Hashes are a constant, equality is identity.
* **TableIter.** `iterStep` on a dict or set, with every write of `Table` between
  its steps; its specification is the one the `table` run checks.  `came`, `over` and
  `writes` of `iter` are history: what the traversal produced, what it set out for, and
  how far `version` has been counted up since.
* **Emit.** One operator per lowering routine, under its name there.  A statement
  is a tuple, a fragment carries its exception entries with it.  `FnCtx` is what
  the routines read: operand depth, enclosing loops, enclosing `finally` blocks,
  whether a `defer` was lowered, protection depth.  An instruction is one cell
  wide, so offsets count instructions; `MARK` and `SHOW` stand for any statement
  whose effect can be seen.  Code is as emitted, before the optimiser.
* **Verify.** `jaiVerifyChunk` with its rounds (edges first, then the targets of
  `PUSH_HANDLER` and `PUSH_FINALLY`, then one unreached handler of the table at
  depth 0) and `jaiChunkCfg`.  `Effects` holds what both need of an instruction:
  `fallEffect`, `branchTarget`, the edges.
* **Machine.** An action per opcode or family of opcodes, and per step of the
  unwinder: `EnterDynamic`, `EnterStatic`, `UnwindFrame` and `Escape` are the four
  outcomes of a turn of `jaiVMUnwind`, `CallDeferred`, `DeferredReturns` and
  `DefersDone` the loop of `runFrameDefers`.  `cstack` is the C stack: runs
  (`jaiVMExecute`), natives that call back, `runFrameDefers` and what it does when
  it ends.  `mem` and `top` are the real stack, so that a wrong depth reads another
  frame's cell.  `seen`, `registered` and `ran` are history.
* **Loader.** `Loaded` is `Load` of `Machine` in the runs: each function and deferred block
  compiled by `Emit`, judged by `Verify`, with a window of slot 0 and the deepest its stack
  gets.
* **Meaning.** A recursive evaluator of statements, the reference the composition
  is compared with: 76 lines that know no handler, stack or instruction.
* **Untiered, Tier.** A body is a sequence of operations on one value: load the
  heap cell, write it, read a field, count down and perhaps return, call a name,
  bind a name, throw, and `odd`, any opcode the tier does not speak.  `Plain` runs
  it by the interpreter alone.  A form is what the compiler's walk decides and not
  instructions: how far it got (`stop`), the kind it gives the value at each
  operation (`kinds`), what it made of each call (`sites`: `self`, `inline`,
  `direct` or `desc`).  `Compile` is `jaiJitCompileFunc` with its refusals, and
  may fail for want of room.  A call goes through the stages of `pending`: `form`
  is `callClosure` at a compiled callee (`NoForm`, `Retired`, `RecompileBlocked`,
  `WrongArgument`, `Refuse`, `Enter` are the exits of `jaiJitEnterFunc`), `count`
  the entry count, `tier` and `again` `jaiJitEnter`.  `Deopt`, `Return`, `Raise`,
  `BranchLow` and `InlineLeave` are the ways out of a compiled body, `answer` the
  verdict in x1, and `Result`, `ResultSurprise`, `Finish`, `Redo` and `Unwind`
  what the caller does with it.  `ProgramsAssumption` says what a program is, and
  `OnlyScriptBinds` which programs `CallsCurrent` is about.  `Held` reads a payload as a
  kind: one of another kind is `Junk`, which no program shows.  The kind of an instance is
  its class, or, after a body's call of itself, its shape with no class beside it
  (`likeA`, `likeB`; `stackShape` set, `stackClass` NULL): a field read or an argument of
  that same body needs the class, a direct call and a return read the shape.  No value
  of a program has such a kind (`IsOp`).
* **Threads.** The VM thread and the OS threads take steps in any order.
  `thread_spawn` is `Spawn` (it reaps first), `SpawnCreate` (task and thread are
  made, the worker runs at once) and `SpawnEnd` (the task gets its handle);
  `thread_join` is `Join` and, when the thread has ended, `JoinEnd`;
  `reapDetached` reads one flag per `ReapStep`, so that workers finish in the
  middle of it; a worker is `Work` (the result is stored), `Flag` (the atomic
  add on `task->finished`) and `Exit`.  Freed memory is never used again in the model, so a
  read of it shows as `mem[x] = "freed"`.  `answer`, `joined` and `due` are history.
* **Import.** A frame of `stack` is a call of `jaiImportModule` or `jaiRunFile`, or
  a window opened in it (`warming`, `compile`, `eval`); the frames in `Published`
  are `sImportStack`.  `ImportLoaded`, `ReportCycle`, `ImportTooDeep`,
  `ImportWarm` and `ImportPublish` are the exits of the first half of
  `jaiImportModule`, `LoadCached`, `LoadSeed` and `Compile` those of
  `loadModuleBody`, `GiveUp` its failure path.  `ShouldWarm` is `maybeWarmFor`.  A
  cache file is good, stale (its header still matches) or absent; a seeded module is
  in `newer` when its source is not what the seed was built from.  A body imports any
  of what it may import in any order; bodies of `User` may leave imports out, raise,
  catch a failed import or call `eval`.  `code`, `windowed` and `broken` are
  history.  An edit never brings back the exact source of a stale cache.

## 3. Runs

| Run | Question | Answer |
|---|---|---|
| `gc` | does any interleaving of mutation, rooting and collection free something reachable, keep something dead, or leave a freed object in a weak holder? is the collector an ideal heap? | no; yes |
| `gc_shape` | is the shape cache sound? | **no**, see Findings |
| `gc_trigger` | is a due collection missed, does a load change whether the program has the collector on? | no |
| `pages` | can blocks overlap, bytes be miscounted, a finalizer miss or repeat, a free block be passed over? | no |
| `strings` | can an append change another string? | no |
| `table` | is it an insertion-ordered map, are its counters right, does an unchanged key version pin slots, is a traversal exact or an error whatever its body writes? | yes |
| `threads` | can a task be freed under its worker, leak, be freed twice or reached through a reused slot? does a join deliver its worker's result, does every call return, is every detached task freed? | no; yes |
| `import` | does a stale body run outside the window, a module of the compiler come in by the ordinary door, a loaded module get replaced, a failed one stay? | no |
| `import_cycle` | is every reported cycle one the program's modules make? | **no**, see Findings |
| `machine` | is the stack as deep as the verifier says, does control follow its graph, does each deferred block run once, does every program end, and does it do what its statements mean? | yes |
| `machine_deviates` | the same question of `break` out of a `finally`, of a `defer` with a `try`, of a throw after a `try`/`finally` | **no**, see Findings |
| `tier` | does a program show the same however its bodies are compiled, left and finished? do compiled bodies hold the kinds they assume and call what names are bound to, are claims to write nothing true, does every program end? | yes, the first and the kinds while `ShapesStand` |

### Bounds, and why they are enough

* **gc**: three blocks, each a buffer, a string or a class, reused when freed, so
  that a dangling name meets a new object; two references each, which gives
  chains, cycles and shared referents; one temporary root; all four weak holders.
  A way of the method cache names a class, a string and a method, which needs
  three.  Classes are swept from the list, strings and buffers from pages.
  `Small` lets one weak holder or temporary root be in use at a time, and none
  while an object has two references: holders do not read each other, and a
  root is to the collector what a reference from a rooted object is.  The blocks
  are symmetric.
* **gc_trigger**: allocations of one or three bytes, a floor of 4, growth 2,
  cadences off, 1 and 3, a heap of at most 9 bytes and at most 9 credited ones
  between collections (`Small`): enough to be under, at and over the threshold
  before and after each switch.
* **pages**: three pages of four grains in two words, a header of one grain, a
  plain class of two grains and a finalizing one of one; at most six objects at
  once (`Few`).  Three pages are needed for the cursor to pass over a page between
  two others; six objects fill two of them.
* **strings**: four strings, two buffers, contents of at most four bytes over two
  letters; an interning limit of 1 makes short and long results both occur.
* **table**: three keys in arrays of 4 and 8 slots, two of them hashed to the last
  slot and one to the first, where the second of the two ends up: probes collide,
  wrap around and meet tombstones; other tables of two and three pairs, two white
  sets.  Version counters run on to 2^32, so `VIEW Situation` leaves them out:
  no operation on the table reads them, every action property compares the
  counters of one step only, and of the traversal's counter only whether it has
  moved is ever read.  A traversal whose table has changed can only raise or be
  dropped, so its position is left out too.  `OneValue` begins traversals only over
  tables whose values are all the same: a traversal never looks at a value.
* **threads**: two tasks, one mutex, one atomic cell.  Two tasks are enough for one
  to be reaped while another is kept, to be joined while another is detached,
  and for a slot to pass from one kind of handle to another under the same
  integer.  Mutexes and condition variables take the same steps, so one mutex stands for both.
* **import**: a program of two modules that import each other, the prelude, two
  library modules of which one needs the other, and a compiler of two modules that
  needs both, beside a third module of its directory, the prompt's, which it does
  not import; the program, a library file and a compiler file may each be run, one
  user and one library module are edited.  Imports nest at most `MaxDepth` = 4 deep
  (64 in the code), so that the limit is met, also inside a warm-up;
  `import_cycle` has 8, out of reach of its modules, so that the limit plays no
  part in what it shows.
* **machine**: 3,389 programs.  Of statements: every `try` with one or two catches
  around a mark, a throw, a call or a call through a native, alone, nested, and in
  loops; one and two `defer` blocks before each way a function can be left; `break`
  and `continue` out of one and two loops, out of catches and across handlers; one
  `finally` around each exit, in a loop and out of one; each called directly, under a `try` and through a
  native, with a `g` that returns, throws, catches or defers.  Loops run twice.  Of
  bytecode: every sequence of three instructions of an alphabet of sixteen, and
  every two after a branch that is and that is not taken, as far as the verifier
  lets them through; and a function that is its own tail call, for ever in one frame.
  Programs end, so `CHECK_DEADLOCK` is off.

  The programs keep away from what Findings lists.  A function has at most one
  `finally`, not inside another; nothing but its loop's next turn throws after it, and
  nothing inside it.
  No `break`, `continue` or valued `return` leaves a `try` with a dispatched catch
  while something may still throw, no `defer` of a function that returns a value
  has a `try`, none contains a `defer`, no `finally` contains a `return`, and
  `g` does not recurse.  Inside these limits all combinations are there.

* **tier**: 1,599 programs of a script and four functions, in nine families: callees
  compiled before and after their callers, then called with values of other kinds;
  names bound again once one or both are compiled; bodies that call themselves;
  bodies that return different kinds; bodies that write nothing and have a guard
  to fail; bodies whose only write is a callee's; bodies that wait for two callees;
  bodies that hand what a call of themselves left, an instance of which only the shape
  is known, to another function, with a later return that keeps that shape or takes it
  back; one that calls another from every depth of itself.
  Every budget is as small as still lets it be used and exhausted: one interpreted
  call before the first compile (64 in the code), two compile attempts (5), one
  cold retry (16), two recompiles (2), two declined arguments (32), room for three
  compiled activations, one compile that fails for want of room.  `EarlyMax` is 1 (24),
  so that bodies of four operations fall on both sides of it.  The
  programs keep away from two of the deviations at the end of Findings: none calls a body
  anew from inside a form of it that is then replaced by one with another kind of
  answer, and only the script binds names (`ScriptsBind`, evaluated by TLC).  The third,
  a self-call typed by a return that a later one takes back, some of them do meet:
  `TypeOK`'s kinds and `SameTrace` are claimed while `ShapesStand`, which says that no
  form has such a call.

`CHECK_DEADLOCK FALSE` stands in the `Gc` configurations, where the model stops
when no block is free as the program panics for want of memory, and in those of
`Machine`, where a program that is over has no next step.

### Fairness

`Gc` needs none: `CollectionAdvances`, which is proved, says that each step of a
collection makes progress that cannot be undone, and while `pc` is not `"run"` no
other step is possible.  `jaiGCCollect` is one C call with no callback into the
program.

`threads` assumes weak fairness of each worker (the system runs every thread, and
the native primitives a worker may run are loops over a buffer that return) and of
`Continue`, the steps of a primitive the VM thread is in.  None is assumed of the
program, which may never call a primitive again.  `DetachedFreed` is therefore
conditional: only a spawn, join or detach reaps, and the property supposes that the
program goes on making them.

`machine` assumes that the interpreter goes on (`WF_vars(Next)`): it is one loop on
one thread, and `Terminates` says that for programs of statements, whose loops are
bounded, it comes to the end.  `tier` assumes the same of the VM thread, in
compiled code or not: its programs end in the interpreter, so only the tier itself,
by redoing, recompiling and retrying, could keep one from ending.

## 4. Findings

* **Shape cache and epoch** (`vm_cache.c:176`, run `gc_shape`).
  `jaiShapeCacheRemoveWhite` tests `isMarked` itself.  Since the collector flips
  the meaning of that bit with every collection, every second collection leaves
  dead classes in the cache, where `jaiClassForShape` finds them after the sweep
  has freed them.  In the other collections it drops live classes, which only
  costs a miss.
* **False cycle** (`module.c:710`, run `import_cycle`).  `maybeWarmFor` loads the
  compiler before a module is published unless the header of the module's cache
  matches; its comment calls that the safe direction, because "a stale cache warms
  the compiler slightly early".  A stale cache has a matching header: it skips the
  warm-up.  When such a module is one the compiler itself imports, it is published
  as loading, its cache is rejected, and the compiler, imported now, meets it half
  loaded and reports E0801.  The shortest way there is to run a library file such as
  `lib/std/str.jai`, edit it and run it again.

* **`break` skips a `finally`** (`emit/exception.jai:22`, run `machine_deviates`).
  The chain of blocks a `break` or `continue` inlines stops one too early: a
  `finally` entered directly in the loop's body is left out.
* **A `finally` handler outlives its `try`** (`emit/exception.jai:136`, same run).
  `PUSH_FINALLY` pushes a handler that no instruction pops on the way out without an
  exception.  A later throw in the same function enters it: the block runs again,
  and before any catch the throw is in.
* **A `try` in a `defer` overwrites the value returned** (`vm_except.c:440`, same
  run).  A static handler restores the stack to the window of the frame's slots,
  which for a deferred block are its definer's, below the block's own base.

The same modules show the following, each of them seen in the interpreter too.
They are one level further from any text of the repository and have no run:
`POP_HANDLER` at the end of a `try` pops the stale handler of an inner `finally`
instead of its own; `break` or `continue` out of a dispatched `try` in a loop leaves
its handler with a stack pointer that is no longer right; an inner static catch is
passed over when an outer `try` has a `finally`, since dynamic handlers come first; a
throw or a nested run inside a `finally` loses or resets the suspended exception
(`sFinallyPending` is one counter for all frames); a `return` whose inlined
`finally` throws runs it twice; `return` in both a `try` and its `finally` sends the
compiler into endless recursion; what a deferred block throws under `RUN_DEFERS`
can be caught by a `try` that guards the same `return`; and a tail call
compiled in a function that registers its `defer` conditionally runs the blocks
before the callee.

To make sure that `Emit` and `Machine` are the program and not an idea of it, 346 of
these programs, with and without the deviations, were written out as source and run
by the interpreter built from this tree: what they print is what the model sees, in
all 346.

Four more, noticed while modelling and shown by no run of the project:

* **Terminator flag** (`object_string.c:353`).  Appending `""` to a view makes a
  second view that ends at the same byte.  A later append through one overwrites
  the terminator of both and flags one.  The other's `chars` is then not terminated
  where C callers expect it.
* **Return kind read too late** (`jit_entry.c:130`).  `jitResultOut` rebuilds what a
  compiled body returned from `fn->jitReturnKind` as it is after the body ran.  If
  the body was called again from inside meanwhile, through the interpreter,
  `jitRecompileBlocked` or `polyParamDecline` may have installed a form with another
  return kind: a bare integer is then read as an instance, or, where the new form
  returns any kind, as null, since the old one sends no tag.  `Tier` does so too:
  `f` writes, calls `h`, counts its argument down, returning it at zero, and else returns
  what `g` gives, an instance; `h` calls `g` and then `f` before it returns.  `f` is
  compiled up to its call of `g`, and again and whole by the call `h` makes of it from
  inside; the outer activation, in the old form, returns its integer, and the script
  is given null.  `TypeOK` holds even then, since null is a value a caller can
  carry; `SameTrace` does not.
* **A self-call typed too early** (`jit_body_call.c:626`).  What a body's call of itself
  leaves is given the kind and the shape of the returns met so far, with no class
  beside it.  A later return of another class zeroes the form's `returnShape`
  (`jit_body_return.c:49`) and neither refuses the body nor takes back what was pushed.
  `directCallArgsMatch` reads that shape alone, and `mergeReturnKind` merges it: the value
  goes by a branch, past the only check there is, into a form specialised for a class it
  may not be of.  `Tier` does so too (`Taken`, `Shape`).  `g` returns its argument, an `A`,
  when that is down to zero, else calls itself, calls `h` with what comes back, and returns
  a `B`; `h` reads a field of an `A` and is compiled for one.  Called two deep, `h` is
  entered with the inner call's `B`.  Without their premise `ShapesStand` TLC finds
  `TypeOK` and `SameTrace` violated by this program, which is one of the run's
  (`ShapeBodies`).
* **A name bound again mid-body** (`jit_entry.c:491`).  Callees are baked by value and
  compared once, at entry ("one comparison covers it").  A compiled body that calls
  something that binds a name again goes on calling the old function until it
  returns; `jit_global.c:1140` says so of the version test: it "only retires that form
  at its next ENTRY, not mid-body".

The stress counter, documented as counting allocations, is turned by loop
safepoints too (`gc.c:685`): stress collections come early, never late, which is
what `StressReaches` says.

## 5. What is proved

All theorems hold for every value of the constants under the assumptions named in
the modules (`GcAssumption`, `TriggerAssumption`, `PageAssumption`, `ThreadsAssumption`,
`ImportAssumption`, `StrBufAssumption`, `TableAssumption`, `TierAssumption`,
`ProgramsAssumption`);
TLC evaluates those in the runs.

* **Gc_proofs.**  `NothingReachableFreed`, `WeakHoldersSound`, `ColoursSound`,
  `TypeCorrect`, `CollectionsAdvance`, `CollectorImplementsHeap`, `CollectionsExact`.  That reachable objects are
  allocated is not inductive: during a sweep some unreachable objects are freed
  and others not yet, and reachability is a fixed point that an SMT solver cannot
  unfold.  `Inv` replaces it by closure.  `Live` is what a sweep under way will
  leave; `HeapClosed` says that roots lie in `Live` and that references of `Live`
  lead into `Live`; `WeakClosed` the same of the weak holders, and that no native
  keeps a local across a collection; `TriColor` is why the state at the end of
  the trace makes the marked set closed.  Reachability enters once, by the lemma
  that a closed set containing the roots contains all that is reachable.  Refinement
  follows: of all steps only the sweep removes objects, and what it removes is
  outside `Live`.
  `CollectExact` needs the other direction: `MarksReached` says that what the
  collection under way has marked can be reached, the cleared weak holders and the
  dead included; nothing is said of marks between collections, which outlive the
  references that caused them.  Reachability is the least closed set, so no path is
  followed: what holds a reference to an object of it keeps it closed, and a sweep that
  frees nothing of it leaves it the least.
  Of `GcTrigger`, in the same module, every property of `gc_trigger`, and more: the cached
  limit never lags (`LimitInSync`) and nothing is collected under a pause
  (`PauseHolds`).  The invariant adds
  whose a pause is (`PauseOwned`), the floor of the threshold (`Thresholds`,
  with the distributivity step of the growth factor made explicit), and that
  under stress the counter runs at least as fast as the allocations (`Paced`).
* **StrBuf_proofs.**  `StringsImmutable`, `AppendsInBounds`, `StrBufTyped`.  The
  invariant says what each view shows is written and that the used part of a
  buffer covers every view.
* **Threads_proofs.**  `ThreadsTyped`, `WorkersKeepTheirTask`, `OwnersUnique`,
  `JoinsDeliver`, `ReapingComplete`, for any number of tasks, mutexes and cells.
  `OneOwner` is the heart of the invariant `ThInv`, but does not carry itself: a
  release must know that the handle a join was given still names the task it
  waits for (`Calls`, since nothing else runs on the VM thread meanwhile), a
  free that the worker is past its last access (`Phased`, which ties the flag and
  the result to where the worker is), and a finished reaping that
  what it has walked over was not due (`Scanned`).

* **PageSpace_proofs.**  `TypeCorrect`, `Separate` (`NoOverlap`), `FinalizesDead` and
  `GrowsWhenFull`, for any classes, pages and words.  That blocks do not overlap does
  not carry itself: `Inv` adds where each cursor has been.  Behind it every block is an
  object or still to be popped (`BehindOK`), ahead of it only what survived the last
  collection is one (`AheadOK`), what it holds ready is free (`PendingOK`); lists name a
  page once (`ListsOK`); the in-use bits of a finalizing page are its objects and what
  was handed out of its current word (`InUseOK`).  `FinalizesDead` and `GrowsWhenFull` follow
  step by step.  `PageAssumption` asks that a page holds at least one block of each
  class: without it `newPage` would be called for ever for nothing.
  `HeapIsExact`: the bytes charged are those of the objects and of
  the blocks handed out, for any number of classes.  Its invariant, `ChargesOK`, says per
  class that objects and blocks handed out but not popped are as many as the blocks
  live at the last collection and those handed out since.
* **Import_proofs.**  `TypeCorrect`, `OneCallLoads` (`LoadingOnStack`), `SourceRuns`
  (`RunsSource`), `FrontEndTogether` (`OneFrontEnd`) and `ModulesStay` (`LoadedStays`), for any
  modules, imports between them and limit on nesting.  `OneLoad` carries the first.
  `RunsSource` rests on `Places` and `InWindow`: while the flag is up, which is only under a
  window, what is about to run is recorded as windowed.  `OneFrontEnd` rests on
  closure again: what a frame asked for is there, above it or has failed (`Asked`), a
  loaded module of the front end has what it imports (`LoadedClosed`), so that what is
  there when a window closes is all of `Reached` (`AllArrived`).  `ModulesStay` needs
  `WarmedFor`, that no module is warmed up for that is already published below.
* **Machine_proofs.**  `DefersRunOnce` (`DefersOnce`): each block registered waits or has
  run, once, and none waits when the program is over.  `Machine` takes its code from a
  constant, so this holds for any code, compiled by `Emit` or not, verified or not:
  `Loader` is where the recursion over syntax is, and only the runs need it.  A `return`
  truncates `vm.defers` to the frame's base after its blocks have run; that nothing is
  lost there is `Stretched` (the frames' stretches follow one another and the last ends
  where the list does), and that there is a frame at all to be left, unwound or to run
  blocks of is `Stacked` (how runs, natives, `runFrameDefers` and deferred blocks nest on
  the C stack, each run with a frame above its base).  `IdsOK` is the count itself.

  `DepthsAsVerified`: at each instruction the operand stack is as deep
  as `jaiVerifyChunk` computed (`DepthAsVerified`), for any programs.  Its premise,
  `CodeOK`, has two parts.  `Agrees` says what the verifier establishes as a property of
  each instruction and its neighbours, without the work list: depths agree along every
  edge, a registered handler has the depth of its `PUSH`, what is called or deferred is
  a function; beyond the verifier it asks only that a `TAIL_CALL` is followed by an
  instruction, as the compiler has it.  The other part is about exception tables, of which
  the verifier says nothing sure: it gives their targets depth 0 unless an edge or a
  `PUSH` has given them another, and the target of the entry of a `finally` inside a `for`
  is at depth 1 (`verify.c:671`), while the unwinder enters every one with an empty
  operand stack.  No harm comes of it, because `PUSH_FINALLY` has opened a handler
  wherever such an entry covers, and open handlers are looked for first.  So
  `Guards` asks for a count of the handlers open at each instruction, at the least
  (`CountsOpen`), by which each entry is either met with none open at depth 0, in a
  function (`Taken`), or covered by an open one throughout (`Shadowed`).  That is so of
  all the compiler makes but a deferred block with a catch of its own, the finding at
  `vm_except.c:440`, where the handler restores the stack to the wrong height.
  `CodeAsVerified` in `MCMachine` has TLC evaluate `Agrees` on all verified code of the
  programs of the runs and of others with a `finally` in a loop, in a `finally`, around
  tries and jumps, and the count on all of it but those blocks.
  The depth does not carry itself, since a step can go on in a frame suspended long
  before.  `DepthInv` adds where the stack of each frame starts (`FrameHeld`; for a
  deferred block its own base and not the window of the definer it reads), that what
  lies above a suspended frame starts where the frame expects the stack to end
  (`Awaited`), that the height a handler restores is the depth of its target, in the
  frame whose stretch of `vm.handlers` it lies in (`Owned`), and that what a `return`
  or a tail call carries across deferred blocks is still a value that can be called
  (`Values`).  It is inductive beside `DefersInv` and `CoverInv`: each frame has as many
  handlers open as are counted where it stands, or stood when it called, each handler
  has as many below it as are counted at its target, and all of them catch whatever is
  thrown.  A frame in which the unwinder finds no handler and comes to the
  exception table thus stands where none is counted, in no shadowed entry (`Emptied`).

  `ControlFollowsGraph` (`FollowsCfg`) says the same of the graph `jaiChunkCfg` makes.
  Its second premise, `GraphsOK`, is again a property of each instruction: what falls
  through stays in its block or has an edge, a branch has one, and first instructions,
  registered targets and handlers of the table have a place in the graph's order;
  `CodeAsVerified` evaluates it for every program whose functions were verified.
  `GraphInv` adds to `DepthInv` that a waiting handler is entered at a block of the
  function of its frame.  A tail call of a function by itself moves control within
  one frame without an edge, to the first block; the property allows for that, and
  the program above makes the run meet it.
* **Table_proofs.**  `TypeCorrect`, `AlwaysConsistent` (`Consistent`), `Refines`
  (`RefinesMap`) and `KeepsSlotsPinned` (`SlotsPinned`), for any keys, values, hash,
  initial capacity that is a power of two, and tables merged.  `Consistent` does not
  carry itself: that a rehash or a tombstone reused loses nothing needs that every slot
  on the way from a key's hash to its entry has been used (`Reached`), that no key has
  two entries (`Keyed`) and that the places of live entries in `order` are all
  different (`Placed`); that a probe ends, that the counters leave an empty slot
  (`Counted`) and that doubling and `capacityFor` stay within the powers of two
  (`Masked`).  The refinement is proved by counting: the n-th pair of the map is the
  one in the slot of the n-th place of `order` that is no hole (`OrderIs`, `ListingIs`), which each
  operation changes in a known way (`AddsListed`, `DropsListed`).  The loops of
  `adjustCapacity` and `jaiTableAddAll` are recursive functions, shown to exist and
  followed turn by turn by a least counterexample (`InductiveTo`).  `SlotsPinned` rests
  on `LaterDiffers`: one operation counts `keyVersion` up at most `capacity` times, so
  it cannot come round to where it was.

  `TraversalsExact` (`TraversalExact`): a traversal that ends without raising has
  produced the pairs of its beginning, in order, each once.  `IterInv` adds to the
  table's invariant that `version` is the iterator's and `writes` more, and while
  `writes` is 0, that the listing is still the one of the beginning and what came is as
  much of it as lies up to the position (`Going`, `Passed`).  A step finds the next pair
  because the n-th place of `order` that is no hole is the n-th pair (`NextPlace`).  That
  a write is noticed rests on every operation either leaving listing and `order` alone
  or counting `version` up by less than 2^32 (`Told`): a rehash that changes
  no pair is told too, since it moves positions.  After 2^32 counts inside one loop
  the version would be the old one again, and the property says so.
  `UnderTraversal`: whatever holds of the table holds while it is traversed, which
  `TraversedTyped`, `TraversedConsistent`, `TraversedRefines` and `TraversedPinned`
  say of the four properties the run checks under `IterSpec`.
* **Tier_proofs.**  `TypeCorrect`, `NoWriteKept` (`NoWriteHonest`) and `Current`
  (`CallsCurrent`), for any programs in the sense of `ProgramsAssumption` and any thresholds,
  budgets and limits.  None of the three carries itself.  `IInv`
  (`Invariant`) says first what a form is worth: each
  operation before its stopping point is one the walk speaks, and hands on the kind
  it leaves (`Spoken`); what leaves it does so with a kind the form claims to return
  (`ReturnsAs`); a branch goes to a form that takes, returns and writes what the site
  says (`DirectOK`).  It says then how activations lie on each other (`StackIn`): a
  compiled caller waits at a site that calls what runs above it, so that, while
  `ShapesStand`, a bare register holds the kind the caller was compiled for, and below an
  activation whose form writes nothing only such forms are running.  `deopt`, `answer` and `pending` are in it
  too: what the one deopt record names is the body that has just left.

  What `Compile` makes is a fold over the body, followed operation by operation
  (`Walked`), with induction on how far it has got.  Each action is then shown to be one of
  few things to the forms there are (`CodeOK`), to the stack and to the call on its
  way in.  `NoWriteKept` is where direct calls, inlined bodies and
  calls of itself meet: the claim is made when a body is compiled, from the
  claims of the forms it branches to, and must survive all of them being replaced.

  `Current` has a premise, `OnlyScriptBinds`, which some programs do not meet: the code
  compares the version of the bindings at entry only (`jit_entry.c:491`, Findings), and
  a body that binds a name while it runs is then not current.
  The proof needs a set of forms that no variable holds, those that
  may run (`Upheld`): those the tier would enter now, those that do run, and those that
  they branch to.  It grows while the bindings stand, and may be empty again once one
  changes, because nothing compiled is under way then.

  `IInv` and the invariant of `Current` were checked by TLC on part of the programs of the run
  before they were proved.

The proofs also cover properties that no run checks, because a stronger or
composed one does (`TriColor`, `NoRatchet`, `StressReaches`, `Reaped`) or because
the theorem says all a run would say: `CollectionAdvances`, `BudgetKept`,
`ViewsWithin`, and the type invariants of `GcTrigger` and `Threads`.

Only model-checked: `CallsReturn`, `DetachedFreed` and `Terminates` (liveness),
of `Machine` `TypeOK` and `TraceAgrees`, and of `Tier` `SameTrace`.  `HandlersOwned` in
`TypeOK` says that the height a handler restores is one the stack has reached; it need
not be one it still has, since a `try` with a `finally` in a loop leaves a handler behind
at each turn (Findings).  `SameTrace` is not true of all programs (the last three of
Findings), and which
programs it is true of is a matter of what calls what in which order.  `Emit`, `Verify`
and `Meaning` are recursive over syntax and work lists, where an induction over data
would be needed that the library's theorems, which take a predicate as a parameter,
cannot give here; their instances are programs, and larger instances are more
programs.  Induction over numbers is done by hand, from the least element of a set of
them.

## 6. Running

```
tlc -workers 2 -config MCGc.cfg MCGc.tla
tlapm Gc_proofs.tla
```

On two cores the longest run (`gc`) takes under four minutes, the others two or less;
each proof module takes between one and twenty minutes.

## 7. Not modelled

*Inside the modelled components*: the content of formatting and hashing, allocation
of arrays behind lists and tables (only their bytes count), the mapping and unmapping
of the page range, user-defined equality inside a probe, the locking of a mutex and
the arithmetic of an atomic cell (a worker is given a byte buffer and nothing else,
so only the VM thread ever uses either), the bytes of that buffer, `pthread_join`
failing on a live thread, how long the
pointer of `jaiStringCStr` may be kept; of module loading the search path, files
that cannot be read, and `check`, which runs no bodies; of the machine locals,
captured variables, `range` and `while` loops, the limits on frames and re-entry,
tracebacks, `HALT`, the optimiser and the depths the verifier gives up on
(`approx`); inline caches.

Of the compiled tier: the compiled loops (OSR), method calls and their
polymorphic caches, tail calls, calls into other modules and natives, nullable and opaque
parameters, inlined bodies with loops, sunk instances, range analysis and vectors,
branches other than an early return; the bodies that get a fixed entry of their own
without a walk (`compileReturnNull`, `compileAccessor`); the retry of a whole body with
inlining off (`noInline`), where the model gives up inlining at the one site that cannot
be; and the emission itself (30k lines that print
arm64 instructions: what they mean is a matter of the machine).

*Components*: builtins (21k lines of operations on data), platform code, the parallel
loops, the front of the compiler, the library and the packages, whose correctness
is about data and would only be transliterated; CLI, editor support, tests and
scripts.  This is also why the models stand for a few percent of the lines: two
thirds of the C is machine-code emission and data operations without a protocol.

## 8. Plan

1. *Compiled loops.*  `jit_osr.c` at the same level as `Tier`: entry in the middle of
   a body, several forms per function, exits into handlers.
2. *Composition.*  `Gc` with `PageSpace`: marking decides what pages keep.  `Machine`
   with `Gc`: what a deferred block may collect while a value is being returned, and
   `Tier` with `Gc`: what compiled frames keep alive.
3. *Answers.*  Which programs `SameTrace` holds of: those in which no form is replaced
   while it runs by one that returns another kind, no name bound again under a
   form that calls it, and no self-call typed by a return that is taken back.
