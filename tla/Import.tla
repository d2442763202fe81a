------------------------------ MODULE Import ------------------------------
(***************************************************************************)
(* Importing modules: src/src/runtime/modules/module.c.                     *)
(*                                                                          *)
(* jaiImportModule publishes a module as MOD_LOADING, gets its body from    *)
(* __jaicache__, from the seed built into the binary or from the compiler,  *)
(* and runs it, which imports others.  The compiler is itself a set of      *)
(* modules: while it is being imported (the window, sLoadingFrontEnd) what  *)
(* it needs comes from the seed, whatever the source beside it says.        *)
(*                                                                          *)
(* The stack holds the calls of jaiImportModule and the windows under way.  *)
(* What lasts from one process to the next are the cache files and the      *)
(* sources, which the user edits in between.                                *)
(***************************************************************************)
EXTENDS Naturals, Sequences, FiniteSets

CONSTANTS
  User,      \* modules that are not in the seed: the program's, std.core, ...
  Entry,     \* what `run` is given
  Library,   \* modules of lib/std in the seed
  FrontEnd,  \* modules of lib/jaithon in the seed
  Compiler,  \* jaithon.compile
  Prelude,   \* std.prelude, if it is not disabled
  Uses,      \* [Module -> SUBSET Module]: the imports of a body
  Edited,    \* the modules the user edits
  MaxDepth   \* JAI_MAX_IMPORT_DEPTH: 64

Module == User \union Library \union FrontEnd
Seeded == Library \union FrontEnd

\* The seed is closed under imports (scripts/gate/seed_closure_check.py) and
\* lib/std does not import lib/jaithon.
ASSUME ImportAssumption ==
  /\ User \intersect Seeded = {} /\ Library \intersect FrontEnd = {}
  /\ Entry \subseteq Module /\ Compiler \in FrontEnd /\ Prelude \subseteq User
  /\ Uses \in [Module -> SUBSET Module]
  /\ \A m \in Library : Uses[m] \subseteq Library
  /\ \A m \in FrontEnd : Uses[m] \subseteq Seeded
  /\ Edited \subseteq Module
  /\ MaxDepth \in Nat \ {0}

VARIABLES
  cache,    \* [Module -> {"none", "good", "stale"}]: its __jaicache__ file
  newer,    \* the seeded modules whose source is not the one in the seed
  state,    \* vm.modules; "absent": not in it
  loading,  \* sLoadingFrontEnd
  warmed,   \* sFrontEndWarmed
  stack,    \* calls under way: [mod, at, todo, was]
  ret,      \* what the call that has just returned came to
  code,     \* history: [Module -> {"none", "current", "old"}], the body it got
  windowed, \* history: the modules published inside the window
  broken    \* history: a window has closed without the compiler

disk == <<cache, newer>>
flags == <<loading, warmed>>
history == <<code, windowed, broken>>
vars == <<disk, state, flags, stack, ret, history>>

Absent == [m \in Module |-> "absent"]

Init ==
  /\ cache = [m \in Module |-> "none"] /\ newer = {}
  /\ state = Absent
  /\ loading = FALSE /\ warmed = FALSE
  /\ stack = <<>> /\ ret = "none"
  /\ code = [m \in Module |-> "none"] /\ windowed = {} /\ broken = FALSE

-----------------------------------------------------------------------------
(* Frames.                                                                 *)

\* at: "prelude"   jaiRunFile, before its module is published
\*     "warming"   in warmFrontEnd, its module not yet published
\*     "load"      published, in loadModuleBody
\*     "compile"   in selfHostedImage
\*     "body"      its body runs
\*     "main"      jaiRunFile in callMain
\*     "eval"      jaiImportFrontEndModule
\* todo: what it may still import; was: sLoadingFrontEnd when it opened a window.
Frame(m, at, todo) == [mod |-> m, at |-> at, todo |-> todo, was |-> loading]

Top == stack[Len(stack)]
IsEntry == Len(stack) = 1
Rest == SubSeq(stack, 1, Len(stack) - 1)
Replaced(f) == Append(Rest, f)

Windows == {"warming", "compile", "eval"}
Published == {"load", "compile", "body"}
\* sImportStack.count
Depth == Cardinality({i \in DOMAIN stack : stack[i].at \in Published})
\* (slip: one too many)
TooDeepByOne == Depth > MaxDepth
TooDeep == Depth >= MaxDepth

\* What a call of jaiImportModule, or of jaiRunFile, leaves to its caller.
Return(r) == stack' = Rest /\ ret' = r

\* A new call waits for nothing to be read.
Ready == stack # <<>> /\ ret = "none"

-----------------------------------------------------------------------------
(* Where a body comes from.                                                *)

\* The library is served from the seed as a unit or not at all.
SeedLibraryIntact == newer \intersect Library = {}
\* (slip: the source is not compared)
StandsInAnyway(m) == m \in Library
\* seedStandsInFor
SeedStandsIn(m) == m \in Library /\ SeedLibraryIntact

\* prefetchedFlagsMatch reads the header of the file, which says nothing of the source.
CacheLoadable(m) == cache[m] # "none"

\* (slip: the front end's own modules get no special treatment)
ShouldWarmOnMiss(m, entry) ==
  /\ ~loading /\ ~warmed
  /\ ~CacheLoadable(m) /\ (entry \/ ~SeedStandsIn(m))
\* maybeWarmFor
ShouldWarm(m, entry) ==
  /\ ~loading /\ ~warmed
  /\ m \in FrontEnd \/ (~CacheLoadable(m) /\ (entry \/ ~SeedStandsIn(m)))

\* createModule, and the push on sImportStack.
Publish(m, below) ==
  /\ state' = [state EXCEPT ![m] = "loading"]
  /\ code' = [code EXCEPT ![m] = "none"]
  /\ windowed' = IF loading' THEN windowed \union {m} ELSE windowed \ {m}
  /\ stack' = Append(below, Frame(m, "load", {}))

\* warmFrontEnd, up to its import of the compiler.
Warm(m, below) ==
  /\ loading' = TRUE /\ warmed' = TRUE
  /\ stack' = Append(below, Frame(m, "warming", {Compiler}))

-----------------------------------------------------------------------------
(* jaiImportModule.                                                        *)

\* The frame on top imports m; what it has still to import is `below`.
Imports(m) == Ready /\ m \in Top.todo
Below(m) == Replaced([Top EXCEPT !.todo = @ \ {m}])

ImportLoaded(m) ==
  /\ Imports(m) /\ state[m] = "loaded"
  /\ stack' = Below(m) /\ ret' = "ok"
  /\ UNCHANGED <<disk, state, flags, history>>

\* E0801
ReportCycle(m) ==
  /\ Imports(m) /\ state[m] = "loading"
  /\ stack' = Below(m) /\ ret' = "fail"
  /\ UNCHANGED <<disk, state, flags, history>>

ImportTooDeep(m) ==
  /\ Imports(m) /\ state[m] = "absent" /\ TooDeep
  /\ stack' = Below(m) /\ ret' = "fail"
  /\ UNCHANGED <<disk, state, flags, history>>

\* The front end is loaded before the module that needs it is published ...
ImportWarm(m) ==
  /\ Imports(m) /\ state[m] = "absent" /\ ~TooDeep
  /\ ShouldWarm(m, FALSE)
  /\ Warm(m, Below(m))
  /\ UNCHANGED <<disk, state, ret, history>>

\* ... or is not needed.
ImportPublish(m) ==
  /\ Imports(m) /\ state[m] = "absent" /\ ~TooDeep
  /\ ~ShouldWarm(m, FALSE)
  /\ UNCHANGED flags
  /\ Publish(m, Below(m))
  /\ UNCHANGED <<disk, ret, broken>>

\* (slip: the module is not looked up again after the warm)
SatisfiedNever(m) == FALSE
Satisfied(m) == state[m] = "loaded"

\* The window is over: warmFrontEnd clears what went wrong in it.  The module
\* may be one the front end has loaded, which jaiRunFile does not look for.
WarmEnd ==
  /\ stack # <<>> /\ Top.at = "warming" /\ Top.todo = {} /\ ret # "none"
  /\ loading' = FALSE
  /\ broken' = (broken \/ ret = "fail")
  /\ IF ~IsEntry /\ Satisfied(Top.mod)
     THEN Return("ok") /\ UNCHANGED <<state, code, windowed>>
     ELSE Publish(Top.mod, Rest) /\ ret' = "none"
  /\ UNCHANGED <<disk, warmed>>

-----------------------------------------------------------------------------
(* loadModuleBody and selfHostedModuleBody.                                *)

RunBody(m, c) ==
  /\ code' = [code EXCEPT ![m] = c]
  /\ stack' = Replaced(Frame(m, "body", Uses[m]))

Loads(m) == Ready /\ Top.at = "load" /\ Top.mod = m

\* jaiDeserializeCached compares the hash of the source.
Hit(m) == cache[m] = "good"

LoadCached(m) ==
  /\ Loads(m) /\ Hit(m)
  /\ RunBody(m, IF cache[m] = "good" THEN "current" ELSE "old")
  /\ UNCHANGED <<disk, state, flags, ret, windowed, broken>>

\* A module in the seed, within the window whatever its source says.
LoadSeed(m) ==
  /\ Loads(m) /\ ~Hit(m)
  /\ IF loading THEN m \in Seeded ELSE ~IsEntry /\ SeedStandsIn(m)
  /\ RunBody(m, IF m \in newer THEN "old" ELSE "current")
  /\ UNCHANGED <<disk, state, flags, ret, windowed, broken>>

\* selfHostedImage imports the compiler, in a window.
Compile(m) ==
  /\ Loads(m) /\ ~Hit(m) /\ ~loading /\ (IsEntry \/ ~SeedStandsIn(m))
  /\ stack' = Replaced(Frame(m, "compile", {Compiler}))
  /\ loading' = TRUE
  /\ UNCHANGED <<disk, state, warmed, ret, history>>

\* ... and compiles the source, which may be in error.
Compiled ==
  /\ stack # <<>> /\ Top.at = "compile" /\ ret = "ok"
  /\ loading' = Top.was
  /\ cache' = [cache EXCEPT ![Top.mod] = "good"]
  /\ RunBody(Top.mod, "current")
  /\ ret' = "none"
  /\ UNCHANGED <<newer, state, warmed, windowed, broken>>

-----------------------------------------------------------------------------
(* Failure, the body and the end.                                          *)

\* The process is over.
Exit ==
  /\ state' = Absent /\ loading' = FALSE /\ warmed' = FALSE
  /\ stack' = <<>> /\ ret' = "none"
  /\ code' = [m \in Module |-> "none"] /\ windowed' = {} /\ broken' = FALSE

\* (slip: forgetModule is not called)
NotForgotten(m) == state
Forgotten(m) == [state EXCEPT ![m] = "absent"]

\* jaiImportModule gives up the module on top; jaiRunFile gives up.
GiveUp ==
  IF IsEntry THEN Exit
  ELSE /\ state' = Forgotten(Top.mod)
       /\ Return("fail")
       /\ UNCHANGED <<warmed, code, windowed>>

CompileFailed ==
  /\ stack # <<>> /\ Top.at = "compile"
  /\ ret = "fail" \/ (ret = "ok" /\ Top.mod \in User \union newer)
  /\ IF IsEntry THEN GiveUp
     ELSE GiveUp /\ loading' = Top.was /\ broken' = (broken \/ ret = "fail")
  /\ UNCHANGED disk

\* An import that failed raises ImportError in the body, which user code may
\* catch; user code may raise on its own.
Raise ==
  /\ stack # <<>> /\ Top.at = "body"
  /\ ret = "fail" \/ (ret = "none" /\ Top.mod \in User)
  /\ IF IsEntry THEN GiveUp ELSE GiveUp /\ UNCHANGED <<loading, broken>>
  /\ UNCHANGED disk

GoOn ==
  /\ stack # <<>> /\ Top.at \in {"prelude", "body", "main"}
  /\ ret = "ok" \/ (ret = "fail" /\ (Top.at = "prelude" \/ Top.mod \in User))
  /\ ret' = "none"
  /\ UNCHANGED <<disk, state, flags, stack, history>>

BodyEnd ==
  /\ Ready /\ Top.at = "body"
  /\ Top.todo = {} \/ Top.mod \in User
  /\ state' = [state EXCEPT ![Top.mod] = "loaded"]
  /\ IF IsEntry THEN stack' = Replaced([Top EXCEPT !.at = "main"]) /\ UNCHANGED ret
                ELSE Return("ok")
  /\ UNCHANGED <<disk, flags, history>>

\* eval of a source text, by user code.
Eval ==
  /\ Ready /\ Top.at \in {"body", "main"} /\ Top.mod \in User
  /\ stack' = Append(stack, Frame(Top.mod, "eval", {Compiler}))
  /\ loading' = TRUE
  /\ UNCHANGED <<disk, state, warmed, ret, history>>

EvalEnd ==
  /\ stack # <<>> /\ Top.at = "eval" /\ ret # "none"
  /\ loading' = Top.was
  /\ broken' = (broken \/ ret = "fail")
  /\ Return(ret)
  /\ UNCHANGED <<disk, state, warmed, code, windowed>>

-----------------------------------------------------------------------------
(* jaiRunFile, and what the user does between processes.                   *)

RunFile(m) ==
  /\ stack = <<>>
  /\ stack' = <<Frame(m, "prelude", Prelude)>>
  /\ UNCHANGED <<disk, state, flags, ret, history>>

EntryWarm ==
  /\ Ready /\ Top.at = "prelude" /\ Top.todo = {}
  /\ ShouldWarm(Top.mod, TRUE)
  /\ Warm(Top.mod, Rest)
  /\ UNCHANGED <<disk, state, ret, history>>

EntryPublish ==
  /\ Ready /\ Top.at = "prelude" /\ Top.todo = {}
  /\ ~ShouldWarm(Top.mod, TRUE)
  /\ UNCHANGED flags
  /\ Publish(Top.mod, Rest)
  /\ UNCHANGED <<disk, ret, broken>>

MainEnd ==
  /\ Ready /\ Top.at = "main"
  /\ Exit
  /\ UNCHANGED disk

Between == stack = <<>> /\ UNCHANGED <<state, flags, stack, ret, history>>

Outdated(S) == [m \in Module |-> IF m \in S /\ cache[m] = "good" THEN "stale" ELSE cache[m]]

\* A source changes: to something new, or back to what the seed was built from.
Edit(m) ==
  /\ Between
  /\ cache' = Outdated({m})
  /\ newer' \in IF m \in Seeded THEN {newer \union {m}, newer \ {m}} ELSE {newer}

\* A new binary: no cache file carries its build id.
Rebuild ==
  /\ Between
  /\ cache' = Outdated(Module) /\ UNCHANGED newer

Next ==
  \/ \E m \in Module : \/ ImportLoaded(m) \/ ReportCycle(m) \/ ImportTooDeep(m)
                        \/ ImportWarm(m) \/ ImportPublish(m)
                        \/ LoadCached(m) \/ LoadSeed(m) \/ Compile(m)
  \/ WarmEnd \/ Compiled \/ CompileFailed
  \/ Raise \/ GoOn \/ BodyEnd \/ Eval \/ EvalEnd
  \/ \E m \in Entry : RunFile(m)
  \/ EntryWarm \/ EntryPublish \/ MainEnd
  \/ \E m \in Edited : Edit(m)
  \/ Rebuild

Spec == Init /\ [][Next]_vars

-----------------------------------------------------------------------------
TypeOK ==
  /\ cache \in [Module -> {"none", "good", "stale"}] /\ newer \subseteq Seeded
  /\ state \in [Module -> {"absent", "loading", "loaded"}]
  /\ loading \in BOOLEAN /\ warmed \in BOOLEAN /\ broken \in BOOLEAN
  /\ stack \in Seq([mod : Module, todo : SUBSET Module, was : BOOLEAN,
                    at : Windows \union Published \union {"prelude", "main"}])
  /\ Depth <= MaxDepth
  /\ ret \in {"none", "ok", "fail"}
  /\ code \in [Module -> {"none", "current", "old"}] /\ windowed \subseteq Module

\* A module that has been imported stays the one its importers hold: no path is
\* given a second module object while the process lasts, whatever loads the
\* compiler in between.  (The file that is run is __main__, under its own path.)
LoadedStays ==
  [][\A m \in Module :
       state[m] = "loaded" /\ stack' # <<>> /\ m # stack'[1].mod => state'[m] = "loaded"]_vars

\* The calls that have published m.
CallsOf(m) == {i \in DOMAIN stack : stack[i].mod = m /\ stack[i].at \in Published}

\* A module is being loaded exactly while one call is at it: a failure anywhere
\* leaves none behind that later imports would take for a cycle.
LoadingOnStack ==
  \A m \in Module :
    Cardinality(CallsOf(m)) = IF state[m] = "loading" THEN 1 ELSE 0

\* Outside the window no module runs anything but its source as it is now.
RunsSource == \A m \in Module \ windowed : code[m] # "old"

\* The modules the compiler is made of: what every set that holds it and the
\* imports of its members has.  (jaithon.compile.repl, the prompt's, is not one.)
Closed(S) == \A m \in S : Uses[m] \subseteq S
Reached == {m \in FrontEnd : \A S \in SUBSET Module : Compiler \in S /\ Closed(S) => m \in S}

\* The front end arrives as one set: as long as no window failed, each of its
\* modules that is loaded came through the window (but for the file that is run).
OneFrontEnd ==
  stack # <<>> /\ ~broken =>
    \A m \in Reached \ {stack[1].mod} : state[m] = "loaded" => m \in windowed

\* What module.c says of warming before a module is published: the compiler's
\* own imports never find a module half loaded.  A cycle that is reported is one
\* the program's modules make among themselves.
NoFalseCycle ==
  [][\A m \in Module : ReportCycle(m) =>
       \A i \in DOMAIN stack : stack[i].at \in Windows =>
          \E j \in i .. Len(stack) : stack[j].mod = m /\ stack[j].at \in {"load", "body"}]_vars

-----------------------------------------------------------------------------
(* The inductive invariant.                                                *)

\* No process runs.
Idle ==
  stack = <<>> => /\ state = Absent /\ ~loading /\ ~warmed /\ ~broken /\ ret = "none"
                  /\ windowed = {}

\* A module is loading exactly while one call has published it.
OneLoad ==
  \A m \in Module : IF state[m] = "loading" THEN \E i \in DOMAIN stack : CallsOf(m) = {i}
                                            ELSE CallsOf(m) = {}

\* Where in the stack a call may be: the entry at the bottom, an `eval` above
\* user code, a module that has only been published on top.
Places ==
  \A i \in DOMAIN stack :
    /\ stack[i].at \in {"prelude", "main"} => i = 1
    /\ stack[i].at = "main" => state[stack[i].mod] = "loaded"
    /\ stack[i].at = "eval" =>
         i > 1 /\ stack[i - 1].at \in {"body", "main"} /\ stack[i - 1].mod \in User
    /\ stack[i].at = "load" =>
         i = Len(stack) /\ stack[i].todo = {} /\ (loading => stack[i].mod \in windowed)

\* A module the front end is warmed for has not been published below, and there
\* is room to publish it.
PublishedBelow(i) == {j \in DOMAIN stack : j < i /\ stack[j].at \in Published}
WarmedFor ==
  \A i \in DOMAIN stack : stack[i].at = "warming" =>
    /\ Cardinality(PublishedBelow(i)) < MaxDepth
    /\ \A j \in 1 .. i - 1 :
         stack[j].at \in Published \union {"main"} => stack[j].mod # stack[i].mod

\* The flag is up only in a window, and a window puts it back for one below.
InWindow ==
  /\ loading => \E i \in DOMAIN stack : stack[i].at \in Windows
  /\ \A i \in DOMAIN stack : stack[i].at \in Windows /\ stack[i].was =>
       \E j \in 1 .. i - 1 : stack[j].at \in Windows

\* The entry has been published; a module is there, loaded or as the entry.
Entered == stack # <<>> /\ stack[1].at \notin {"prelude", "warming"}
Has(m) == state[m] = "loaded" \/ (Entered /\ m = stack[1].mod)

\* The modules of the front end that have to be there when a call succeeds.
Owes(f) == IF f.at \in Windows THEN {Compiler}
           ELSE IF f.at = "body" /\ f.mod \in FrontEnd THEN Uses[f.mod] \intersect FrontEnd
           ELSE {}
\* What a call has asked for is there, is being imported or has failed.
Asked ==
  \A i \in DOMAIN stack : \A x \in Owes(stack[i]) \ stack[i].todo :
    \/ Has(x)
    \/ i < Len(stack) /\ stack[i + 1].mod = x
    \/ i = Len(stack) /\ ret = "fail"

\* All a window imports is the compiler, and an answer is to that.
WindowImports ==
  \A i \in DOMAIN stack : stack[i].at \in Windows =>
    /\ stack[i].todo \subseteq {Compiler}
    /\ i < Len(stack) \/ ret # "none" => stack[i].todo = {}

\* A module of the front end that is loaded has what it imports.
LoadedClosed == \A m \in FrontEnd : state[m] = "loaded" =>
                  \A x \in Uses[m] \intersect FrontEnd : Has(x)

\* Once the window has closed, and before a file of the front end itself is
\* run, the whole of it is there.
Arrived == \A m \in Reached : Has(m)
AllArrived ==
  ~broken => /\ warmed /\ ~loading => Arrived
             /\ Entered /\ stack[1].mod \in FrontEnd => Arrived

CameWindowed ==
  stack # <<>> /\ ~broken =>
    \A m \in Reached \ {stack[1].mod} : state[m] # "absent" => m \in windowed

Inv == /\ TypeOK /\ Idle /\ OneLoad /\ Places /\ WarmedFor /\ InWindow /\ Asked
       /\ WindowImports /\ LoadedClosed /\ AllArrived /\ CameWindowed /\ RunsSource
=============================================================================
