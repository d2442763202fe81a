-------------------------------- MODULE Gc --------------------------------
(***************************************************************************)
(* The mark-sweep collector of src/src/vm/gc.c and the rules the runtime    *)
(* follows around it.                                                       *)
(*                                                                          *)
(* An object is marked when its isMarked bit equals jaiGCEpoch.  A          *)
(* collection starts by flipping the epoch, which turns every object white  *)
(* without visiting it; it marks the roots, blackens gray objects until     *)
(* none is left, empties the weak tables of white entries, sweeps           *)
(* GCState.objects one object at a time and finally frees the dead page     *)
(* objects in one go.  A native function that allocates may meet a          *)
(* collection inside the allocation, before its new object exists: what it  *)
(* wants to keep it has pushed on the temporary roots (jaiGCPushRoot).      *)
(*                                                                          *)
(* Which allocation meets a collection is the subject of GcTrigger; here    *)
(* any may.  How pages store objects is the subject of PageSpace.           *)
(***************************************************************************)
EXTENDS Naturals, FiniteSets, Sequences

CONSTANTS
  Obj,        \* the blocks an object can occupy
  NoObj,      \* the NULL pointer
  Made,       \* the kinds of object this program makes
  Listed,     \* the kinds kept on GCState.objects; the others live in pages
  Weak,       \* which weak holders this program fills
  MaxFields,  \* bound: references one object holds
  MaxTemp     \* bound: depth of the temporary-root stack

(***************************************************************************)
(* The kinds the marker and the weak tables tell apart (ObjType, object.h): *)
(*   "buf"     OBJ_STRBUF, OBJ_BYTES, OBJ_RANGE: no references at all       *)
(*   "string"  OBJ_STRING: at most its owner, a string buffer               *)
(*   "node"    list, dict, instance, closure, upvalue, ...                  *)
(*   "class"   OBJ_CLASS, and what else is never in a page                  *)
(***************************************************************************)
Kinds == {"buf", "string", "node", "class"}
Traced == {"node", "class"}   \* the kinds that go on the gray stack

ASSUME GcAssumption ==
  /\ Made \subseteq Kinds /\ Listed \subseteq Kinds
  /\ NoObj \notin Obj
  /\ Weak \subseteq {"intern", "mega", "fmt", "shape"}
  /\ MaxFields \in Nat
  /\ MaxTemp \in Nat

VARIABLES
  allocated,  \* GCState.objects and the objects in pages
  kind,       \* [Obj -> Kinds]: the type in the header
  isMarked,   \* [Obj -> BOOLEAN]: the mark bit in the header
  refs,       \* [Obj -> SUBSET Obj]: strong references
  epoch,      \* jaiGCEpoch
  pc,         \* where the collector is; "run": not collecting
  gray,       \* grayStack[0 .. grayCount - 1]
  vmRoots,    \* stack, frames, open upvalues, defers, modules, pendingException
  tempRoots,  \* GCState.tempRoots
  permanent,  \* GCState.permanentRoots
  local,      \* an object only a C local of a native function names
  request,    \* the kind allocObj was asked for while its collection runs
  intern,     \* jaiInternTableStorage
  mega,       \* one way of sMegaCache: <<>> or <<class, name, method>>
  fmt,        \* the strings the sites of the format memo name
  shape       \* one bucket of sShapeCache

roots  == <<vmRoots, tempRoots, permanent, local>>
weak   == <<intern, mega, fmt, shape>>
vars   == <<allocated, kind, isMarked, refs, epoch, pc, gray, roots, request, weak>>

NoRequest == "none"

Marked(o) == isMarked[o] = epoch

\* What a native or an instruction holds, and so may read, write or follow.
Held  == vmRoots \union {tempRoots[i] : i \in DOMAIN tempRoots}
                 \union permanent \union ({local} \ {NoObj})

Abs   == INSTANCE HeapAbs WITH held <- Held
Reach == Abs!ReachFrom(Held, refs)

Init ==
  /\ allocated = {}
  /\ kind = [o \in Obj |-> "node"]
  /\ isMarked = [o \in Obj |-> FALSE]
  /\ refs = [o \in Obj |-> {}]
  /\ epoch = FALSE
  /\ pc = "run"
  /\ gray = {}
  /\ vmRoots = {} /\ tempRoots = <<>> /\ permanent = {} /\ local = NoObj
  /\ request = NoRequest
  /\ intern = {} /\ mega = <<>> /\ fmt = {} /\ shape = NoObj

-----------------------------------------------------------------------------
(* The program between collections.                                        *)

Running == pc = "run" /\ request = NoRequest

\* The interpreter pushes an object it can reach (or the one a native just
\* returned) where markRoots looks.
PushStack(o) ==
  /\ Running
  /\ o \in Reach \ vmRoots
  /\ vmRoots' = vmRoots \union {o}
  /\ UNCHANGED <<allocated, kind, isMarked, refs, epoch, pc, gray, tempRoots,
                 permanent, local, request, weak>>

PopStack(o) ==
  /\ Running
  /\ o \in vmRoots
  /\ vmRoots' = vmRoots \ {o}
  /\ UNCHANGED <<allocated, kind, isMarked, refs, epoch, pc, gray, tempRoots,
                 permanent, local, request, weak>>

\* jaiGCPushRoot; a range of values (jaiGCPushRootRange) is so many pushes.
PushRoot(o) ==
  /\ Running
  /\ o \in Reach
  /\ Len(tempRoots) < MaxTemp
  /\ tempRoots' = Append(tempRoots, o)
  /\ UNCHANGED <<allocated, kind, isMarked, refs, epoch, pc, gray, vmRoots,
                 permanent, local, request, weak>>

\* jaiGCPopRoots: callers pop what they pushed, so n never exceeds the count.
PopRoots(n) ==
  /\ Running
  /\ n \in 1 .. Len(tempRoots)
  /\ tempRoots' = SubSeq(tempRoots, 1, Len(tempRoots) - n)
  /\ UNCHANGED <<allocated, kind, isMarked, refs, epoch, pc, gray, vmRoots,
                 permanent, local, request, weak>>

\* jaiGCAddPermanentRoot
AddPermanentRoot(o) ==
  /\ Running
  /\ o \in Reach
  /\ permanent = {}
  /\ permanent' = {o}
  /\ UNCHANGED <<allocated, kind, isMarked, refs, epoch, pc, gray, vmRoots,
                 tempRoots, local, request, weak>>

\* A field, element or binding of x is set to y.
Store(x, y) ==
  /\ Running
  /\ x \in Reach /\ y \in Reach
  /\ kind[x] \in Traced
  /\ y \notin refs[x]
  /\ Cardinality(refs[x]) < MaxFields
  /\ refs' = [refs EXCEPT ![x] = @ \union {y}]
  /\ UNCHANGED <<allocated, kind, isMarked, epoch, pc, gray, roots, request, weak>>

Erase(x, y) ==
  /\ Running
  /\ x \in Reach
  /\ kind[x] \in Traced
  /\ y \in refs[x]
  /\ refs' = [refs EXCEPT ![x] = @ \ {y}]
  /\ UNCHANGED <<allocated, kind, isMarked, epoch, pc, gray, roots, request, weak>>

-----------------------------------------------------------------------------
(* The weak holders, between collections.                                  *)

UnchangedHeap == UNCHANGED <<allocated, kind, isMarked, refs, epoch, pc, gray>>

\* internString: jaiStringIntern files the string it has just made (`local`),
\* jaiStringCanonical any string, a view into a shared buffer included.
InternAdd(s) ==
  /\ Running /\ "intern" \in Weak
  /\ s \in Reach /\ kind[s] = "string"
  /\ intern' = intern \union {s}
  /\ UnchangedHeap /\ UNCHANGED <<roots, request, mega, fmt, shape>>

\* jaiStringIntern on a hit: the table hands out a string nobody may hold.
InternFind(s) ==
  /\ Running
  /\ s \in intern
  /\ local' = s
  /\ UnchangedHeap
  /\ UNCHANGED <<vmRoots, tempRoots, permanent, request, weak>>

\* OP_INVOKE at a megamorphic site: the miss files what klass->methods says.
MegaFill(c, s, m) ==
  /\ Running /\ "mega" \in Weak
  /\ {c, s, m} \subseteq Reach
  /\ kind[c] = "class" /\ kind[s] = "string" /\ m \in refs[c]
  /\ mega' = <<c, s, m>>
  /\ UnchangedHeap /\ UNCHANGED <<roots, request, intern, fmt, shape>>

\* ... and the hit calls the method filed for the receiver's class.  The test
\* of the class's table version, left out here, only makes hits rarer.
MegaHit ==
  /\ Running
  /\ mega # <<>>
  /\ mega[1] \in Reach /\ mega[2] \in Reach
  /\ local' = mega[3]
  /\ UnchangedHeap
  /\ UNCHANGED <<vmRoots, tempRoots, permanent, request, weak>>

\* jaiFmtMemoFill: only an intern hit is filed.
FmtFill(s) ==
  /\ Running /\ "fmt" \in Weak
  /\ s \in intern
  /\ fmt' = fmt \union {s}
  /\ UnchangedHeap /\ UNCHANGED <<roots, request, intern, mega, shape>>

\* The probe compiled code makes: a memo hit is the answer, with no lookup.
FmtHit(s) ==
  /\ Running
  /\ s \in fmt
  /\ local' = s
  /\ UnchangedHeap
  /\ UNCHANGED <<vmRoots, tempRoots, permanent, request, weak>>

\* jaiClassRememberShape
RememberShape(c) ==
  /\ Running /\ "shape" \in Weak
  /\ c \in Reach /\ kind[c] = "class"
  /\ shape' = c
  /\ UnchangedHeap /\ UNCHANGED <<roots, request, intern, mega, fmt>>

-----------------------------------------------------------------------------
(* Allocation and the collection.                                          *)

\* (slip: the epoch is not flipped)
BeginCollectNoFlip == pc' = "roots" /\ UNCHANGED epoch

\* jaiGCCollect up to the marking: everything allocated so far reads white.
BeginCollect == epoch' = ~epoch /\ pc' = "roots"

\* No C local names an object that no root does.
NativesIdle == local = NoObj

\* The safepoint of run(), and __prim__.gc_collect: no native is half-way.
Safepoint ==
  /\ Running
  /\ NativesIdle
  /\ BeginCollect
  /\ UNCHANGED <<allocated, kind, isMarked, refs, gray, roots, request, weak>>

\* A native returns and whatever only its C locals named is forgotten.
NativeReturn ==
  /\ Running
  /\ local # NoObj
  /\ local' = NoObj
  /\ UnchangedHeap
  /\ UNCHANGED <<vmRoots, tempRoots, permanent, request, weak>>

\* allocObj, first half: collect before the allocation or not at all.
RequestObject(k) ==
  /\ Running
  /\ request' = k
  /\ local' = NoObj
  /\ BeginCollect \/ UNCHANGED <<epoch, pc>>
  /\ UNCHANGED <<allocated, kind, isMarked, refs, gray, vmRoots, tempRoots,
                 permanent, weak>>

\* The references a constructor of a kind-k object stores before it returns.
FirstRefs(k) ==
  IF k = "string" THEN {{}} \union {{b} : b \in {x \in Reach : kind[x] = "buf"}}
                  ELSE {{}}

\* allocObj, second half, with its constructor: the block gets the current
\* epoch and no root names it yet.
FinishAlloc(o) ==
  /\ pc = "run" /\ request # NoRequest
  /\ o \notin allocated
  /\ allocated' = allocated \union {o}
  /\ kind' = [kind EXCEPT ![o] = request]
  /\ isMarked' = [isMarked EXCEPT ![o] = epoch]
  /\ \E r \in FirstRefs(request) : refs' = [refs EXCEPT ![o] = r]
  /\ local' = o
  /\ request' = NoRequest
  /\ UNCHANGED <<epoch, pc, gray, vmRoots, tempRoots, permanent, weak>>

\* jaiGCMarkObject on each object of S: the white ones are marked, a string
\* marks its owner with it, and what can refer to others turns gray.
Whites(S) == {o \in S : ~Marked(o)}
Owners(S) == UNION {refs[s] : s \in {x \in Whites(S) : kind[x] = "string"}}
Grayed(S) == {o \in Whites(S) : kind[o] \in Traced}
\* (slip: what was gray already is forgotten)
MarkAllForgetful(S, g) ==
  /\ isMarked' = [o \in Obj |-> IF o \in S \union Owners(S) THEN epoch ELSE isMarked[o]]
  /\ gray' = Grayed(S)
MarkAll(S, g) ==
  /\ isMarked' = [o \in Obj |-> IF o \in S \union Owners(S) THEN epoch ELSE isMarked[o]]
  /\ gray' = g \union Grayed(S)

\* markRoots
RootObjects == vmRoots \union {tempRoots[i] : i \in DOMAIN tempRoots} \union permanent

MarkRoots ==
  /\ pc = "roots"
  /\ MarkAll(RootObjects, gray)
  /\ pc' = "trace"
  /\ UNCHANGED <<allocated, kind, refs, epoch, roots, request, weak>>

\* One turn of traceReferences: blackenObject.
Blacken(o) ==
  /\ pc = "trace"
  /\ o \in gray
  /\ MarkAll(refs[o], gray \ {o})
  /\ UNCHANGED <<allocated, kind, refs, epoch, pc, roots, request, weak>>

WhiteFreeIntern == {s \in intern : Marked(s)}
\* (slips: only the class is tested; the entry is half cleared)
WhiteFreeMegaByClass == IF mega # <<>> /\ Marked(mega[1]) THEN mega ELSE <<>>
WhiteFreeMegaHalf ==
  IF mega # <<>> /\ \A i \in 1 .. 3 : Marked(mega[i]) THEN mega ELSE <<NoObj>>
WhiteFreeMega == IF mega # <<>> /\ \A i \in 1 .. 3 : Marked(mega[i]) THEN mega ELSE <<>>
\* jaiShapeCacheRemoveWhite reads the bit itself, not jaiGCIsMarked.
WhiteFreeShape == IF shape # NoObj /\ ~isMarked[shape] THEN NoObj ELSE shape

\* (slip: the memo survives the collection)
FmtKept == fmt
\* jaiFmtMemoClear drops every entry, dead or not.
FmtCleared == {}

\* (slip: the trace stops with an object still gray)
TracedNearly == Cardinality(gray) <= 1
TracedAll == gray = {}

\* The weak phase: intern table, method cache, shape cache, format memo.
RemoveWhite ==
  /\ pc = "trace" /\ TracedAll
  /\ intern' = WhiteFreeIntern
  /\ mega' = WhiteFreeMega
  /\ shape' = WhiteFreeShape
  /\ fmt' = FmtCleared
  /\ pc' = "sweep"
  /\ UNCHANGED <<allocated, kind, isMarked, refs, epoch, gray, roots, request>>

\* A freed block has no references and an arbitrary header: here a fixed one.
Free(S) ==
  /\ allocated' = allocated \ S
  /\ refs' = [o \in Obj |-> IF o \in S THEN {} ELSE refs[o]]
  /\ kind' = [o \in Obj |-> IF o \in S THEN "node" ELSE kind[o]]
  /\ isMarked' = [o \in Obj |-> IF o \in S THEN FALSE ELSE isMarked[o]]

Dead == {o \in allocated : ~Marked(o)}

\* sweep: one dead object is unlinked from the list and freed.
SweepList(o) ==
  /\ pc = "sweep"
  /\ o \in Dead /\ kind[o] \in Listed
  /\ Free({o})
  /\ UNCHANGED <<epoch, pc, gray, roots, request, weak>>

\* jaiPageCollectEnd: every dead page object goes at once; collection over.
SweepPages ==
  /\ pc = "sweep"
  /\ \A o \in Dead : kind[o] \notin Listed
  /\ Free(Dead)
  /\ pc' = "run"
  /\ UNCHANGED <<epoch, gray, roots, request, weak>>

Mutator ==
  \/ \E o \in Obj : PushStack(o) \/ PopStack(o) \/ PushRoot(o) \/ AddPermanentRoot(o)
  \/ \E n \in 1 .. MaxTemp : PopRoots(n)
  \/ \E x, y \in Obj : Store(x, y) \/ Erase(x, y)
  \/ MegaHit \/ NativeReturn
  \/ \E s \in Obj : InternAdd(s) \/ InternFind(s) \/ FmtFill(s) \/ FmtHit(s) \/ RememberShape(s)
  \/ \E c, s, m \in Obj : MegaFill(c, s, m)

Collector ==
  \/ MarkRoots \/ RemoveWhite \/ SweepPages
  \/ \E o \in Obj : Blacken(o) \/ SweepList(o)

Next ==
  \/ Mutator
  \/ Safepoint
  \/ \E k \in Made : RequestObject(k)
  \/ \E o \in Obj : FinishAlloc(o)
  \/ Collector

Spec == Init /\ [][Next]_vars

-----------------------------------------------------------------------------
TypeOK ==
  /\ allocated \subseteq Obj
  /\ kind \in [Obj -> Kinds]
  /\ isMarked \in [Obj -> BOOLEAN]
  /\ refs \in [Obj -> SUBSET Obj]
  /\ epoch \in BOOLEAN
  /\ pc \in {"run", "roots", "trace", "sweep"}
  /\ gray \subseteq Obj
  /\ vmRoots \subseteq Obj /\ permanent \subseteq Obj
  /\ tempRoots \in Seq(Obj)
  /\ local \in Obj \union {NoObj}
  /\ request \in Kinds \union {NoRequest}
  /\ intern \subseteq Obj /\ fmt \subseteq Obj
  /\ mega = <<>> \/ mega \in Obj \X Obj \X Obj
  /\ shape \in Obj \union {NoObj}

\* At every moment, the middle of a sweep included, whatever the program can
\* reach is still an object: no collection frees something a root, a native's
\* temporary root or a field of a reachable object names.
NoDangling == Reach \subseteq allocated

\* When the program runs, a weak holder names only objects that still exist and
\* are of the kind the holder's reader takes them for: the intern table and
\* the format memo strings, the method cache a class, a name and a method.
WeakSound ==
  pc = "run" =>
    /\ intern \union fmt \subseteq {s \in allocated : kind[s] = "string"}
    /\ mega # <<>> => /\ {mega[i] : i \in 1 .. 3} \subseteq allocated
                      /\ kind[mega[1]] = "class" /\ kind[mega[2]] = "string"

\* What vm_cache.c says of sShapeCache: held weakly like the method cache, so
\* jaiClassForShape never reads a class the sweep has freed.
ShapeSound ==
  pc = "run" /\ shape # NoObj => shape \in allocated /\ kind[shape] = "class"

(***************************************************************************)
(* Why the sweep frees nothing that is reachable, as an inductive invariant. *)
(***************************************************************************)

\* What a sweep under way will leave behind.
Live == IF pc = "sweep" THEN {o \in allocated : Marked(o)} ELSE allocated

\* The references of what stays lead to what stays.  A buffer has none and a
\* string's lead to a buffer: marking them needs no gray stack.
HeapClosed ==
  /\ Abs!ClosedFrom(Live, Held, refs)
  /\ \A o \in Live : /\ kind[o] = "buf" => refs[o] = {}
                     /\ kind[o] = "string" => \A b \in refs[o] : kind[b] = "buf"
  /\ \A o \in Obj \ allocated : refs[o] = {}

\* So do the weak holders; a native that allocates keeps nothing in C locals.
WeakClosed ==
  /\ \A s \in intern \union fmt : s \in Live /\ kind[s] = "string"
  /\ mega # <<>> => /\ mega[1] \in Live /\ mega[2] \in Live /\ mega[3] \in Live
                    /\ kind[mega[1]] = "class" /\ kind[mega[2]] = "string"
  /\ pc # "run" => local = NoObj

\* The colours.  Between collections everything is black; the flip of the epoch
\* makes everything white; while the trace runs no black object names a white
\* one and no root does; the sweep starts with nothing gray.
TriColor ==
  /\ pc # "trace" => gray = {}
  /\ pc = "run" => \A o \in allocated : Marked(o)
  /\ pc = "roots" => \A o \in allocated : ~Marked(o)
  /\ pc = "trace" =>
       /\ gray \subseteq {o \in allocated : Marked(o)}
       /\ \A o \in RootObjects : Marked(o)
       /\ \A o \in allocated \ gray : Marked(o) => \A r \in refs[o] : Marked(r)

Inv == TypeOK /\ HeapClosed /\ WeakClosed /\ TriColor

\* A collection keeps nothing it need not keep: when it ends, the heap is
\* exactly what the program can reach (nothing is pinned by a stale mark, a
\* weak holder or an object that dies in the same collection).
CollectExact == [][pc = "sweep" /\ pc' = "run" => allocated' = Reach']_vars

\* The collector implements the heap the rest of the runtime relies on.
RefinesHeap == Abs!Spec

\* A step that enters a later phase, or marks something for good, or takes
\* something off the gray stack, or frees something.
Advance ==
  \/ <<pc, pc'>> \in {<<"roots", "trace">>, <<"trace", "sweep">>, <<"sweep", "run">>}
  \/ /\ pc = "trace" /\ pc' = "trace" /\ Dead' \subseteq Dead
     /\ Dead' # Dead \/ (gray' \subseteq gray /\ gray' # gray)
  \/ /\ pc = "sweep" /\ pc' = "sweep"
     /\ allocated' \subseteq allocated /\ allocated' # allocated

\* A collection under way never goes in circles, whatever cycles the heap holds:
\* a finite heap allows finitely many steps like these, and the allocation that
\* met the collection goes on.
CollectionAdvances == [][pc # "run" => Advance]_vars

=============================================================================
