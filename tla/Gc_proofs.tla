----------------------------- MODULE Gc_proofs -----------------------------
(***************************************************************************)
(* Proofs about Gc for any set of blocks, any program kinds, any subset of  *)
(* the kinds on the sweep list, any weak holders and any bounds, and, at    *)
(* the end, about GcTrigger.  The two specifications share no state.        *)
(*                                                                          *)
(* Inv is inductive.  The heart of it is TriColor: while the trace runs no  *)
(* black object refers to a white one, so that when gray is empty the       *)
(* marked objects are closed under references and hold the roots, and what  *)
(* the sweep takes is not among what can be reached.                        *)
(***************************************************************************)
EXTENDS Gc, GcTrigger, SequenceTheorems, TLAPS

-----------------------------------------------------------------------------
(* Reachability.                                                           *)

\* Whatever closed set holds what the program holds, holds what it reaches.
LEMMA ReachInClosed ==
  ASSUME NEW S \in SUBSET Obj, Abs!ClosedFrom(S, Held, refs)
  PROVE  Reach \subseteq S
BY DEF Reach, Abs!ReachFrom

LEMMA ReachInLive == Inv => Reach \subseteq Live
<1> SUFFICES ASSUME Inv PROVE Reach \subseteq Live
  OBVIOUS
<1>1. Live \in SUBSET Obj
  BY DEF Inv, TypeOK, Live
<1> QED
  BY <1>1, ReachInClosed DEF Inv, HeapClosed

LEMMA LiveInAllocated == Live \subseteq allocated
BY DEF Live

\* While the program runs nothing is about to be swept.
LEMMA RunningReach == Inv /\ pc = "run" => Live = allocated /\ Reach \subseteq allocated
BY ReachInLive DEF Live

-----------------------------------------------------------------------------
(* The initial state.                                                      *)

LEMMA InitInv == Init => Inv
<1> SUFFICES ASSUME Init PROVE Inv
  OBVIOUS
<1> USE DEF Init
<1>1. TypeOK
  <2>1. tempRoots \in Seq(Obj)
    BY EmptySeq
  <2> QED
    BY <2>1 DEF TypeOK, Kinds, NoRequest
<1>2. Held = {}
  BY DEF Held
<1>3. HeapClosed
  BY <1>2 DEF HeapClosed, Live, Abs!ClosedFrom
<1>4. WeakClosed
  BY DEF WeakClosed
<1>5. TriColor
  BY DEF TriColor
<1> QED
  BY <1>1, <1>3, <1>4, <1>5 DEF Inv

-----------------------------------------------------------------------------
(* The steps of the program that move roots and references.                *)

\* The parts of the state that every such step leaves alone.
SameHeap == UNCHANGED <<allocated, kind, isMarked, epoch, pc, gray>>

\* If the heap stands and the roots stay within what is allocated, the
\* invariant stands: references and weak holders may change within it.
LEMMA ProgramStep ==
  ASSUME Inv, pc = "run", SameHeap, TypeOK',
         Held' \subseteq allocated,
         \A o \in allocated : refs'[o] = refs[o]
                              \/ (kind[o] \in Traced /\ refs'[o] \subseteq allocated),
         \A o \in Obj \ allocated : refs'[o] = {},
         \A s \in intern' \union fmt' : s \in allocated /\ kind[s] = "string",
         mega' # <<>> => /\ mega'[1] \in allocated /\ mega'[2] \in allocated
                         /\ mega'[3] \in allocated
                         /\ kind[mega'[1]] = "class" /\ kind[mega'[2]] = "string"
  PROVE  Inv'
<1>1. Live = allocated /\ Live' = allocated
  BY DEF Live, SameHeap
<1>2. HeapClosed'
  <2>1. \A o \in allocated : refs'[o] \subseteq allocated
    BY <1>1 DEF Inv, HeapClosed, Abs!ClosedFrom
  <2>2. Abs!ClosedFrom(Live, Held, refs)'
    BY <1>1, <2>1 DEF Abs!ClosedFrom
  <2>3. \A o \in allocated : /\ kind[o] = "buf" => refs'[o] = {}
                             /\ kind[o] = "string" => \A b \in refs'[o] : kind[b] = "buf"
    BY <1>1 DEF Inv, HeapClosed, Traced
  <2> QED
    BY <1>1, <2>2, <2>3 DEF HeapClosed, SameHeap
<1>3. WeakClosed'
  BY <1>1 DEF WeakClosed, SameHeap
<1>4. TriColor'
  BY DEF Inv, TriColor, SameHeap, Marked
<1> QED
  BY <1>2, <1>3, <1>4 DEF Inv

LEMMA MutatorTypeOK == TypeOK /\ Mutator => TypeOK'
<1> SUFFICES ASSUME TypeOK, Mutator PROVE TypeOK'
  OBVIOUS
<1> USE DEF TypeOK
<1>0. Reach \subseteq Obj
  BY DEF Reach, Abs!ReachFrom
<1>1. ASSUME NEW o \in Obj, PushStack(o) PROVE TypeOK'
  BY <1>1 DEF PushStack, weak
<1>2. ASSUME NEW o \in Obj, PopStack(o) PROVE TypeOK'
  BY <1>2 DEF PopStack, weak
<1>3. ASSUME NEW o \in Obj, PushRoot(o) PROVE TypeOK'
  BY <1>3 DEF PushRoot, weak
<1>4. ASSUME NEW o \in Obj, AddPermanentRoot(o) PROVE TypeOK'
  BY <1>4 DEF AddPermanentRoot, weak
<1>5. ASSUME NEW n \in 1 .. MaxTemp, PopRoots(n) PROVE TypeOK'
  BY <1>5, GcAssumption DEF PopRoots, weak
<1>6. ASSUME NEW x \in Obj, NEW y \in Obj, Store(x, y) PROVE TypeOK'
  BY <1>6 DEF Store, weak, roots
<1>7. ASSUME NEW x \in Obj, NEW y \in Obj, Erase(x, y) PROVE TypeOK'
  BY <1>7 DEF Erase, weak, roots
<1>8. CASE MegaHit
  BY <1>8 DEF MegaHit, weak, UnchangedHeap
<1>9. CASE NativeReturn
  BY <1>9 DEF NativeReturn, weak, UnchangedHeap
<1>10. ASSUME NEW s \in Obj, InternAdd(s) PROVE TypeOK'
  BY <1>10 DEF InternAdd, roots, UnchangedHeap
<1>11. ASSUME NEW s \in Obj, InternFind(s) PROVE TypeOK'
  BY <1>11 DEF InternFind, weak, UnchangedHeap
<1>12. ASSUME NEW s \in Obj, FmtFill(s) PROVE TypeOK'
  BY <1>12 DEF FmtFill, roots, UnchangedHeap
<1>13. ASSUME NEW s \in Obj, FmtHit(s) PROVE TypeOK'
  BY <1>13 DEF FmtHit, weak, UnchangedHeap
<1>14. ASSUME NEW s \in Obj, RememberShape(s) PROVE TypeOK'
  BY <1>14 DEF RememberShape, roots, UnchangedHeap
<1>15. ASSUME NEW c \in Obj, NEW s \in Obj, NEW m \in Obj, MegaFill(c, s, m) PROVE TypeOK'
  BY <1>15 DEF MegaFill, roots, UnchangedHeap
<1> QED
  BY <1>1, <1>2, <1>3, <1>4, <1>5, <1>6, <1>7, <1>8, <1>9, <1>10, <1>11, <1>12, <1>13,
     <1>14, <1>15 DEF Mutator

\* What the program holds after a step that leaves tempRoots a prefix, or adds
\* an object to it.
LEMMA MutatorInv == Inv /\ Mutator => Inv'
<1> SUFFICES ASSUME Inv, Mutator PROVE Inv'
  OBVIOUS
<1>t. TypeOK /\ TypeOK'
  BY MutatorTypeOK DEF Inv
<1>r. pc = "run"
  BY DEF Mutator, PushStack, PopStack, PushRoot, AddPermanentRoot, PopRoots, Store, Erase,
         MegaHit, NativeReturn, InternAdd, InternFind, FmtFill, FmtHit, RememberShape,
         MegaFill, Running
<1>live. Live = allocated /\ Reach \subseteq allocated
  BY <1>r, RunningReach
<1>h. /\ Held \subseteq allocated
      /\ \A o \in allocated : refs[o] \subseteq allocated
      /\ \A o \in Obj \ allocated : refs[o] = {}
      /\ \A s \in intern \union fmt : s \in allocated /\ kind[s] = "string"
      /\ mega # <<>> => /\ mega[1] \in allocated /\ mega[2] \in allocated
                        /\ mega[3] \in allocated
                        /\ kind[mega[1]] = "class" /\ kind[mega[2]] = "string"
  BY <1>live DEF Inv, HeapClosed, WeakClosed, Abs!ClosedFrom
<1>1. ASSUME NEW o \in Obj, PushStack(o) PROVE Inv'
  <2>1. Held' \subseteq allocated
    BY <1>1, <1>live, <1>h DEF PushStack, Held
  <2> QED
    BY <1>1, <2>1, <1>t, <1>r, <1>h, ProgramStep DEF PushStack, SameHeap, weak
<1>2. ASSUME NEW o \in Obj, PopStack(o) PROVE Inv'
  <2>1. Held' \subseteq allocated
    BY <1>2, <1>h DEF PopStack, Held
  <2> QED
    BY <1>2, <2>1, <1>t, <1>r, <1>h, ProgramStep DEF PopStack, SameHeap, weak
<1>3. ASSUME NEW o \in Obj, PushRoot(o) PROVE Inv'
  <2>1. \A i \in DOMAIN tempRoots' : tempRoots'[i] \in allocated
    BY <1>3, <1>t, <1>live, <1>h DEF PushRoot, Held, TypeOK
  <2>2. Held' \subseteq allocated
    BY <1>3, <1>h, <2>1 DEF PushRoot, Held
  <2> QED
    BY <1>3, <2>2, <1>t, <1>r, <1>h, ProgramStep DEF PushRoot, SameHeap, weak
<1>4. ASSUME NEW o \in Obj, AddPermanentRoot(o) PROVE Inv'
  <2>1. Held' \subseteq allocated
    BY <1>4, <1>live, <1>h DEF AddPermanentRoot, Held
  <2> QED
    BY <1>4, <2>1, <1>t, <1>r, <1>h, ProgramStep DEF AddPermanentRoot, SameHeap, weak
<1>5. ASSUME NEW n \in 1 .. MaxTemp, PopRoots(n) PROVE Inv'
  <2>1. \A i \in DOMAIN tempRoots' : tempRoots'[i] \in allocated
    <3>1. \A i \in DOMAIN tempRoots : tempRoots[i] \in allocated
      BY <1>h DEF Held
    <3>2. /\ DOMAIN tempRoots' \subseteq DOMAIN tempRoots
          /\ \A i \in DOMAIN tempRoots' : tempRoots'[i] = tempRoots[i]
      BY <1>5, <1>t, GcAssumption DEF PopRoots, TypeOK
    <3> QED
      BY <3>1, <3>2
  <2>2. Held' \subseteq allocated
    BY <1>5, <1>h, <2>1 DEF PopRoots, Held
  <2> QED
    BY <1>5, <2>2, <1>t, <1>r, <1>h, ProgramStep DEF PopRoots, SameHeap, weak
<1>6. ASSUME NEW x \in Obj, NEW y \in Obj, Store(x, y) PROVE Inv'
  <2>1. Held' \subseteq allocated
    BY <1>6, <1>h DEF Store, roots, Held
  <2>2. /\ \A o \in allocated : refs'[o] = refs[o]
                                \/ (kind[o] \in Traced /\ refs'[o] \subseteq allocated)
        /\ \A o \in Obj \ allocated : refs'[o] = {}
    BY <1>6, <1>t, <1>live, <1>h DEF Store, TypeOK
  <2> QED
    BY <1>6, <2>1, <2>2, <1>t, <1>r, <1>h, ProgramStep DEF Store, SameHeap, weak
<1>7. ASSUME NEW x \in Obj, NEW y \in Obj, Erase(x, y) PROVE Inv'
  <2>1. Held' \subseteq allocated
    BY <1>7, <1>h DEF Erase, roots, Held
  <2>2. /\ \A o \in allocated : refs'[o] = refs[o]
                                \/ (kind[o] \in Traced /\ refs'[o] \subseteq allocated)
        /\ \A o \in Obj \ allocated : refs'[o] = {}
    BY <1>7, <1>t, <1>live, <1>h DEF Erase, TypeOK
  <2> QED
    BY <1>7, <2>1, <2>2, <1>t, <1>r, <1>h, ProgramStep DEF Erase, SameHeap, weak
<1>8. CASE MegaHit
  <2>1. Held' \subseteq allocated
    BY <1>8, <1>h DEF MegaHit, UnchangedHeap, Held
  <2> QED
    BY <1>8, <2>1, <1>t, <1>r, <1>h, ProgramStep DEF MegaHit, UnchangedHeap, SameHeap, weak
<1>9. CASE NativeReturn
  <2>1. Held' \subseteq allocated
    BY <1>9, <1>h DEF NativeReturn, UnchangedHeap, Held
  <2> QED
    BY <1>9, <2>1, <1>t, <1>r, <1>h, ProgramStep DEF NativeReturn, UnchangedHeap, SameHeap, weak
<1>10. ASSUME NEW s \in Obj, InternAdd(s) PROVE Inv'
  <2>1. Held' \subseteq allocated
    BY <1>10, <1>h DEF InternAdd, roots, Held
  <2>2. \A x \in intern' \union fmt' : x \in allocated /\ kind[x] = "string"
    BY <1>10, <1>live, <1>h DEF InternAdd
  <2> QED
    BY <1>10, <2>1, <2>2, <1>t, <1>r, <1>h, ProgramStep DEF InternAdd, UnchangedHeap, SameHeap
<1>11. ASSUME NEW s \in Obj, InternFind(s) PROVE Inv'
  <2>1. Held' \subseteq allocated
    BY <1>11, <1>h DEF InternFind, UnchangedHeap, Held
  <2> QED
    BY <1>11, <2>1, <1>t, <1>r, <1>h, ProgramStep DEF InternFind, UnchangedHeap, SameHeap, weak
<1>12. ASSUME NEW s \in Obj, FmtFill(s) PROVE Inv'
  <2>1. Held' \subseteq allocated
    BY <1>12, <1>h DEF FmtFill, roots, Held
  <2>2. \A x \in intern' \union fmt' : x \in allocated /\ kind[x] = "string"
    BY <1>12, <1>h DEF FmtFill
  <2> QED
    BY <1>12, <2>1, <2>2, <1>t, <1>r, <1>h, ProgramStep DEF FmtFill, UnchangedHeap, SameHeap
<1>13. ASSUME NEW s \in Obj, FmtHit(s) PROVE Inv'
  <2>1. Held' \subseteq allocated
    BY <1>13, <1>h DEF FmtHit, UnchangedHeap, Held
  <2> QED
    BY <1>13, <2>1, <1>t, <1>r, <1>h, ProgramStep DEF FmtHit, UnchangedHeap, SameHeap, weak
<1>14. ASSUME NEW s \in Obj, RememberShape(s) PROVE Inv'
  <2>1. Held' \subseteq allocated
    BY <1>14, <1>h DEF RememberShape, roots, Held
  <2> QED
    BY <1>14, <2>1, <1>t, <1>r, <1>h, ProgramStep DEF RememberShape, UnchangedHeap, SameHeap
<1>15. ASSUME NEW c \in Obj, NEW s \in Obj, NEW m \in Obj, MegaFill(c, s, m) PROVE Inv'
  <2>1. Held' \subseteq allocated
    BY <1>15, <1>h DEF MegaFill, roots, Held
  <2>2. /\ mega'[1] = c /\ mega'[2] = s /\ mega'[3] = m
        /\ {c, s, m} \subseteq allocated
        /\ kind[c] = "class" /\ kind[s] = "string"
    BY <1>15, <1>live DEF MegaFill
  <2> QED
    BY <1>15, <2>1, <2>2, <1>t, <1>r, <1>h, ProgramStep DEF MegaFill, UnchangedHeap, SameHeap
<1> QED
  BY <1>1, <1>2, <1>3, <1>4, <1>5, <1>6, <1>7, <1>8, <1>9, <1>10, <1>11, <1>12, <1>13,
     <1>14, <1>15 DEF Mutator

-----------------------------------------------------------------------------
(* Allocation.                                                             *)

\* The flip of the epoch turns a heap in which all is black all white.
LEMMA BeginCollectInv ==
  ASSUME Inv, pc = "run", BeginCollect, TypeOK', local' = NoObj,
         UNCHANGED <<allocated, kind, isMarked, refs, gray, vmRoots, tempRoots,
                     permanent, weak>>
  PROVE  Inv'
<1>1. Live' = allocated /\ Live = allocated /\ Held' \subseteq Held
  BY DEF Live, BeginCollect, Held
<1>2. HeapClosed'
  BY <1>1 DEF Inv, HeapClosed, Abs!ClosedFrom
<1>3. WeakClosed'
  BY <1>1 DEF Inv, WeakClosed, weak
<1>4. TriColor'
  <2>1. \A o \in allocated : isMarked[o] = epoch /\ isMarked[o] \in BOOLEAN
    BY DEF Inv, TriColor, TypeOK, Marked
  <2>2. epoch' = ~epoch /\ epoch \in BOOLEAN
    BY DEF BeginCollect, Inv, TypeOK
  <2>3. \A o \in allocated : ~(isMarked'[o] = epoch')
    BY <2>1, <2>2
  <2> QED
    BY <2>3 DEF BeginCollect, Inv, TriColor, Marked
<1> QED
  BY <1>2, <1>3, <1>4 DEF Inv

LEMMA SafepointInv == Inv /\ Safepoint => Inv'
<1> SUFFICES ASSUME Inv, Safepoint PROVE Inv'
  OBVIOUS
<1>1. TypeOK'
  BY DEF Inv, TypeOK, Safepoint, BeginCollect, roots, weak
<1> QED
  BY <1>1, BeginCollectInv DEF Safepoint, Running, NativesIdle, roots

LEMMA RequestObjectInv == ASSUME NEW k \in Made PROVE Inv /\ RequestObject(k) => Inv'
<1> SUFFICES ASSUME Inv, RequestObject(k) PROVE Inv'
  OBVIOUS
<1>1. TypeOK'
  BY GcAssumption DEF Inv, TypeOK, RequestObject, BeginCollect, weak
<1>2. CASE BeginCollect
  BY <1>1, <1>2, BeginCollectInv DEF RequestObject, Running
<1>3. CASE UNCHANGED <<epoch, pc>>
  <2>1. Held' \subseteq Held /\ Live = allocated
    BY <1>3 DEF RequestObject, Held, Live, Running
  <2> QED
    BY <1>1, <1>3, <2>1, ProgramStep
    DEF RequestObject, Running, SameHeap, weak, Inv, HeapClosed, WeakClosed, Abs!ClosedFrom
<1> QED
  BY <1>2, <1>3 DEF RequestObject

\* A new object is black, refers to what was reachable and only a C local of
\* the native that asked for it names it.
LEMMA FinishAllocInv == ASSUME NEW o \in Obj PROVE Inv /\ FinishAlloc(o) => Inv'
<1> SUFFICES ASSUME Inv, FinishAlloc(o) PROVE Inv'
  OBVIOUS
<1>r. pc = "run" /\ pc' = "run" /\ o \notin allocated /\ allocated' = allocated \union {o}
  BY DEF FinishAlloc
<1>live. Live = allocated /\ Live' = allocated' /\ Reach \subseteq allocated
  BY <1>r, RunningReach DEF Live
<1>t. TypeOK
  BY DEF Inv
<1>1. PICK r \in FirstRefs(request) : refs' = [refs EXCEPT ![o] = r]
  BY DEF FinishAlloc
<1>2. /\ r \subseteq allocated
      /\ request # "string" => r = {}
      /\ \A b \in r : kind[b] = "buf"
  BY <1>live DEF FirstRefs
<1>3. TypeOK'
  BY <1>1, <1>2, <1>t DEF TypeOK, FinishAlloc, weak, NoRequest
<1>4. /\ refs'[o] = r /\ kind'[o] = request /\ isMarked'[o] = epoch
      /\ \A x \in Obj \ {o} : refs'[x] = refs[x] /\ kind'[x] = kind[x]
                              /\ isMarked'[x] = isMarked[x]
      /\ allocated \subseteq Obj
  BY <1>1, <1>t DEF TypeOK, FinishAlloc
<1>5. HeapClosed'
  <2>1. Held' \subseteq allocated'
    BY <1>r, <1>live DEF FinishAlloc, Held, Inv, HeapClosed, Abs!ClosedFrom
  <2>2. Abs!ClosedFrom(Live, Held, refs)'
    BY <2>1, <1>r, <1>live, <1>2, <1>4 DEF Inv, HeapClosed, Abs!ClosedFrom
  <2>3. \A x \in allocated' : /\ kind'[x] = "buf" => refs'[x] = {}
                              /\ kind'[x] = "string" => \A b \in refs'[x] : kind'[b] = "buf"
    BY <1>r, <1>live, <1>2, <1>4 DEF Inv, HeapClosed, Abs!ClosedFrom
  <2> QED
    BY <2>2, <2>3, <1>r, <1>live, <1>4 DEF Inv, HeapClosed
<1>6. WeakClosed'
  BY <1>r, <1>live, <1>4 DEF Inv, WeakClosed, FinishAlloc, weak
<1>7. TriColor'
  BY <1>r, <1>4 DEF Inv, TriColor, FinishAlloc, Marked
<1> QED
  BY <1>3, <1>5, <1>6, <1>7 DEF Inv

-----------------------------------------------------------------------------
(* Marking.                                                                *)

\* What MarkAll does to a set S of allocated objects: S is black or gray
\* afterwards, what was marked stays marked, and of the objects newly marked the
\* ones that are not gray refer to nothing white.
LEMMA MarkAllMarks ==
  ASSUME Inv, pc \in {"roots", "trace"}, NEW S \in SUBSET allocated, NEW g \in SUBSET allocated,
         MarkAll(S, g), UNCHANGED <<allocated, kind, refs, epoch>>
  PROVE  /\ isMarked' \in [Obj -> BOOLEAN]
         /\ gray' \subseteq allocated
         /\ \A o \in gray' : o \in g \/ Marked(o)'
         /\ \A o \in S : Marked(o)'
         /\ \A o \in allocated : Marked(o) => Marked(o)'
         /\ \A o \in allocated \ gray' :
              Marked(o)' /\ ~Marked(o) => \A r \in refs[o] : Marked(r)'
<1>t. TypeOK /\ Live = allocated /\ S \subseteq Obj
  BY DEF Inv, TypeOK, Live
<1>1. Owners(S) \subseteq {b \in allocated : kind[b] = "buf"}
  BY <1>t DEF Owners, Whites, Inv, HeapClosed, Abs!ClosedFrom
<1>2. \A o \in Obj : isMarked'[o] = IF o \in S \union Owners(S) THEN epoch ELSE isMarked[o]
  BY DEF MarkAll
<1>3. isMarked' \in [Obj -> BOOLEAN]
  BY <1>t DEF MarkAll, TypeOK
<1>4. \A o \in Obj : Marked(o)' <=> (o \in S \union Owners(S) \/ Marked(o))
  BY <1>2, <1>3, <1>t DEF Marked, TypeOK
<1>5. gray' = g \union Grayed(S) /\ Grayed(S) \subseteq S
  BY DEF MarkAll, Grayed, Whites
<1>6. ASSUME NEW o \in allocated \ gray', Marked(o)', ~Marked(o), NEW r \in refs[o]
      PROVE  Marked(r)'
  <2>1. o \in Obj /\ kind[o] \in Kinds /\ r \in allocated
    BY <1>t DEF TypeOK, Inv, HeapClosed, Abs!ClosedFrom
  <2>2. kind[o] # "buf"
    BY <1>t DEF Inv, HeapClosed
  <2>3. o \in S
    BY <1>1, <1>4, <1>6, <2>1, <2>2
  <2>4. kind[o] = "string"
    BY <1>5, <1>6, <2>1, <2>2, <2>3 DEF Grayed, Whites, Kinds, Traced
  <2>5. r \in Owners(S)
    BY <1>6, <2>3, <2>4 DEF Owners, Whites
  <2> QED
    BY <1>4, <1>t, <2>1, <2>5 DEF TypeOK
<1> QED
  BY <1>t, <1>3, <1>4, <1>5, <1>6 DEF TypeOK

LEMMA MarkRootsInv == Inv /\ MarkRoots => Inv'
<1> SUFFICES ASSUME Inv, MarkRoots PROVE Inv'
  OBVIOUS
<1>t. /\ pc = "roots" /\ pc' = "trace" /\ gray = {} /\ TypeOK
      /\ Live = allocated /\ Live' = allocated /\ Held' = Held
  BY DEF MarkRoots, Inv, TriColor, Live, Held, roots
<1>1. RootObjects \subseteq allocated /\ RootObjects' = RootObjects
  BY <1>t DEF RootObjects, Held, MarkRoots, roots, Inv, HeapClosed, Abs!ClosedFrom
<1>2. /\ isMarked' \in [Obj -> BOOLEAN]
      /\ gray' \subseteq allocated
      /\ \A o \in gray' : Marked(o)'
      /\ \A o \in RootObjects : Marked(o)'
      /\ \A o \in allocated \ gray' :
           Marked(o)' /\ ~Marked(o) => \A r \in refs[o] : Marked(r)'
  <2>1. MarkAll(RootObjects, {}) /\ UNCHANGED <<allocated, kind, refs, epoch>>
    BY <1>t DEF MarkRoots
  <2>2. RootObjects \in SUBSET allocated /\ {} \in SUBSET allocated
    BY <1>1
  <2> QED
    BY <1>t, <2>1, <2>2, MarkAllMarks
<1>3. TypeOK'
  BY <1>t, <1>2 DEF TypeOK, MarkRoots, roots, weak
<1>4. HeapClosed'
  BY <1>t DEF Inv, HeapClosed, MarkRoots, Abs!ClosedFrom
<1>5. WeakClosed'
  BY <1>t DEF Inv, WeakClosed, MarkRoots, roots, weak
<1>6. TriColor'
  <2>1. \A o \in allocated : ~Marked(o)
    BY <1>t DEF Inv, TriColor
  <2> QED
    BY <2>1, <1>t, <1>1, <1>2 DEF TriColor, MarkRoots
<1> QED
  BY <1>3, <1>4, <1>5, <1>6 DEF Inv

LEMMA BlackenInv == ASSUME NEW o \in Obj PROVE Inv /\ Blacken(o) => Inv'
<1> SUFFICES ASSUME Inv, Blacken(o) PROVE Inv'
  OBVIOUS
<1>t. /\ pc = "trace" /\ pc' = "trace" /\ o \in gray /\ TypeOK
      /\ Live = allocated /\ Live' = allocated /\ Held' = Held
      /\ RootObjects' = RootObjects
  BY DEF Blacken, Inv, Live, Held, RootObjects, roots
<1>c. /\ gray \subseteq {x \in allocated : Marked(x)}
      /\ \A x \in RootObjects : Marked(x) /\ x \in allocated
      /\ \A x \in allocated \ gray : Marked(x) => \A r \in refs[x] : Marked(r)
      /\ \A x \in allocated : refs[x] \subseteq allocated
  BY <1>t DEF Inv, TriColor, HeapClosed, Abs!ClosedFrom, Held, RootObjects
<1>1. /\ isMarked' \in [Obj -> BOOLEAN]
      /\ gray' \subseteq allocated
      /\ \A x \in gray' : x \in gray \ {o} \/ Marked(x)'
      /\ \A x \in refs[o] : Marked(x)'
      /\ \A x \in allocated : Marked(x) => Marked(x)'
      /\ \A x \in allocated \ gray' :
           Marked(x)' /\ ~Marked(x) => \A r \in refs[x] : Marked(r)'
  <2>1. refs[o] \in SUBSET allocated /\ gray \ {o} \in SUBSET allocated
    BY <1>t, <1>c
  <2> QED
    BY <1>t, <2>1, MarkAllMarks DEF Blacken
<1>g. gray \ {o} \subseteq gray'
  BY DEF Blacken, MarkAll
<1>2. TypeOK'
  BY <1>t, <1>1 DEF TypeOK, Blacken, roots, weak
<1>3. HeapClosed'
  BY <1>t DEF Inv, HeapClosed, Blacken, Abs!ClosedFrom
<1>4. WeakClosed'
  BY <1>t DEF Inv, WeakClosed, Blacken, roots, weak
<1>5. TriColor'
  <2>1. gray' \subseteq {x \in allocated : Marked(x)'}
    BY <1>c, <1>1
  <2>2. \A x \in RootObjects : Marked(x)'
    BY <1>c, <1>1
  <2>3. ASSUME NEW x \in allocated \ gray', Marked(x)' PROVE \A r \in refs[x] : Marked(r)'
    <3>1. CASE x = o
      BY <3>1, <1>1
    <3>2. CASE x # o /\ Marked(x)
      BY <3>2, <2>3, <1>g, <1>c, <1>1
    <3>3. CASE ~Marked(x)
      BY <3>3, <2>3, <1>1
    <3> QED
      BY <3>1, <3>2, <3>3
  <2> QED
    BY <2>1, <2>2, <2>3, <1>t DEF TriColor, Blacken
<1> QED
  BY <1>2, <1>3, <1>4, <1>5 DEF Inv

-----------------------------------------------------------------------------
(* The weak phase and the sweep.                                           *)

\* With nothing gray the marked objects are closed and hold every root: they are
\* what the sweep may leave.
LEMMA RemoveWhiteInv == Inv /\ RemoveWhite => Inv'
<1> SUFFICES ASSUME Inv, RemoveWhite PROVE Inv'
  OBVIOUS
<1>t. /\ pc = "trace" /\ pc' = "sweep" /\ gray = {} /\ TypeOK
      /\ Live = allocated /\ Held' = Held /\ local = NoObj
      /\ UNCHANGED <<allocated, kind, isMarked, refs, epoch, gray>>
  BY DEF RemoveWhite, TracedAll, Inv, WeakClosed, Live, Held, roots
<1>1. Live' = {o \in allocated : Marked(o)}
  BY <1>t DEF Live, Marked
<1>2. TypeOK'
  BY <1>t DEF TypeOK, RemoveWhite, roots, WhiteFreeIntern, WhiteFreeMega, WhiteFreeShape,
              FmtCleared
<1>3. HeapClosed'
  <2>1. \A o \in Held : o \in allocated /\ Marked(o)
    BY <1>t DEF Inv, TriColor, HeapClosed, Abs!ClosedFrom, Held, RootObjects
  <2>2. \A o \in Live' : refs[o] \subseteq Live'
    BY <1>1, <1>t DEF Inv, TriColor, HeapClosed, Abs!ClosedFrom
  <2> QED
    BY <1>1, <1>t, <2>1, <2>2 DEF Inv, HeapClosed, Abs!ClosedFrom
<1>4. WeakClosed'
  <2>1. \A s \in intern' \union fmt' : s \in Live' /\ kind'[s] = "string"
    BY <1>1, <1>t DEF Inv, WeakClosed, RemoveWhite, WhiteFreeIntern, FmtCleared
  <2>2. ASSUME mega' # <<>>
        PROVE  /\ mega'[1] \in Live' /\ mega'[2] \in Live' /\ mega'[3] \in Live'
               /\ kind'[mega'[1]] = "class" /\ kind'[mega'[2]] = "string"
    <3>1. mega' = mega /\ mega # <<>> /\ \A i \in 1 .. 3 : Marked(mega[i])
      BY <2>2 DEF RemoveWhite, WhiteFreeMega
    <3> QED
      BY <3>1, <1>1, <1>t DEF Inv, WeakClosed
  <2> QED
    BY <2>1, <2>2, <1>t DEF WeakClosed, RemoveWhite, roots
<1>5. TriColor'
  BY <1>t DEF TriColor
<1> QED
  BY <1>2, <1>3, <1>4, <1>5 DEF Inv

\* Freeing dead objects during the sweep leaves the live ones as they are.
LEMMA FreeKeepsLive ==
  ASSUME Inv, pc = "sweep", NEW S \in SUBSET Dead, Free(S), UNCHANGED epoch
  PROVE  /\ {o \in allocated' : Marked(o)'} = Live
         /\ Live \subseteq allocated'
         /\ allocated' \subseteq allocated
         /\ \A o \in Live : refs'[o] = refs[o] /\ kind'[o] = kind[o] /\ Marked(o)'
         /\ \A o \in Obj \ allocated' : refs'[o] = {}
         /\ kind' \in [Obj -> Kinds] /\ isMarked' \in [Obj -> BOOLEAN]
         /\ refs' \in [Obj -> SUBSET Obj]
<1>1. Live = {o \in allocated : Marked(o)} /\ TypeOK
  BY DEF Live, Inv
<1>2. \A o \in Obj \ S : refs'[o] = refs[o] /\ kind'[o] = kind[o] /\ isMarked'[o] = isMarked[o]
  BY DEF Free
<1>3. \A o \in Obj : o \in S => refs'[o] = {}
  BY DEF Free
<1>4. allocated' = allocated \ S /\ S \intersect Live = {} /\ allocated \subseteq Obj
  BY <1>1 DEF Free, Dead, TypeOK
<1>5. kind' \in [Obj -> Kinds] /\ isMarked' \in [Obj -> BOOLEAN] /\ refs' \in [Obj -> SUBSET Obj]
  BY <1>1 DEF Free, TypeOK, Kinds
<1> QED
  BY <1>1, <1>2, <1>3, <1>4, <1>5 DEF Inv, HeapClosed, Marked

LEMMA SweepListInv == ASSUME NEW o \in Obj PROVE Inv /\ SweepList(o) => Inv'
<1> SUFFICES ASSUME Inv, SweepList(o) PROVE Inv'
  OBVIOUS
<1>t. /\ pc = "sweep" /\ pc' = "sweep" /\ Held' = Held /\ TypeOK
      /\ UNCHANGED <<epoch, gray, roots, request, weak>>
  BY DEF SweepList, Inv, Held, roots
<1>1. {o} \in SUBSET Dead /\ Free({o})
  BY DEF SweepList
<1>2. /\ Live' = Live
      /\ allocated' \subseteq allocated
      /\ \A x \in Live : refs'[x] = refs[x] /\ kind'[x] = kind[x]
      /\ \A x \in Obj \ allocated' : refs'[x] = {}
      /\ kind' \in [Obj -> Kinds] /\ isMarked' \in [Obj -> BOOLEAN]
      /\ refs' \in [Obj -> SUBSET Obj]
  BY <1>t, <1>1, FreeKeepsLive DEF Live
<1>3. TypeOK'
  BY <1>t, <1>2 DEF TypeOK, roots, weak
<1>4. HeapClosed'
  BY <1>t, <1>2 DEF Inv, HeapClosed, Abs!ClosedFrom
<1>5. WeakClosed'
  BY <1>t, <1>2 DEF Inv, WeakClosed, roots, weak
<1>6. TriColor'
  BY <1>t DEF Inv, TriColor
<1> QED
  BY <1>3, <1>4, <1>5, <1>6 DEF Inv

LEMMA SweepPagesInv == Inv /\ SweepPages => Inv'
<1> SUFFICES ASSUME Inv, SweepPages PROVE Inv'
  OBVIOUS
<1>t. /\ pc = "sweep" /\ pc' = "run" /\ Held' = Held /\ TypeOK
      /\ UNCHANGED <<epoch, gray, roots, request, weak>>
      /\ Free(Dead)
  BY DEF SweepPages, Inv, Held, roots
<1>2. /\ Live' = Live /\ allocated' = Live
      /\ \A x \in Live : refs'[x] = refs[x] /\ kind'[x] = kind[x] /\ Marked(x)'
      /\ \A x \in Obj \ allocated' : refs'[x] = {}
      /\ kind' \in [Obj -> Kinds] /\ isMarked' \in [Obj -> BOOLEAN]
      /\ refs' \in [Obj -> SUBSET Obj]
  <2>1. allocated' = Live
    BY <1>t DEF Free, Dead, Live
  <2> QED
    BY <1>t, <2>1, FreeKeepsLive DEF Live
<1>3. TypeOK'
  BY <1>t, <1>2 DEF TypeOK, roots, weak, Live
<1>4. HeapClosed'
  BY <1>t, <1>2 DEF Inv, HeapClosed, Abs!ClosedFrom
<1>5. WeakClosed'
  BY <1>t, <1>2 DEF Inv, WeakClosed, roots, weak
<1>6. TriColor'
  BY <1>t, <1>2 DEF Inv, TriColor
<1> QED
  BY <1>3, <1>4, <1>5, <1>6 DEF Inv

-----------------------------------------------------------------------------
(* The theorems.                                                           *)

LEMMA StutterInv == Inv /\ UNCHANGED vars => Inv'
BY DEF Inv, vars, roots, weak, TypeOK, HeapClosed, WeakClosed, TriColor, Live, Held,
       RootObjects, Marked, Abs!ClosedFrom

LEMMA NextInv == Inv /\ [Next]_vars => Inv'
BY MutatorInv, SafepointInv, RequestObjectInv, FinishAllocInv, MarkRootsInv, BlackenInv,
   RemoveWhiteInv, SweepListInv, SweepPagesInv, StutterInv DEF Next, Collector

\* The invariant the collector's correctness rests on holds of every heap: the
\* tri-colour condition among it, for any number of blocks.
THEOREM Invariance == Spec => []Inv
BY InitInv, NextInv, PTL DEF Spec

\* Every variable keeps its type.
THEOREM TypeCorrect == Spec => []TypeOK
<1>1. Inv => TypeOK
  BY DEF Inv
<1> QED
  BY <1>1, Invariance, PTL

\* No black object names a white one while a trace runs, and between
\* collections every object is black.
THEOREM ColoursSound == Spec => []TriColor
<1>1. Inv => TriColor
  BY DEF Inv
<1> QED
  BY <1>1, Invariance, PTL

\* Nothing a program can reach is ever freed: jaiGCCollect is sound for every
\* heap, every order of marking and every point at which it may run.
THEOREM NothingReachableFreed == Spec => []NoDangling
<1>1. Inv => NoDangling
  BY ReachInLive, LiveInAllocated DEF NoDangling
<1> QED
  BY <1>1, Invariance, PTL

\* The weak tables name only what survived, whatever a collection freed.
THEOREM WeakHoldersSound == Spec => []WeakSound
<1>1. Inv => WeakSound
  BY DEF Inv, WeakClosed, WeakSound, Live
<1> QED
  BY <1>1, Invariance, PTL

-----------------------------------------------------------------------------
(* The collector implements HeapAbs.                                       *)

\* A program step maps to Program: it changes references and what is held
\* within the heap that is there.
LEMMA MutatorMaps ==
  ASSUME Inv, Inv', pc = "run", pc' = "run", allocated' = allocated
  PROVE  Abs!Program
<1>1. Live = allocated /\ Live' = allocated
  BY DEF Live
<1>2. Held' \in SUBSET allocated
  BY <1>1 DEF Inv, HeapClosed, Abs!ClosedFrom
<1>3. \A o \in allocated : refs'[o] \subseteq allocated
  BY <1>1 DEF Inv, HeapClosed, Abs!ClosedFrom
<1>4. \A o \in Obj \ allocated : refs'[o] = {}
  BY DEF Inv, HeapClosed
<1>5. refs' \in [Obj -> SUBSET allocated]
  BY <1>3, <1>4 DEF Inv, TypeOK
<1> QED
  BY <1>2, <1>4, <1>5 DEF Abs!Program

LEMMA FinishAllocMaps ==
  ASSUME Inv, Inv', NEW o \in Obj, FinishAlloc(o)
  PROVE  Abs!Allocate(o)
<1>1. /\ pc' = "run" /\ o \notin allocated /\ allocated' = allocated \union {o}
      /\ Live' = allocated'
  BY DEF FinishAlloc, Live
<1>2. Held' \in SUBSET allocated'
  BY <1>1 DEF Inv, HeapClosed, Abs!ClosedFrom
<1>3. \A x \in allocated' : refs'[x] \subseteq allocated'
  BY <1>1 DEF Inv, HeapClosed, Abs!ClosedFrom
<1>4. \A x \in Obj \ allocated' : refs'[x] = {}
  BY DEF Inv, HeapClosed
<1>5. refs' \in [Obj -> SUBSET allocated']
  BY <1>3, <1>4 DEF Inv, TypeOK
<1>6. \A x \in Obj \ {o} : refs'[x] = refs[x]
  BY DEF FinishAlloc, Inv, TypeOK
<1> QED
  BY <1>1, <1>2, <1>5, <1>6 DEF Abs!Allocate

LEMMA SweepMaps ==
  ASSUME Inv, pc = "sweep", NEW S \in SUBSET Dead, Free(S), UNCHANGED roots
  PROVE  Abs!Reclaim(S)
<1>1. Reach \intersect S = {} /\ S \subseteq allocated
  BY ReachInLive DEF Live, Dead
<1>2. Held' = Held
  BY DEF Held, roots
<1> QED
  BY <1>1, <1>2 DEF Abs!Reclaim, Free, Reach

LEMMA StepMaps == Inv /\ Inv' /\ [Next]_vars => [Abs!Next]_<<allocated, refs, Held>>
<1> SUFFICES ASSUME Inv, Inv', [Next]_vars PROVE [Abs!Next]_<<allocated, refs, Held>>
  OBVIOUS
<1>1. CASE Mutator
  <2>1. pc = "run" /\ pc' = "run" /\ allocated' = allocated
    BY <1>1 DEF Mutator, PushStack, PopStack, PushRoot, AddPermanentRoot, PopRoots, Store,
       Erase, MegaHit, NativeReturn, InternAdd, InternFind, FmtFill, FmtHit, RememberShape,
       MegaFill, Running, UnchangedHeap
  <2> QED
    BY <2>1, MutatorMaps DEF Abs!Next
<1>2. CASE Safepoint
  BY <1>2 DEF Safepoint, Held, roots
<1>3. ASSUME NEW k \in Made, RequestObject(k) PROVE Abs!Program
  <2>1. /\ Held' \subseteq Held /\ UNCHANGED <<allocated, refs>> /\ Live = allocated
    BY <1>3 DEF RequestObject, Held, Live, Running
  <2>2. Held' \in SUBSET allocated
    BY <2>1 DEF Inv, HeapClosed, Abs!ClosedFrom
  <2>3. refs' \in [Obj -> SUBSET allocated]
    BY <2>1 DEF Inv, TypeOK, HeapClosed, Abs!ClosedFrom
  <2> QED
    BY <2>1, <2>2, <2>3 DEF Abs!Program, Inv, HeapClosed
<1>4. ASSUME NEW o \in Obj, FinishAlloc(o) PROVE Abs!Next
  BY <1>4, FinishAllocMaps DEF Abs!Next
<1>5. CASE MarkRoots \/ RemoveWhite \/ \E o \in Obj : Blacken(o)
  BY <1>5 DEF MarkRoots, RemoveWhite, Blacken, Held, roots
<1>6. ASSUME NEW o \in Obj, SweepList(o) PROVE Abs!Next
  <2>1. {o} \in SUBSET Dead /\ {o} \in SUBSET Obj
    BY <1>6 DEF SweepList
  <2> QED
    BY <1>6, <2>1, SweepMaps DEF SweepList, Abs!Next
<1>7. CASE SweepPages
  <2>1. Dead \in SUBSET Obj
    BY DEF Dead, Inv, TypeOK
  <2> QED
    BY <1>7, <2>1, SweepMaps DEF SweepPages, Abs!Next
<1>8. CASE UNCHANGED vars
  BY <1>8 DEF vars, roots, Held
<1> QED
  BY <1>1, <1>2, <1>3, <1>4, <1>5, <1>6, <1>7, <1>8 DEF Next, Collector, Abs!Next

LEMMA InitMaps == Init => Abs!Init
BY DEF Init, Abs!Init, Held

\* What the collector does to the heap is what HeapAbs says may be done to it:
\* memory comes from blocks that are free and goes when nothing reaches it.
THEOREM CollectorImplementsHeap == Spec => RefinesHeap
<1>1. Inv /\ Inv' /\ [Next]_vars => [Abs!Next]_Abs!absVars
  BY StepMaps DEF Abs!absVars
<1> QED
  BY <1>1, InitMaps, Invariance, PTL DEF Spec, RefinesHeap, Abs!Spec
-----------------------------------------------------------------------------
(* A collection ends.                                                      *)

\* A turn of the trace marks something white or leaves less on the gray stack.
LEMMA BlackenAdvances == ASSUME Inv, NEW o \in Obj, Blacken(o) PROVE Advance
<1>t. /\ pc = "trace" /\ pc' = "trace" /\ o \in gray /\ gray \subseteq allocated
      /\ MarkAll(refs[o], gray \ {o}) /\ UNCHANGED <<allocated, kind, refs, epoch>>
      /\ refs[o] \in SUBSET allocated /\ refs[o] \subseteq Obj
  BY DEF Blacken, Inv, TypeOK, TriColor, HeapClosed, Live, Abs!ClosedFrom
<1>1. /\ \A x \in refs[o] : Marked(x)'
      /\ \A x \in allocated : Marked(x) => Marked(x)'
  <2>1. gray \ {o} \in SUBSET allocated
    BY <1>t
  <2> QED
    BY <1>t, <2>1, MarkAllMarks
<1>2. Dead' \subseteq Dead
  BY <1>t, <1>1 DEF Dead
<1>3. CASE \E x \in refs[o] : ~Marked(x)
  <2>1. PICK x \in refs[o] : ~Marked(x)
    BY <1>3
  <2>2. x \in Dead /\ x \notin Dead'
    BY <2>1, <1>t, <1>1 DEF Dead
  <2> QED
    BY <2>2, <1>t, <1>2 DEF Advance
<1>4. CASE \A x \in refs[o] : Marked(x)
  <2>1. gray' = gray \ {o}
    BY <1>4, <1>t DEF MarkAll, Grayed, Whites
  <2> QED
    BY <2>1, <1>t, <1>2 DEF Advance
<1> QED
  BY <1>3, <1>4

\* No step of a collection undoes an earlier one and no other step is taken
\* while it runs: what jaiGCCollect does ends for every finite heap.
THEOREM CollectionsAdvance == Spec => CollectionAdvances
<1>1. Inv /\ [Next]_vars => [pc # "run" => Advance]_vars
  <2> SUFFICES ASSUME Inv, [Next]_vars PROVE [pc # "run" => Advance]_vars
    OBVIOUS
  <2>1. ASSUME Next, pc # "run" PROVE Advance
    <3>1. Collector
      BY <2>1 DEF Next, Mutator, PushStack, PopStack, PushRoot, AddPermanentRoot, PopRoots,
         Store, Erase, MegaHit, NativeReturn, InternAdd, InternFind, FmtFill, FmtHit,
         RememberShape, MegaFill, Safepoint, RequestObject, FinishAlloc, Running
    <3>2. CASE MarkRoots \/ RemoveWhite \/ SweepPages
      BY <3>2 DEF MarkRoots, RemoveWhite, SweepPages, Advance
    <3>3. ASSUME NEW o \in Obj, Blacken(o) PROVE Advance
      BY <3>3, BlackenAdvances
    <3>4. ASSUME NEW o \in Obj, SweepList(o) PROVE Advance
      BY <3>4 DEF SweepList, Free, Dead, Advance
    <3> QED
      BY <3>1, <3>2, <3>3, <3>4 DEF Collector
  <2> QED
    BY <2>1
<1> QED
  BY <1>1, Invariance, PTL DEF Spec, CollectionAdvances

-----------------------------------------------------------------------------
(* What a collection keeps is what can be reached, no more.                *)

\* What the collection under way has marked can be reached.  (Nothing is said
\* of other times: the program drops references to objects that stay marked
\* until the next flip.)
MarksReached == pc \in {"trace", "sweep"} => {o \in allocated : Marked(o)} \subseteq Reach

\* Reach is one of the closed sets it is the least of.
LEMMA ReachClosed ==
  ASSUME TypeOK, Held \subseteq Obj
  PROVE  Reach \subseteq Obj /\ Abs!ClosedFrom(Reach, Held, refs)
<1>1. Reach \subseteq Obj
  BY DEF Reach, Abs!ReachFrom
<1>2. Held \subseteq Reach
  BY DEF Reach, Abs!ReachFrom, Abs!ClosedFrom
<1>3. ASSUME NEW o \in Reach, NEW r \in refs[o] PROVE r \in Reach
  <2>1. r \in Obj
    BY <1>1 DEF TypeOK
  <2>2. ASSUME NEW S \in SUBSET Obj, Abs!ClosedFrom(S, Held, refs) PROVE r \in S
    <3>1. o \in S
      BY <2>2, ReachInClosed
    <3> QED
      BY <2>2, <3>1 DEF Abs!ClosedFrom
  <2> QED
    BY <2>1, <2>2 DEF Reach, Abs!ReachFrom
<1> QED
  BY <1>1, <1>2, <1>3 DEF Abs!ClosedFrom

\* Freeing what is outside a closed set leaves what is reached as it is.
LEMMA ReachKept ==
  ASSUME NEW H, NEW r, NEW q, NEW L \in SUBSET Obj, Abs!ClosedFrom(L, H, r),
         \A o \in L : q[o] = r[o]
  PROVE  Abs!ReachFrom(H, r) \subseteq Abs!ReachFrom(H, q)
<1> SUFFICES ASSUME NEW x \in Abs!ReachFrom(H, r), NEW S \in SUBSET Obj, Abs!ClosedFrom(S, H, q)
             PROVE  x \in S
  BY DEF Abs!ReachFrom
<1>1. S \intersect L \in SUBSET Obj /\ Abs!ClosedFrom(S \intersect L, H, r)
  BY DEF Abs!ClosedFrom
<1> QED
  BY <1>1 DEF Abs!ReachFrom

\* MarkAll marks what it is given, and what that refers to.
LEMMA MarksWithin ==
  ASSUME Inv, pc \in {"roots", "trace"}, NEW S, S \subseteq Reach, NEW g, MarkAll(S, g),
         UNCHANGED <<allocated, kind, refs, epoch>>,
         {o \in allocated : Marked(o)} \subseteq Reach
  PROVE  {o \in allocated : Marked(o)}' \subseteq Reach
<1>1. TypeOK /\ Held \subseteq Obj /\ allocated \subseteq Obj
  BY DEF Inv, TypeOK, HeapClosed, Abs!ClosedFrom, Live
<1>2. Abs!ClosedFrom(Reach, Held, refs)
  BY <1>1, ReachClosed
<1>3. Owners(S) \subseteq Reach
  BY <1>2 DEF Owners, Whites, Abs!ClosedFrom
<1>4. ASSUME NEW o \in allocated, isMarked'[o] = epoch PROVE o \in Reach
  <2>1. isMarked'[o] = IF o \in S \union Owners(S) THEN epoch ELSE isMarked[o]
    BY <1>1 DEF MarkAll
  <2>2. CASE o \in S \union Owners(S)
    BY <1>3, <2>2
  <2>3. CASE o \notin S \union Owners(S)
    BY <1>4, <2>1, <2>3 DEF Marked
  <2> QED
    BY <2>2, <2>3
<1> QED
  BY <1>4 DEF Marked

\* Reach does not change while what is held and the references stay.
LEMMA ReachStays == UNCHANGED <<roots, refs>> => Reach' = Reach
BY DEF Reach, Abs!ReachFrom, Abs!ClosedFrom, Held, roots

\* Only what cannot be reached is freed, and the rest of the heap stays.
LEMMA SweepKeepsReach ==
  ASSUME Inv, pc = "sweep", NEW S \in SUBSET Dead, Free(S), UNCHANGED <<epoch, roots>>
  PROVE  Reach \subseteq Reach' /\ {o \in allocated' : Marked(o)'} = {o \in allocated : Marked(o)}
<1>1. /\ {o \in allocated' : Marked(o)'} = Live
      /\ \A o \in Live : refs'[o] = refs[o]
  BY FreeKeepsLive
<1>2. Live \in SUBSET Obj /\ Abs!ClosedFrom(Live, Held, refs) /\ Held' = Held
  BY DEF Inv, TypeOK, HeapClosed, Live, Held, roots
<1>3. Abs!ReachFrom(Held, refs) \subseteq Abs!ReachFrom(Held, refs')
  BY <1>1, <1>2, ReachKept
<1>4. Reach' = Abs!ReachFrom(Held, refs')
  BY <1>2 DEF Reach, Abs!ReachFrom, Abs!ClosedFrom
<1> QED
  BY <1>1, <1>3, <1>4 DEF Reach, Live

LEMMA MarksReachedNext ==
  ASSUME Inv, MarksReached, Collector
  PROVE  MarksReached'
<1>1. CASE MarkRoots
  <2>1. /\ pc = "roots" /\ RootObjects \subseteq Held /\ MarkAll(RootObjects, gray)
        /\ UNCHANGED <<allocated, kind, refs, epoch, roots>>
    BY <1>1 DEF MarkRoots, RootObjects, Held
  <2>2. Held \subseteq Reach
    BY DEF Reach, Abs!ReachFrom, Abs!ClosedFrom, Inv, HeapClosed, Live, TypeOK
  <2>3. {o \in allocated : Marked(o)} \subseteq Reach
    BY <2>1 DEF Inv, TriColor
  <2>4. {o \in allocated : Marked(o)}' \subseteq Reach
    BY <2>1, <2>2, <2>3, MarksWithin
  <2> QED
    BY <2>1, <2>4, ReachStays DEF MarksReached
<1>2. ASSUME NEW o \in Obj, Blacken(o) PROVE MarksReached'
  <2>1. /\ pc = "trace" /\ o \in gray /\ MarkAll(refs[o], gray \ {o})
        /\ UNCHANGED <<allocated, kind, refs, epoch, roots>>
    BY <1>2 DEF Blacken
  <2>2. {x \in allocated : Marked(x)} \subseteq Reach
    BY <2>1 DEF MarksReached
  <2>3. refs[o] \subseteq Reach
    <3>1. o \in Reach
      BY <2>1, <2>2 DEF Inv, TriColor
    <3>2. Abs!ClosedFrom(Reach, Held, refs)
      BY ReachClosed DEF Inv, TypeOK, HeapClosed, Abs!ClosedFrom, Live
    <3> QED
      BY <3>1, <3>2 DEF Abs!ClosedFrom
  <2>4. {x \in allocated : Marked(x)}' \subseteq Reach
    BY <2>1, <2>2, <2>3, MarksWithin
  <2> QED
    BY <2>1, <2>4, ReachStays DEF MarksReached
<1>3. CASE RemoveWhite
  BY <1>3, ReachStays DEF RemoveWhite, MarksReached, Marked
<1>4. ASSUME NEW o \in Obj, SweepList(o) PROVE MarksReached'
  <2>1. pc = "sweep" /\ {o} \in SUBSET Dead /\ Free({o}) /\ UNCHANGED <<epoch, roots>>
    BY <1>4 DEF SweepList
  <2>2. Reach \subseteq Reach' /\ {x \in allocated' : Marked(x)'} = {x \in allocated : Marked(x)}
    BY <2>1, SweepKeepsReach
  <2> QED
    BY <2>1, <2>2 DEF MarksReached
<1>5. CASE SweepPages
  BY <1>5 DEF SweepPages, MarksReached
<1> QED
  BY <1>1, <1>2, <1>3, <1>4, <1>5 DEF Collector

\* When jaiGCCollect returns, the heap is what the program can reach: what was
\* marked is reached from the roots, and what was not is freed.
THEOREM CollectionsExact == Spec => CollectExact
<1>1. Init => MarksReached
  BY DEF Init, MarksReached
<1>2. Inv /\ MarksReached /\ [Next]_vars => MarksReached'
  <2> SUFFICES ASSUME Inv, MarksReached, [Next]_vars PROVE MarksReached'
    OBVIOUS
  <2>1. CASE Collector
    BY <2>1, MarksReachedNext
  <2>2. CASE Next /\ ~Collector
    <3>1. pc = "run" /\ pc' \in {"run", "roots"}
      BY <2>2 DEF Next, Mutator, PushStack, PopStack, PushRoot, AddPermanentRoot, PopRoots,
         Store, Erase, MegaHit, NativeReturn, InternAdd, InternFind, FmtFill, FmtHit,
         RememberShape, MegaFill, Safepoint, RequestObject, FinishAlloc, Running, BeginCollect,
         UnchangedHeap
    <3> QED
      BY <3>1 DEF MarksReached
  <2>3. CASE UNCHANGED vars
    <3>1. UNCHANGED <<roots, refs, pc, allocated, isMarked, epoch>>
      BY <2>3 DEF vars
    <3> QED
      BY <3>1, ReachStays DEF MarksReached, Marked
  <2> QED
    BY <2>1, <2>2, <2>3
<1>3. Inv /\ NoDangling' /\ MarksReached /\ [Next]_vars
        => [pc = "sweep" /\ pc' = "run" => allocated' = Reach']_vars
  <2> SUFFICES ASSUME Inv, NoDangling', MarksReached, Next, pc = "sweep", pc' = "run"
               PROVE  allocated' = Reach'
    OBVIOUS
  <2>1. SweepPages
    BY DEF Next, Collector, Mutator, PushStack, PopStack, PushRoot, AddPermanentRoot, PopRoots,
       Store, Erase, MegaHit, NativeReturn, InternAdd, InternFind, FmtFill, FmtHit,
       RememberShape, MegaFill, Safepoint, RequestObject, FinishAlloc, Running, MarkRoots,
       RemoveWhite, Blacken, SweepList
  <2>2. Dead \in SUBSET Dead /\ Free(Dead) /\ UNCHANGED <<epoch, roots>>
    BY <2>1 DEF SweepPages
  <2>3. allocated' = {o \in allocated : Marked(o)}
    BY <2>2 DEF Free, Dead
  <2>4. allocated' \subseteq Reach /\ Reach \subseteq Reach'
    BY <2>2, <2>3, SweepKeepsReach DEF MarksReached
  <2>5. Reach' \subseteq allocated'
    BY DEF NoDangling
  <2> QED
    BY <2>4, <2>5
<1>4. Spec => []MarksReached
  BY <1>1, <1>2, Invariance, PTL DEF Spec
<1> QED
  BY <1>3, <1>4, Invariance, NothingReachableFreed, PTL DEF Spec, CollectExact

-----------------------------------------------------------------------------
(* When a collection runs: any sizes, thresholds, growth factor and stress  *)
(* cadence, and any number of front-end loads and collections.             *)

\* A pause belongs to a load of an unstressed front end that met a collector
\* that was running; without a pause the collector is as the program left it.
PauseOwned ==
  /\ paused => loading /\ ~enabled /\ ~inCollect /\ wanted /\ ~Stress
  /\ ~paused => enabled = wanted
  /\ paused => budget = nextGC

\* The threshold is never under the floor, and the base neither: the credits
\* since account for the difference.
Thresholds == MinHeap <= base /\ base <= nextGC /\ nextGC <= base + Grow * credited

Types ==
  /\ cadence \in Cadences
  /\ heap \in Nat /\ nextGC \in Nat /\ limit \in Nat
  /\ enabled \in BOOLEAN /\ inCollect \in BOOLEAN /\ paused \in BOOLEAN
  /\ loading \in BOOLEAN /\ heapBefore \in Nat
  /\ stressTick \in Nat
  /\ stressTick = 0 \/ stressTick < Every
  /\ asked \in {0} \union Sizes
  /\ wanted \in BOOLEAN /\ base \in Nat /\ credited \in Nat /\ budget \in Nat /\ made \in Nat

\* Under stress every allocation turns the counter (the cached limit is 0 and
\* the collector's own state is on the heap), so it counts at least as many.
Paced ==
  /\ heap >= 1
  /\ Stress => made <= stressTick

TInv == Types /\ LimitInSync /\ PauseOwned /\ Thresholds /\ Paced

-----------------------------------------------------------------------------
(* The threshold.                                                          *)

LEMMA NextThresholdFloor ==
  ASSUME NEW live \in Nat
  PROVE  NextThreshold(live) \in Nat /\ MinHeap <= NextThreshold(live)
<1>1. live * Grow \in Nat
  BY TriggerAssumption
<1> QED
  BY <1>1, TriggerAssumption DEF NextThreshold, Larger

\* A credit of b bytes raises the threshold by at most Grow times b.
LEMMA CreditBounded ==
  ASSUME NEW b \in Nat, Types, Thresholds
  PROVE  /\ Credit(b) \in Nat
         /\ nextGC <= Credit(b)
         /\ Credit(b) <= base + Grow * (credited + b)
<1>1. Grow \in Nat /\ Grow >= 1 /\ MinHeap \in Nat
  BY TriggerAssumption
<1>2. b * Grow \in Nat /\ Grow * b = b * Grow /\ Grow * credited \in Nat
  BY <1>1 DEF Types
<1>3. b <= b * Grow
  BY <1>1
<1>4. Grow * (credited + b) = Grow * credited + Grow * b
  BY <1>1 DEF Types
<1>5. NextThreshold(b) \in Nat /\ NextThreshold(b) <= base + Grow * b
  BY <1>1, <1>2 DEF NextThreshold, Larger, Types, Thresholds
<1>6. nextGC + b <= base + Grow * credited + Grow * b
  BY <1>2, <1>3 DEF Types, Thresholds
<1> QED
  BY <1>2, <1>4, <1>5, <1>6 DEF Credit, Larger, Types

LEMMA LimitTyped ==
  ASSUME NEW e \in BOOLEAN, NEW c \in BOOLEAN, NEW n \in Nat
  PROVE  LimitOf(e, c, n) \in Nat
BY DEF LimitOf

\* The cadence is set once.
LEMMA CadenceFixed ==
  ASSUME cadence' = cadence
  PROVE  Stress' = Stress /\ Every' = Every
BY DEF Stress, Every

LEMMA LimitNext ==
  ASSUME cadence' = cadence
  PROVE  LimitInSync' <=> limit' = LimitOf(enabled', inCollect', nextGC')
BY CadenceFixed DEF LimitInSync, LimitOf

LEMMA CadenceTyped ==
  ASSUME Types
  PROVE  Every \in Nat /\ Stress \in BOOLEAN
BY TriggerAssumption DEF Types, Stress, Every

-----------------------------------------------------------------------------
LEMMA InitTInv == TriggerInit => TInv
<1> SUFFICES ASSUME TriggerInit PROVE TInv
  OBVIOUS
<1>1. nextGC \in Nat /\ MinHeap <= nextGC
  BY NextThresholdFloor DEF TriggerInit
<1>2. limit \in Nat
  BY <1>1, LimitTyped DEF TriggerInit
<1>3. Grow * 0 = 0
  BY TriggerAssumption
<1> QED
  <2>1. Types
    BY <1>1, <1>2 DEF TriggerInit, Types
  <2>2. LimitInSync
    BY DEF TriggerInit, LimitInSync
  <2>3. PauseOwned
    BY DEF TriggerInit, PauseOwned
  <2>4. Thresholds
    BY <1>1, <1>3, TriggerAssumption DEF TriggerInit, Thresholds
  <2>5. Paced
    BY DEF TriggerInit, Paced
  <2> QED
    BY <2>1, <2>2, <2>3, <2>4, <2>5 DEF TInv

\* jaiGCMaybeCollect: what it may change stays in step.
LEMMA MaybeCollectInv ==
  ASSUME TInv, ~inCollect, MaybeCollect, UNCHANGED <<cadence, nextGC, enabled>>
  PROVE  /\ stressTick' \in Nat /\ (stressTick' = 0 \/ stressTick' < Every)
         /\ inCollect' \in BOOLEAN /\ limit' \in Nat
         /\ LimitInSync'
         /\ paused => ~inCollect'
<1> USE CadenceFixed, LimitNext
<1>1. stressTick' \in Nat /\ (stressTick' = 0 \/ stressTick' < Every)
  BY CadenceTyped DEF MaybeCollect, StressCounted, StressDue, TInv, Types
<1>2. CASE StartCollect /\ enabled
  BY <1>1, <1>2, LimitTyped DEF StartCollect, TInv, Types, LimitInSync, PauseOwned
<1>3. CASE UNCHANGED <<inCollect, limit>>
  BY <1>1, <1>3 DEF TInv, Types, LimitInSync
<1> QED
  BY <1>2, <1>3 DEF MaybeCollect

\* An allocation keeps pace, and so does the turn of a loop.
LEMMA PacedInv ==
  ASSUME TInv, ~inCollect, UNCHANGED <<cadence, nextGC, enabled>>,
         heap' \in Nat, heap' >= heap,
         heap > limit => MaybeCollect,
         \/ made' = IF inCollect' /\ StressDue THEN 0
                    ELSE IF enabled /\ made <= Every THEN made + 1 ELSE made
         \/ made' = IF inCollect' /\ StressDue THEN 0 ELSE made
  PROVE  Paced'
<1> USE CadenceFixed, CadenceTyped DEF TInv, Types
<1>1. heap' >= 1
  BY DEF Paced
<1>2. ASSUME Stress PROVE made' <= stressTick'
  <2>1. heap > limit
    BY <1>2 DEF LimitInSync, LimitOf, Paced
  <2>2. MaybeCollect
    BY <2>1
  <2>3. CASE ~enabled
    BY <1>2, <2>2, <2>3 DEF MaybeCollect, Paced
  <2>4. CASE enabled /\ StressDue
    <3>1. inCollect' /\ stressTick' \in Nat
      BY <2>2, <2>4, MaybeCollectInv DEF MaybeCollect, StartCollect
    <3>2. made' = 0
      BY <2>4, <3>1
    <3> QED
      BY <3>1, <3>2
  <2>5. CASE enabled /\ ~StressDue
    <3>1. stressTick' = stressTick + 1
      BY <1>2, <2>2, <2>5 DEF MaybeCollect, StressCounted, StressDue
    <3>2. made' <= made + 1
      BY <2>5
    <3>3. made' \in Nat
      BY <2>5
    <3> QED
      BY <1>2, <3>1, <3>2, <3>3 DEF Paced
  <2> QED
    BY <2>3, <2>4, <2>5
<1> QED
  BY <1>1, <1>2 DEF Paced

LEMMA NextTInv == TInv /\ [TriggerNext]_triggerVars => TInv'
<1> SUFFICES ASSUME TInv, [TriggerNext]_triggerVars PROVE TInv'
  OBVIOUS
<1> USE DEF TInv
<1>0. Sizes \subseteq Nat /\ \A n \in Sizes : n >= 1
  BY TriggerAssumption
<1>c. cadence' = cadence
  BY DEF TriggerNext, triggerVars
<1>d. /\ Stress' = Stress /\ Every' = Every
      /\ LimitInSync' <=> limit' = LimitOf(enabled', inCollect', nextGC')
  BY <1>c, CadenceFixed, LimitNext
<1> USE <1>c, <1>d
<1>1. ASSUME NEW n \in Sizes, AllocObj(n) PROVE TInv'
  <2>1. /\ stressTick' \in Nat /\ (stressTick' = 0 \/ stressTick' < Every)
        /\ inCollect' \in BOOLEAN /\ limit' \in Nat
        /\ LimitInSync'
        /\ paused => ~inCollect'
    <3>1. CASE MaybeCollect
      BY <1>1, <3>1, MaybeCollectInv DEF AllocObj
    <3>2. CASE UNCHANGED <<stressTick, inCollect, limit>>
      BY <1>1, <3>2 DEF AllocObj, Types, LimitInSync
    <3> QED
      BY <1>1, <3>1, <3>2 DEF AllocObj
  <2>2. heap' \in Nat /\ asked' \in {0} \union Sizes /\ made' \in Nat
    BY <1>1, <1>0 DEF AllocObj, Types
  <2>3. UNCHANGED <<nextGC, enabled, paused, loading, heapBefore, wanted, base, credited, budget>>
    BY <1>1 DEF AllocObj
  <2>4. heap' >= heap
    BY <1>1, <1>0 DEF AllocObj, Types
  <2>5. Paced'
    BY <1>1, <2>2, <2>4, PacedInv DEF AllocObj
  <2> QED
    BY <2>1, <2>2, <2>3, <2>5 DEF Types, PauseOwned, Thresholds
<1>2. ASSUME NEW n \in Sizes, GrowArray(n) PROVE TInv'
  BY <1>2, <1>0 DEF GrowArray, history, Types, LimitInSync, PauseOwned, Thresholds, Paced
<1>3. CASE LoopSafepoint
  <2>1. /\ stressTick' \in Nat /\ (stressTick' = 0 \/ stressTick' < Every)
        /\ inCollect' \in BOOLEAN /\ limit' \in Nat
        /\ LimitInSync'
        /\ paused => ~inCollect'
    BY <1>3, MaybeCollectInv DEF LoopSafepoint
  <2>2. made' \in Nat
    BY <1>3 DEF LoopSafepoint, Types
  <2>3. Paced'
    BY <1>3, PacedInv DEF LoopSafepoint, Types
  <2> QED
    BY <1>3, <2>1, <2>2, <2>3 DEF LoopSafepoint, Types, PauseOwned, Thresholds
<1>4. CASE GcCollect
  BY <1>4, LimitTyped DEF GcCollect, StartCollect, MayCollect, history, Types, LimitInSync,
     PauseOwned, Thresholds, Paced
<1>5. ASSUME NEW live \in 1 .. MaxHeap, EndCollect(live) PROVE TInv'
  <2>1. live \in Nat
    BY <1>5, TriggerAssumption
  <2>2. nextGC' \in Nat /\ MinHeap <= nextGC'
    BY <1>5, <2>1, NextThresholdFloor DEF EndCollect
  <2>3. limit' \in Nat /\ LimitInSync'
    BY <1>5, <2>2, LimitTyped DEF EndCollect, LimitSynced, LimitInSync, Types
  <2>4. Grow * credited' = 0
    BY <1>5, TriggerAssumption DEF EndCollect
  <2>5. Thresholds'
    BY <1>5, <2>2, <2>4 DEF EndCollect, Thresholds
  <2>6. heap' \in Nat /\ heap' >= 1
    BY <1>5, <1>0, <2>1 DEF EndCollect, Types
  <2> QED
    BY <1>5, <2>2, <2>3, <2>5, <2>6 DEF EndCollect, Types, PauseOwned, Paced
<1>6. ASSUME NEW b \in BOOLEAN, UserEnable(b) PROVE TInv'
  <2>1. ~paused
    BY <1>6 DEF UserEnable, PauseOwned
  <2>2. limit' \in Nat /\ LimitInSync'
    BY <1>6, LimitTyped DEF UserEnable, LimitSynced, LimitInSync, Types
  <2> QED
    BY <1>6, <2>1, <2>2 DEF UserEnable, Types, PauseOwned, Thresholds, Paced
<1>7. CASE FrontEndLoadBegin
  <2>1. limit' \in Nat /\ LimitInSync'
    BY <1>7, LimitTyped DEF FrontEndLoadBegin, LimitSynced, LimitInSync, Types
  <2>2. PauseOwned'
    BY <1>7 DEF FrontEndLoadBegin, Pauses, PauseOwned, Types
  <2> QED
    BY <1>7, <2>1, <2>2 DEF FrontEndLoadBegin, Types, Thresholds, Paced
<1>8. ASSUME NEW loaded \in BOOLEAN, FrontEndLoadEnd(loaded) PROVE TInv'
  <2> DEFINE built == heap - heapBefore
             owed  == paused /\ loaded /\ heap > heapBefore
  <2>1. owed => built \in Nat
    BY DEF Types
  <2>2. nextGC' = (IF owed THEN Credit(built) ELSE nextGC)
        /\ credited' = (IF owed THEN credited + built ELSE credited)
    BY <1>8 DEF FrontEndLoadEnd
  <2>3. nextGC' \in Nat /\ credited' \in Nat /\ Thresholds'
    <3>0. base' = base
      BY <1>8 DEF FrontEndLoadEnd
    <3>1. CASE owed
      <4> HIDE DEF built, owed
      <4> QED
        BY <3>0, <3>1, <2>1, <2>2, CreditBounded DEF Types, Thresholds
    <3>2. CASE ~owed
      BY <3>0, <3>2, <2>2 DEF Types, Thresholds
    <3> QED
      BY <3>1, <3>2
  <2>4. limit' \in Nat /\ LimitInSync'
    BY <1>8, <2>3, LimitTyped DEF FrontEndLoadEnd, LimitSynced, LimitInSync, PauseOwned, Types
  <2>5. PauseOwned'
    BY <1>8 DEF FrontEndLoadEnd, PauseOwned, Types
  <2> QED
    BY <1>8, <2>3, <2>4, <2>5 DEF FrontEndLoadEnd, Types, Paced
<1>9. CASE UNCHANGED triggerVars
  BY <1>9 DEF triggerVars, history, Types, LimitInSync, PauseOwned, Thresholds, Paced
<1> QED
  BY <1>1, <1>2, <1>3, <1>4, <1>5, <1>6, <1>7, <1>8, <1>9 DEF TriggerNext, Step

LEMMA TriggerInvariance == TriggerSpec => []TInv
BY InitTInv, NextTInv, PTL DEF TriggerSpec

\* The cached jaiGCLimit never disagrees with its four inputs, whichever of
\* collections, user calls, pauses and credits changed them last.
THEOREM LimitNeverStale == TriggerSpec => []LimitInSync
<1>1. TInv => LimitInSync
  BY DEF TInv
<1> QED
  BY <1>1, TriggerInvariance, PTL

\* Nothing is collected under a front-end pause, and a pause only covers a load.
THEOREM PauseSound == TriggerSpec => []PauseHolds
<1>1. TInv => PauseHolds
  BY DEF TInv, PauseOwned, PauseHolds
<1> QED
  BY <1>1, TriggerInvariance, PTL

\* Loading the front end never turns on a collector the program turned off, nor
\* leaves one off that it wanted.
THEOREM UserChoiceSurvives == TriggerSpec => []UserChoiceKept
<1>1. TInv => UserChoiceKept
  BY DEF TInv, PauseOwned, UserChoiceKept
<1> QED
  BY <1>1, TriggerInvariance, PTL

\* However many loads are credited between two collections, the threshold rises
\* by at most Grow times the bytes credited.
THEOREM CreditsDoNotRatchet == TriggerSpec => []NoRatchet
<1>1. TInv => NoRatchet
  BY DEF TInv, Thresholds, NoRatchet
<1> QED
  BY <1>1, TriggerInvariance, PTL

\* Every variable keeps its type; the stress counter never reaches the cadence.
THEOREM TriggerTyped == TriggerSpec => []TriggerTypeOK
<1>1. TInv => TriggerTypeOK
  BY TriggerAssumption, CadenceTyped DEF TInv, Types, TriggerTypeOK, Larger
<1> QED
  BY <1>1, TriggerInvariance, PTL

\* Under --gc-stress=N an enabled collector lets fewer than N allocations pass
\* between two of its collections.
THEOREM StressNeverSkips == TriggerSpec => []StressReaches
<1>1. TInv => StressReaches
  BY CadenceTyped DEF TInv, Types, Paced, StressReaches, Larger
<1> QED
  BY <1>1, TriggerInvariance, PTL

\* An allocation that goes through with the collector on leaves no overdue
\* collection behind: the cached limit is never the reason one is missed.
THEOREM NoCollectionMissed == TriggerSpec => CollectsWhenDue
<1>1. ASSUME TInv, NEW n \in Sizes, AllocObj(n), enabled, ~inCollect'
      PROVE  heap <= nextGC
  <2>1. CASE heap > limit
    <3>1. MaybeCollect
      BY <1>1, <2>1 DEF AllocObj
    <3>2. ~(heap > nextGC)
      BY <1>1, <3>1 DEF MaybeCollect, StartCollect
    <3> QED
      BY <1>1, <3>2 DEF TInv, Types
  <2>2. CASE ~(heap > limit)
    BY <1>1, <2>2 DEF AllocObj, TInv, Types, LimitInSync, LimitOf
  <2> QED
    BY <2>1, <2>2
<1>2. TInv /\ [TriggerNext]_triggerVars
        => [\A n \in Sizes : AllocObj(n) /\ enabled /\ ~inCollect' => heap <= nextGC]_triggerVars
  BY <1>1
<1> QED
  BY <1>2, TriggerInvariance, PTL DEF TriggerSpec, CollectsWhenDue

\* A load that succeeds takes nothing off what the program could still allocate
\* before its next collection.
THEOREM LoadsKeepTheBudget == TriggerSpec => BudgetKept
<1>1. ASSUME TInv, paused, FrontEndLoadEnd(TRUE)
      PROVE  nextGC' - budget >= heap - heapBefore
  <2>1. nextGC \in Nat /\ heap \in Nat /\ heapBefore \in Nat /\ budget = nextGC
    BY <1>1 DEF TInv, Types, PauseOwned
  <2>2. CASE heap > heapBefore
    <3>1. heap - heapBefore \in Nat /\ nextGC' = Credit(heap - heapBefore)
      BY <1>1, <2>1, <2>2 DEF FrontEndLoadEnd
    <3>2. NextThreshold(heap - heapBefore) \in Nat
      BY <3>1, NextThresholdFloor
    <3>3. nextGC' \in Nat /\ nextGC' >= nextGC + (heap - heapBefore)
      BY <2>1, <3>1, <3>2 DEF Credit, Larger
    <3> QED
      BY <2>1, <3>1, <3>3
  <2>3. CASE ~(heap > heapBefore)
    <3>1. nextGC' = nextGC
      BY <1>1, <2>3 DEF FrontEndLoadEnd
    <3> QED
      BY <2>1, <2>3, <3>1
  <2> QED
    BY <2>2, <2>3
<1>2. TInv /\ [TriggerNext]_triggerVars
        => [paused /\ FrontEndLoadEnd(TRUE) => nextGC' - budget >= heap - heapBefore]_triggerVars
  BY <1>1
<1> QED
  BY <1>2, TriggerInvariance, PTL DEF TriggerSpec, BudgetKept
=============================================================================
