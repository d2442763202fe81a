----------------------------- MODULE GcTrigger -----------------------------
(***************************************************************************)
(* When the collector of src/src/vm/gc.c runs.                              *)
(*                                                                          *)
(* An allocation compares jaiHeapBytes with jaiGCLimit, a cached word that  *)
(* jaiGCSyncLimit derives from four inputs: collecting is enabled, none is  *)
(* under way, stress mode is off, and nextGC.  A limit of 0 sends every     *)
(* allocation to jaiGCMaybeCollect, which decides again from the inputs     *)
(* themselves.  Loading the self-hosted front end (module.c) pauses the     *)
(* collector and credits what it built to the threshold afterwards.         *)
(***************************************************************************)
EXTENDS Naturals

CONSTANTS
  Sizes,     \* bytes one allocation asks for
  MinHeap,   \* GCState.minHeap
  Grow,      \* GCState.growFactor, a whole number here
  Cadences,  \* the settings of --gc-stress=N to start with; 0: not given
  MaxHeap    \* bound: bytes in the heap

ASSUME TriggerAssumption ==
  /\ Sizes \subseteq Nat \ {0}
  /\ MinHeap \in Nat \ {0}
  /\ Grow \in Nat \ {0}
  /\ Cadences \subseteq Nat
  /\ MaxHeap \in Nat

VARIABLES
  cadence,     \* vm.gcStress and vm.gcStressEvery, set once by the command line
  heap,        \* jaiHeapBytes
  nextGC,      \* GCState.nextGC
  limit,       \* jaiGCLimit
  enabled,     \* GCState.enabled
  inCollect,   \* jaiGCInCollect
  stressTick,  \* GCState.stressTick
  asked,       \* bytes of the allocation that met the collection; 0: none
  paused,      \* FrontEndPause.paused of the load under way
  loading,     \* sLoadingFrontEnd
  heapBefore,  \* FrontEndPause.heapBefore
  wanted,      \* history: what gc_enable and gc_disable asked for last
  base,        \* history: the threshold the last collection (or start) set
  credited,    \* history: bytes credited since
  budget,      \* history: nextGC when the pause began
  made         \* history: allocations since the last stress collection, those
               \* made while the collector was disabled not counted

history == <<wanted, base, credited, budget, made>>
triggerVars == <<cadence, heap, nextGC, limit, enabled, inCollect, stressTick, asked,
          paused, loading, heapBefore, history>>

Larger(a, b) == IF a >= b THEN a ELSE b

Stress == cadence > 0
Every  == cadence

\* gcNextThreshold
NextThreshold(live) == Larger(live * Grow, MinHeap)

\* (slip: stress mode is not one of the inputs)
LimitUnstressed(e, c, next) == IF e /\ ~c THEN next ELSE 0
\* jaiGCSyncLimit
LimitOf(e, c, next) == IF e /\ ~c /\ ~Stress THEN next ELSE 0

\* The collector's own state is on the heap it counts.
TriggerInit ==
  /\ cadence \in Cadences
  /\ heap = 1
  /\ nextGC = NextThreshold(1)
  /\ enabled = TRUE /\ inCollect = FALSE
  /\ limit = LimitOf(TRUE, FALSE, nextGC)
  /\ stressTick = 0 /\ asked = 0
  /\ paused = FALSE /\ loading = FALSE /\ heapBefore = 0
  /\ wanted = TRUE /\ base = nextGC /\ credited = 0 /\ budget = 0 /\ made = 0

\* gcStressDue: whether this call is the Everyth, and the counter after it.
StressDue == Stress /\ (Every <= 1 \/ stressTick + 1 >= Every)
StressCounted ==
  stressTick' = IF ~Stress \/ Every <= 1 THEN stressTick
                ELSE IF StressDue THEN 0 ELSE stressTick + 1

\* jaiGCCollect up to the sweep.
StartCollect ==
  /\ inCollect' = TRUE
  /\ limit' = LimitOf(enabled, TRUE, nextGC)

\* (slip: the limit follows before the threshold moves)
LimitEarly(e, next) == LimitOf(e, FALSE, nextGC)
\* What jaiGCSyncLimit leaves once no collection is under way.
LimitSynced(e, next) == LimitOf(e, FALSE, next)

\* jaiGCMaybeCollect
MaybeCollect ==
  IF ~enabled THEN UNCHANGED <<stressTick, inCollect, limit>>
  ELSE /\ StressCounted
       /\ IF StressDue \/ heap > nextGC THEN StartCollect
          ELSE UNCHANGED <<inCollect, limit>>

\* allocObj of n bytes: it asks only when the heap is past the limit.
AllocObj(n) ==
  /\ ~inCollect /\ asked = 0
  /\ heap + n <= MaxHeap
  /\ IF heap > limit THEN MaybeCollect ELSE UNCHANGED <<stressTick, inCollect, limit>>
  /\ IF inCollect' THEN asked' = n /\ UNCHANGED heap
                   ELSE asked' = 0 /\ heap' = heap + n
  /\ made' = IF inCollect' /\ StressDue THEN 0
             ELSE IF enabled /\ made <= Every THEN made + 1 ELSE made
  /\ UNCHANGED <<nextGC, enabled, paused, loading, heapBefore, wanted, base, credited, budget>>

\* A list's array or a table grows through jaiRealloc, which only counts.
GrowArray(n) ==
  /\ ~inCollect /\ asked = 0
  /\ heap + n <= MaxHeap
  /\ heap' = heap + n
  /\ UNCHANGED <<nextGC, limit, enabled, inCollect, stressTick, asked, paused,
                 loading, heapBefore, history>>

\* The loop back edge: OP_LOOP tests jaiGCWanted before the safepoint.
LoopSafepoint ==
  /\ ~inCollect /\ asked = 0
  /\ heap > limit
  /\ MaybeCollect
  /\ made' = IF inCollect' /\ StressDue THEN 0 ELSE made
  /\ UNCHANGED <<heap, nextGC, enabled, asked, paused, loading, heapBefore,
                 wanted, base, credited, budget>>

\* jaiGCCollect returns at once when the collector is disabled.
MayCollect == enabled

\* __prim__.gc_collect
GcCollect ==
  /\ ~inCollect /\ asked = 0 /\ MayCollect
  /\ StartCollect
  /\ UNCHANGED <<heap, nextGC, enabled, stressTick, asked, paused, loading,
                 heapBefore, history>>

\* The rest of jaiGCCollect: `live` bytes survive, the
\* collector's own among them; the allocation that met it goes on.
EndCollect(live) ==
  /\ inCollect
  /\ 1 <= live /\ live <= heap
  /\ heap' = live + asked
  /\ asked' = 0
  /\ nextGC' = NextThreshold(live)
  /\ inCollect' = FALSE
  /\ limit' = LimitSynced(enabled, nextGC')
  /\ base' = nextGC' /\ credited' = 0
  /\ UNCHANGED <<enabled, stressTick, paused, loading, heapBefore, wanted, budget, made>>

\* __prim__.gc_enable and gc_disable, called by the program.  Front-end
\* modules never call them.
UserEnable(b) ==
  /\ ~inCollect /\ asked = 0 /\ ~loading
  /\ enabled' = b /\ wanted' = b
  /\ limit' = LimitSynced(b, nextGC)
  /\ UNCHANGED <<heap, nextGC, inCollect, stressTick, asked, paused, loading,
                 heapBefore, base, credited, budget, made>>

\* (slip: the pause does not ask whether the program has disabled it already)
PausesAlways == ~Stress
\* frontEndLoadBegin pauses only a collector that runs and is not stressed.
Pauses == ~Stress /\ enabled

FrontEndLoadBegin ==
  /\ ~inCollect /\ asked = 0 /\ ~loading
  /\ loading' = TRUE
  /\ IF Pauses
     THEN /\ enabled' = FALSE /\ paused' = TRUE
          /\ limit' = LimitSynced(FALSE, nextGC)
          /\ heapBefore' = heap
     ELSE UNCHANGED <<enabled, paused, limit, heapBefore>>
  /\ budget' = nextGC
  /\ UNCHANGED <<heap, nextGC, inCollect, stressTick, asked, wanted, base, credited, made>>

\* jaiGCCredit
Credit(bytes) == Larger(nextGC + bytes, NextThreshold(bytes))

\* frontEndLoadEnd: the program's collector is back, then the credit.
FrontEndLoadEnd(loaded) ==
  /\ ~inCollect /\ asked = 0 /\ loading
  /\ loading' = FALSE /\ paused' = FALSE /\ heapBefore' = 0
  /\ LET owed == paused /\ loaded /\ heap > heapBefore
         built == heap - heapBefore
     IN /\ nextGC' = IF owed THEN Credit(built) ELSE nextGC
        /\ credited' = IF owed THEN credited + built ELSE credited
  /\ IF paused THEN enabled' = TRUE /\ limit' = LimitSynced(TRUE, nextGC')
               ELSE UNCHANGED <<enabled, limit>>
  /\ UNCHANGED <<heap, inCollect, stressTick, asked, wanted, base, budget, made>>

Step ==
  \/ \E n \in Sizes : AllocObj(n) \/ GrowArray(n)
  \/ LoopSafepoint \/ GcCollect
  \/ \E live \in 1 .. MaxHeap : EndCollect(live)
  \/ \E b \in BOOLEAN : UserEnable(b) \/ FrontEndLoadEnd(b)
  \/ FrontEndLoadBegin

TriggerNext == Step /\ UNCHANGED cadence

TriggerSpec == TriggerInit /\ [][TriggerNext]_triggerVars

-----------------------------------------------------------------------------
TriggerTypeOK ==
  /\ cadence \in Cadences
  /\ heap \in Nat /\ nextGC \in Nat /\ limit \in Nat
  /\ enabled \in BOOLEAN /\ inCollect \in BOOLEAN
  /\ stressTick \in 0 .. Larger(Every, 1) - 1 /\ asked \in {0} \union Sizes
  /\ paused \in BOOLEAN /\ loading \in BOOLEAN /\ heapBefore \in Nat
  /\ wanted \in BOOLEAN /\ base \in Nat /\ credited \in Nat
  /\ budget \in Nat /\ made \in Nat

\* jaiGCLimit is a cached copy: after every call that changes one of its four
\* inputs it equals what they say.
LimitInSync == limit = LimitOf(enabled, inCollect, nextGC)

\* An object allocation that goes through while the collector runs leaves no
\* overdue collection behind: the heap was within the threshold before it.
CollectsWhenDue ==
  [][\A n \in Sizes : AllocObj(n) /\ enabled /\ ~inCollect' => heap <= nextGC]_triggerVars

\* The pause is the front end's own: outside a load the collector is on
\* exactly when the program left it on, however many loads there were.
UserChoiceKept == ~loading => enabled = wanted

\* A pause only ever covers a load, and nothing is collected under it.
PauseHolds == paused => loading /\ ~enabled /\ ~inCollect

\* gc.h at jaiGCCredit: credits raise the threshold only in proportion to the
\* bytes credited, never to the heap as it stands, so that repeated front-end
\* loads cannot ratchet the next collection out of reach.
NoRatchet == base <= nextGC /\ nextGC <= base + Grow * credited

\* gc.h at jaiGCCredit: what was left of the budget before a load that
\* succeeds is left after it.
BudgetKept ==
  [][paused /\ FrontEndLoadEnd(TRUE) => nextGC' - budget >= heap - heapBefore]_triggerVars

\* Stress mode: an enabled collector never lets Every allocations pass.
StressReaches == Stress => made < Larger(Every, 1)

=============================================================================
