--------------------------- MODULE Import_proofs ---------------------------
(***************************************************************************)
(* Proofs about Import, for any modules, any imports between them, any      *)
(* seeded and front-end modules, any limit on nesting.                      *)
(*                                                                          *)
(* A step works at the top of the import stack: it keeps the first k        *)
(* frames and does something above them. Stepped and Alike say that in a    *)
(* form in which each conjunct about the stack is proved once, instead of   *)
(* once for each action.                                                    *)
(*                                                                          *)
(* LoadingOnStack is carried by OneLoad, and RunsSource by Places and       *)
(* InWindow: a module whose body is about to run is in windowed whenever    *)
(* the flag is up, and the flag is up only under a window. OneFrontEnd      *)
(* needs the most. What a frame asked for is there, on top of it or has     *)
(* failed (Asked), and a loaded module of the front end has what it         *)
(* imports (LoadedClosed), so that the modules that are there when a        *)
(* window closes are closed under imports and hold all of Reached           *)
(* (AllArrived).  That a warm-up leaves the module it is for to be published*)
(* afterwards, with the room it needs, is WarmedFor.                        *)
(***************************************************************************)
EXTENDS Import, FiniteSetTheorems, SequenceTheorems, TLAPS

-----------------------------------------------------------------------------
(* Stacks.                                                                  *)

At == Windows \union Published \union {"prelude", "main"}
FrameType == [mod : Module, todo : SUBSET Module, was : BOOLEAN, at : At]

LEMMA Frames ==
  ASSUME TypeOK
  PROVE  /\ stack \in Seq(FrameType) /\ Len(stack) \in Nat /\ DOMAIN stack = 1 .. Len(stack)
         /\ \A i \in 1 .. Len(stack) :
              /\ stack[i] \in FrameType /\ stack[i].mod \in Module
              /\ stack[i].todo \subseteq Module /\ stack[i].at \in At
         /\ stack # <<>> <=> Len(stack) > 0
<1>1. stack \in Seq(FrameType)
  BY DEF TypeOK, FrameType, At
<1>2. stack # <<>> <=> Len(stack) > 0
  BY <1>1, EmptySeq
<1>3. Len(stack) \in Nat /\ DOMAIN stack = 1 .. Len(stack)
  BY <1>1
<1>4. \A i \in 1 .. Len(stack) : stack[i] \in FrameType
  BY <1>1, <1>3
<1> QED
  BY <1>1, <1>2, <1>3, <1>4 DEF FrameType

LEMMA TopIs ==
  ASSUME TypeOK, stack # <<>>
  PROVE  /\ Len(stack) \in Nat /\ Len(stack) >= 1
         /\ Top = stack[Len(stack)] /\ Top \in FrameType
         /\ Top.mod \in Module /\ Top.todo \subseteq Module /\ Top.at \in At
<1>1. Len(stack) \in Nat /\ Len(stack) > 0 /\ Len(stack) \in 1 .. Len(stack)
  BY Frames
<1> QED
  BY <1>1, Frames DEF Top

LEMMA RestIs ==
  ASSUME TypeOK, stack # <<>>
  PROVE  /\ Rest \in Seq(FrameType) /\ Len(Rest) = Len(stack) - 1
         /\ \A i \in 1 .. Len(stack) - 1 : Rest[i] = stack[i]
<1>1. Len(stack) \in Nat /\ Len(stack) > 0 /\ \A i \in 1 .. Len(stack) : stack[i] \in FrameType
  BY Frames
<1>2. PICK n : n = Len(stack) - 1
  OBVIOUS
<1>3. n \in Nat /\ \A i \in 1 .. n : stack[i] \in FrameType
  BY <1>1, <1>2
<1>4. /\ SubSeq(stack, 1, n) \in Seq(FrameType)
      /\ Len(SubSeq(stack, 1, n)) = IF 1 <= n THEN n - 1 + 1 ELSE 0
      /\ \A i \in 1 .. n - 1 + 1 : SubSeq(stack, 1, n)[i] = stack[1 + i - 1]
  BY <1>3, SubSeqProperties
<1>5. /\ Rest = SubSeq(stack, 1, n) /\ Len(SubSeq(stack, 1, n)) = n
      /\ \A i \in 1 .. n : SubSeq(stack, 1, n)[i] = stack[i]
  BY <1>2, <1>3, <1>4 DEF Rest
<1> QED
  BY <1>2, <1>4, <1>5

LEMMA ReplacedIs ==
  ASSUME TypeOK, stack # <<>>, NEW f \in FrameType
  PROVE  /\ Replaced(f) \in Seq(FrameType) /\ Len(Replaced(f)) = Len(stack)
         /\ \A i \in 1 .. Len(stack) - 1 : Replaced(f)[i] = stack[i]
         /\ Replaced(f)[Len(stack)] = f
<1>1. PICK r : r = Rest
  OBVIOUS
<1>2. r \in Seq(FrameType) /\ Len(r) = Len(stack) - 1 /\ Len(stack) \in Nat /\ Len(stack) > 0
      /\ \A i \in 1 .. Len(stack) - 1 : r[i] = stack[i]
  BY <1>1, RestIs, Frames
<1>3. Replaced(f) = Append(r, f)
  BY <1>1 DEF Replaced
<1> QED
  BY <1>2, <1>3

\* The frame on top has asked for m.
LEMMA BelowIs ==
  ASSUME TypeOK, stack # <<>>, NEW m
  PROVE  /\ Below(m) \in Seq(FrameType) /\ Len(Below(m)) = Len(stack)
         /\ \A i \in 1 .. Len(stack) - 1 : Below(m)[i] = stack[i]
         /\ Below(m)[Len(stack)] = [Top EXCEPT !.todo = @ \ {m}]
<1>1. PICK f : f = [Top EXCEPT !.todo = @ \ {m}]
  OBVIOUS
<1>2. f \in FrameType
  BY <1>1, TopIs DEF FrameType
<1>3. PICK r : r = Below(m)
  OBVIOUS
<1>4. r = Replaced(f)
  BY <1>1, <1>3 DEF Below
<1>5. /\ r \in Seq(FrameType) /\ Len(r) = Len(stack)
      /\ \A i \in 1 .. Len(stack) - 1 : r[i] = stack[i]
      /\ r[Len(stack)] = f
  BY <1>2, <1>4, ReplacedIs
<1> QED
  BY <1>1, <1>3, <1>5

\* What the step leaves of the stack: the calls up to k are the same, except
\* for what the one on top has still to import.
Alike(k) ==
  /\ k <= Len(stack) /\ k <= Len(stack')
  /\ \A i \in 1 .. k : /\ stack'[i].mod = stack[i].mod /\ stack'[i].at = stack[i].at
                       /\ stack'[i].was = stack[i].was
                       /\ i < Len(stack) => stack'[i].todo = stack[i].todo

\* The five ways a step changes the stack.
LEMMA Asks ==
  ASSUME TypeOK, stack # <<>>, NEW m, stack' = Below(m)
  PROVE  /\ stack' \in Seq(FrameType) /\ Len(stack') = Len(stack) /\ Alike(Len(stack))
         /\ stack'[Len(stack)].todo = Top.todo \ {m}
<1>1. /\ stack' \in Seq(FrameType) /\ Len(stack') = Len(stack)
      /\ \A i \in 1 .. Len(stack) - 1 : stack'[i] = stack[i]
      /\ stack'[Len(stack)] = [Top EXCEPT !.todo = @ \ {m}]
  BY BelowIs
<1>2. Len(stack) \in Nat /\ Top = stack[Len(stack)] /\ Top \in FrameType
  BY TopIs
<1>3. PICK t : t = stack'[Len(stack)]
  OBVIOUS
<1>4. t.mod = Top.mod /\ t.at = Top.at /\ t.was = Top.was /\ t.todo = Top.todo \ {m}
  BY <1>1, <1>2, <1>3 DEF FrameType
<1>5. PICK n : n = Len(stack)
  OBVIOUS
<1>6. n \in Nat /\ \A i \in 1 .. n : i < n => i \in 1 .. n - 1
  BY <1>2, <1>5
<1>7. \A i \in 1 .. n : i < n => stack'[i] = stack[i]
  BY <1>1, <1>5, <1>6
<1>8. /\ stack'[n].mod = stack[n].mod /\ stack'[n].at = stack[n].at
      /\ stack'[n].was = stack[n].was
  BY <1>2, <1>3, <1>4, <1>5
<1>9. \A i \in 1 .. n : i < n \/ i = n
  BY <1>6
<1>10. Alike(n)
  BY <1>1, <1>5, <1>6, <1>7, <1>8, <1>9 DEF Alike
<1> QED
  BY <1>1, <1>3, <1>4, <1>5, <1>10

LEMMA Pushes ==
  ASSUME TypeOK, stack # <<>>, NEW m, NEW f \in FrameType, stack' = Append(Below(m), f)
  PROVE  /\ stack' \in Seq(FrameType) /\ Len(stack') = Len(stack) + 1 /\ Alike(Len(stack))
         /\ stack'[Len(stack)].todo = Top.todo \ {m}
         /\ stack'[Len(stack) + 1] = f
<1>1. PICK b : b = Below(m)
  OBVIOUS
<1>2. /\ b \in Seq(FrameType) /\ Len(b) = Len(stack)
      /\ \A i \in 1 .. Len(stack) - 1 : b[i] = stack[i]
      /\ b[Len(stack)] = [Top EXCEPT !.todo = @ \ {m}]
  BY <1>1, BelowIs
<1>3. Len(stack) \in Nat /\ Len(stack) >= 1 /\ Top = stack[Len(stack)] /\ Top \in FrameType
  BY TopIs
<1>4. /\ stack' \in Seq(FrameType) /\ Len(stack') = Len(stack) + 1
      /\ \A i \in 1 .. Len(stack) : stack'[i] = b[i]
      /\ stack'[Len(stack) + 1] = f
  <2>1. stack' = Append(b, f)
    BY <1>1
  <2>2. /\ Append(b, f) \in Seq(FrameType) /\ Len(Append(b, f)) = Len(b) + 1
        /\ \A i \in 1 .. Len(b) : Append(b, f)[i] = b[i]
        /\ Append(b, f)[Len(b) + 1] = f
    BY <1>2
  <2> QED
    BY <1>2, <2>1, <2>2
<1>5. PICK t : t = b[Len(stack)]
  OBVIOUS
<1>6. t.mod = Top.mod /\ t.at = Top.at /\ t.was = Top.was /\ t.todo = Top.todo \ {m}
  BY <1>2, <1>3, <1>5 DEF FrameType
<1>7. PICK n : n = Len(stack)
  OBVIOUS
<1>8. n \in Nat /\ \A i \in 1 .. n : (i < n => i \in 1 .. n - 1) /\ (i < n \/ i = n)
  BY <1>3, <1>7
<1>9. \A i \in 1 .. n : i < n => stack'[i] = stack[i]
  BY <1>2, <1>4, <1>7, <1>8
<1>10. stack'[n] = t
  BY <1>3, <1>4, <1>5, <1>7
<1>11. /\ stack'[n].mod = stack[n].mod /\ stack'[n].at = stack[n].at
       /\ stack'[n].was = stack[n].was /\ stack'[n].todo = Top.todo \ {m}
  BY <1>3, <1>6, <1>7, <1>10
<1>12. Len(stack') = n + 1 /\ Len(stack) = n
  BY <1>4, <1>7
<1>13. Alike(n)
  BY <1>8, <1>9, <1>11, <1>12 DEF Alike
<1> QED
  BY <1>4, <1>7, <1>11, <1>13

LEMMA Stacks ==
  ASSUME TypeOK, stack # <<>>, NEW f \in FrameType, stack' = Append(stack, f)
  PROVE  /\ stack' \in Seq(FrameType) /\ Len(stack') = Len(stack) + 1 /\ Alike(Len(stack))
         /\ stack'[Len(stack)].todo = Top.todo
         /\ stack'[Len(stack) + 1] = f
<1>1. /\ stack \in Seq(FrameType) /\ Len(stack) \in Nat /\ Len(stack) >= 1
      /\ Top = stack[Len(stack)]
  BY TopIs, Frames
<1>2. /\ stack' \in Seq(FrameType) /\ Len(stack') = Len(stack) + 1
      /\ \A i \in 1 .. Len(stack) : stack'[i] = stack[i]
      /\ stack'[Len(stack) + 1] = f
  BY <1>1
<1> QED
  BY <1>1, <1>2 DEF Alike

LEMMA Replaces ==
  ASSUME TypeOK, stack # <<>>, NEW f \in FrameType, stack' = Replaced(f)
  PROVE  /\ stack' \in Seq(FrameType) /\ Len(stack') = Len(stack) /\ Alike(Len(stack) - 1)
         /\ stack'[Len(stack)] = f
<1>1. /\ stack' \in Seq(FrameType) /\ Len(stack') = Len(stack)
      /\ \A i \in 1 .. Len(stack) - 1 : stack'[i] = stack[i]
      /\ stack'[Len(stack)] = f
  BY ReplacedIs
<1>2. Len(stack) \in Nat
  BY TopIs
<1> QED
  BY <1>1, <1>2 DEF Alike

LEMMA Pops ==
  ASSUME TypeOK, stack # <<>>, stack' = Rest
  PROVE  /\ stack' \in Seq(FrameType) /\ Len(stack') = Len(stack) - 1 /\ Alike(Len(stack) - 1)
<1>1. /\ stack' \in Seq(FrameType) /\ Len(stack') = Len(stack) - 1
      /\ \A i \in 1 .. Len(stack) - 1 : stack'[i] = stack[i]
  BY RestIs
<1>2. Len(stack) \in Nat
  BY TopIs
<1> QED
  BY <1>1, <1>2 DEF Alike

\* A step that changes at most the call above the first k.
Stepped(k) ==
  /\ stack' \in Seq(FrameType) /\ Alike(k)
  /\ Len(stack) \in {k, k + 1} /\ Len(stack') \in {k, k + 1}

LEMMA SeqFacts ==
  ASSUME NEW s \in Seq(FrameType)
  PROVE  Len(s) \in Nat /\ DOMAIN s = 1 .. Len(s) /\ (s # <<>> <=> Len(s) > 0)
BY EmptySeq

LEMMA After ==
  ASSUME NEW k \in Nat, Stepped(k)
  PROVE  /\ DOMAIN stack' = 1 .. Len(stack') /\ Len(stack') \in Nat
         /\ stack' # <<>> <=> Len(stack') > 0
<1>1. PICK s : s = stack'
  OBVIOUS
<1>2. s \in Seq(FrameType)
  BY <1>1 DEF Stepped
<1> QED
  BY <1>1, <1>2, SeqFacts

LEMMA Shape ==
  ASSUME TypeOK, NEW k \in Nat, Stepped(k)
  PROVE  /\ DOMAIN stack = 1 .. Len(stack) /\ DOMAIN stack' = 1 .. Len(stack')
         /\ \A i \in DOMAIN stack : i \in 1 .. k \/ (i = k + 1 /\ Len(stack) = k + 1)
         /\ \A i \in DOMAIN stack' : i \in 1 .. k \/ (i = k + 1 /\ Len(stack') = k + 1)
         /\ \A i \in 1 .. k :
              /\ i \in DOMAIN stack /\ i \in DOMAIN stack'
              /\ stack'[i].mod = stack[i].mod /\ stack'[i].at = stack[i].at
              /\ stack'[i].was = stack[i].was
              /\ i < Len(stack) => stack'[i].todo = stack[i].todo
         /\ \A i \in DOMAIN stack : i \in 1 .. Len(stack) /\ stack[i].mod \in Module
<1>1. DOMAIN stack = 1 .. Len(stack) /\ DOMAIN stack' = 1 .. Len(stack')
  BY Frames, After
<1>2. /\ \A i \in 1 .. Len(stack) : i \in 1 .. k \/ (i = k + 1 /\ Len(stack) = k + 1)
      /\ \A i \in 1 .. Len(stack') : i \in 1 .. k \/ (i = k + 1 /\ Len(stack') = k + 1)
      /\ \A i \in 1 .. k : i \in 1 .. Len(stack) /\ i \in 1 .. Len(stack')
  BY DEF Stepped
<1>3. \A i \in 1 .. k : /\ stack'[i].mod = stack[i].mod /\ stack'[i].at = stack[i].at
                        /\ stack'[i].was = stack[i].was
                        /\ i < Len(stack) => stack'[i].todo = stack[i].todo
  BY DEF Stepped, Alike
<1>4. \A i \in 1 .. Len(stack) : stack[i].mod \in Module
  BY Frames
<1> QED
  BY <1>1, <1>2, <1>3, <1>4

\* The call at the bottom stays.
LEMMA Bottom ==
  ASSUME TypeOK, NEW k \in Nat \ {0}, Stepped(k)
  PROVE  /\ stack # <<>> /\ stack' # <<>> /\ stack'[1].mod = stack[1].mod
         /\ Entered' <=> Entered
<1>1. 1 \in 1 .. k /\ Len(stack) > 0 /\ Len(stack') > 0
  BY DEF Stepped
<1>2. stack'[1].mod = stack[1].mod /\ stack'[1].at = stack[1].at
  BY <1>1, Shape
<1>3. stack # <<>> /\ stack' # <<>>
  BY <1>1, Frames, After
<1> QED
  BY <1>2, <1>3 DEF Entered

-----------------------------------------------------------------------------
(* How deep the stack is.                                                   *)

LEMMA Finite ==
  ASSUME TypeOK, NEW n
  PROVE  IsFiniteSet(PublishedBelow(n)) /\ Cardinality(PublishedBelow(n)) \in Nat
<1>1. IsFiniteSet(DOMAIN stack)
  BY Frames, FS_Interval
<1> QED
  BY <1>1, FS_Subset, FS_CardinalityType DEF PublishedBelow

LEMMA DepthIs ==
  ASSUME TypeOK
  PROVE  /\ Depth = Cardinality(PublishedBelow(Len(stack) + 1))
         /\ stack # <<>> /\ Top.at \in Published =>
              Cardinality(PublishedBelow(Len(stack))) < Depth
<1>1. DOMAIN stack = 1 .. Len(stack) /\ Len(stack) \in Nat
  BY Frames
<1>2. PublishedBelow(Len(stack) + 1) = {i \in DOMAIN stack : stack[i].at \in Published}
  BY <1>1 DEF PublishedBelow
<1>3. Depth = Cardinality(PublishedBelow(Len(stack) + 1))
  BY <1>2 DEF Depth
<1>4. ASSUME stack # <<>>, Top.at \in Published
      PROVE  Cardinality(PublishedBelow(Len(stack))) < Depth
  <2>1. Top = stack[Len(stack)] /\ Len(stack) \in DOMAIN stack
    BY <1>1, <1>4, TopIs
  <2>2. /\ PublishedBelow(Len(stack) + 1) = PublishedBelow(Len(stack)) \union {Len(stack)}
        /\ Len(stack) \notin PublishedBelow(Len(stack))
    BY <1>1, <1>4, <2>1 DEF PublishedBelow
  <2>3. PICK A, n : A = PublishedBelow(Len(stack)) /\ n = Len(stack)
    OBVIOUS
  <2>4. IsFiniteSet(A) /\ Cardinality(A) \in Nat
    BY <2>3, Finite
  <2>5. Cardinality(A \union {n}) = Cardinality(A) + 1
    BY <2>2, <2>3, <2>4, FS_AddElement
  <2> QED
    <3>1. PICK d : d = Depth
      OBVIOUS
    <3>2. PublishedBelow(Len(stack) + 1) = A \union {n}
      BY <2>2, <2>3
    <3>3. d = Cardinality(A) + 1
      BY <1>3, <2>5, <3>1, <3>2
    <3> QED
      BY <2>3, <2>4, <3>1, <3>3
<1> QED
  BY <1>3, <1>4

LEMMA DepthKept ==
  ASSUME TypeOK, NEW k \in Nat, Stepped(k), NEW n \in 0 .. k + 1
  PROVE  PublishedBelow(n)' = PublishedBelow(n)
<1>1. \A j : j \in PublishedBelow(n) <=> j \in 1 .. k /\ j < n /\ stack[j].at \in Published
  BY Shape DEF PublishedBelow
<1>2. \A j : j \in PublishedBelow(n)' <=> j \in 1 .. k /\ j < n /\ stack'[j].at \in Published
  BY Shape DEF PublishedBelow
<1>3. \A j \in 1 .. k : stack'[j].at = stack[j].at
  BY Shape
<1>4. \A j : j \in PublishedBelow(n)' <=> j \in PublishedBelow(n)
  BY <1>1, <1>2, <1>3
<1> QED
  BY <1>4

\* A call is published only where there is room.
LEMMA DepthOK ==
  ASSUME TypeOK, NEW k \in Nat, Stepped(k),
         Len(stack') = k + 1 /\ stack'[k + 1].at \in Published =>
           Cardinality(PublishedBelow(k + 1)) < MaxDepth
  PROVE  Depth' <= MaxDepth
<1>1. PICK A, D, E : /\ A = PublishedBelow(k + 1) /\ D = {i \in DOMAIN stack : stack[i].at \in Published}
                     /\ E = {i \in DOMAIN stack' : stack'[i].at \in Published}
  OBVIOUS
<1>2. IsFiniteSet(D) /\ IsFiniteSet(A) /\ Cardinality(A) \in Nat /\ Cardinality(D) \in Nat
  <2>1. IsFiniteSet(D)
    <3>1. PICK X : X = DOMAIN stack
      OBVIOUS
    <3>2. IsFiniteSet(X)
      BY <3>1, Frames, FS_Interval
    <3>3. D \subseteq X
      BY <1>1, <3>1
    <3> QED
      BY <3>2, <3>3, FS_Subset
  <2> QED
    BY <2>1, <1>1, Finite, FS_CardinalityType
<1>3. A \subseteq D /\ Cardinality(A) <= Cardinality(D) /\ Cardinality(D) <= MaxDepth
  <2>1. A \subseteq D
    BY <1>1 DEF PublishedBelow
  <2> QED
    BY <2>1, <1>1, <1>2, FS_Subset DEF TypeOK, Depth
<1>4. \A i : i \in E <=> i \in A \/ (i = k + 1 /\ Len(stack') = k + 1 /\ stack'[k + 1].at \in Published)
  <2>1. \A j : j \in A <=> j \in 1 .. k /\ stack[j].at \in Published
    BY <1>1, Shape DEF PublishedBelow
  <2>2. \A j \in 1 .. k : stack'[j].at = stack[j].at
    BY Shape
  <2>3. DOMAIN stack' = 1 .. Len(stack') /\ (Len(stack') = k \/ Len(stack') = k + 1)
    BY Shape DEF Stepped
  <2>4. \A i : i \in DOMAIN stack' <=> i \in 1 .. k \/ (i = k + 1 /\ Len(stack') = k + 1)
    <3>1. PICK n, X : n = Len(stack') /\ X = DOMAIN stack'
      OBVIOUS
    <3>2. X = 1 .. n /\ (n = k \/ n = k + 1)
      BY <2>3, <3>1
    <3>3. \A i : i \in 1 .. n <=> i \in 1 .. k \/ (i = k + 1 /\ n = k + 1)
      BY <3>2
    <3> QED
      BY <3>1, <3>2, <3>3
  <2> QED
    BY <1>1, <2>1, <2>2, <2>4
<1>5. Depth' = Cardinality(E)
  BY <1>1 DEF Depth
<1>6. CASE Len(stack') = k + 1 /\ stack'[k + 1].at \in Published
  <2>1. E = A \union {k + 1}
    BY <1>4, <1>6
  <2>2. Cardinality(E) <= Cardinality(A) + 1
    <3>1. Cardinality(A \union {k + 1}) =
            IF k + 1 \in A THEN Cardinality(A) ELSE Cardinality(A) + 1
      BY <1>2, FS_AddElement
    <3> QED
      BY <2>1, <3>1, <1>2
  <2>3. Cardinality(E) \in Nat
    BY <2>1, <1>2, FS_AddElement, FS_CardinalityType
  <2>4. Cardinality(A) < MaxDepth
    BY <1>1, <1>6
  <2> QED
    BY <1>2, <1>5, <2>2, <2>3, <2>4, ImportAssumption
<1>7. CASE ~(Len(stack') = k + 1 /\ stack'[k + 1].at \in Published)
  <2>1. E = A
    BY <1>4, <1>7
  <2> QED
    BY <1>2, <1>3, <1>5, <2>1, ImportAssumption
<1> QED
  BY <1>6, <1>7

-----------------------------------------------------------------------------
(* What a step has to show of the call it changes, part by part.            *)

LEMMA WarmedForKept ==
  ASSUME TypeOK, WarmedFor, NEW k \in Nat, Stepped(k),
         Len(stack') = k + 1 /\ stack'[k + 1].at = "warming" =>
           /\ Cardinality(PublishedBelow(k + 1)) < MaxDepth
           /\ \A j \in 1 .. k : stack[j].at \in Published \union {"main"} =>
                stack[j].mod # stack'[k + 1].mod
  PROVE  WarmedFor'
<1> SUFFICES ASSUME NEW i \in DOMAIN stack', stack'[i].at = "warming"
             PROVE  /\ Cardinality(PublishedBelow(i)') < MaxDepth
                    /\ \A j \in 1 .. i - 1 : stack'[j].at \in Published \union {"main"} =>
                         stack'[j].mod # stack'[i].mod
  BY DEF WarmedFor
<1>1. i \in 1 .. k \/ (i = k + 1 /\ Len(stack') = k + 1)
  BY Shape
<1>2. i \in 0 .. k + 1 /\ \A j \in 1 .. i - 1 : j \in 1 .. k
  BY <1>1
<1>3. PublishedBelow(i)' = PublishedBelow(i)
  BY <1>2, DepthKept
<1>4. \A j \in 1 .. k : stack'[j].at = stack[j].at /\ stack'[j].mod = stack[j].mod
  BY Shape
<1>5. CASE i \in 1 .. k
  <2>1. i \in DOMAIN stack /\ stack[i].at = "warming" /\ stack[i].mod = stack'[i].mod
    BY <1>5, Shape
  <2> QED
    BY <2>1, <1>2, <1>3, <1>4 DEF WarmedFor
<1>6. CASE i = k + 1 /\ Len(stack') = k + 1
  BY <1>2, <1>3, <1>4, <1>6
<1> QED
  BY <1>1, <1>5, <1>6

LEMMA InWindowKept ==
  ASSUME TypeOK, InWindow, NEW k \in Nat, Stepped(k),
         loading' => \/ \E i \in 1 .. k : stack[i].at \in Windows
                     \/ Len(stack') = k + 1 /\ stack'[k + 1].at \in Windows,
         Len(stack') = k + 1 /\ stack'[k + 1].at \in Windows /\ stack'[k + 1].was =>
           \E j \in 1 .. k : stack[j].at \in Windows
  PROVE  InWindow'
<1>1. \A j \in 1 .. k : /\ stack'[j].at = stack[j].at /\ stack'[j].was = stack[j].was
                        /\ j \in DOMAIN stack /\ j \in DOMAIN stack'
  BY Shape
<1>2. DOMAIN stack' = 1 .. Len(stack')
  BY Shape
<1>3. loading' => \E i \in DOMAIN stack' : stack'[i].at \in Windows
  <2>1. Len(stack') = k + 1 => k + 1 \in DOMAIN stack'
    BY <1>2
  <2> QED
    BY <1>1, <2>1
<1>4. ASSUME NEW i \in DOMAIN stack', stack'[i].at \in Windows, stack'[i].was
      PROVE  \E j \in 1 .. i - 1 : stack'[j].at \in Windows
  <2>1. i \in 1 .. k \/ (i = k + 1 /\ Len(stack') = k + 1)
    BY Shape
  <2>2. \A j \in 1 .. i - 1 : j \in 1 .. k
    BY <2>1
  <2>3. CASE i \in 1 .. k
    <3>1. PICK j \in 1 .. i - 1 : stack[j].at \in Windows
      BY <2>3, <1>1, <1>4 DEF InWindow
    <3> QED
      BY <3>1, <2>2, <1>1
  <2>4. CASE i = k + 1 /\ Len(stack') = k + 1
    <3>1. PICK j \in 1 .. k : stack[j].at \in Windows
      BY <2>4, <1>4
    <3>2. j \in 1 .. i - 1
      BY <2>4
    <3> QED
      BY <3>1, <3>2, <1>1
  <2> QED
    BY <2>1, <2>3, <2>4
<1> QED
  BY <1>3, <1>4 DEF InWindow

\* Where a call may be, at position i of the stack s, over modules in state st.
Placed(s, i, st, lf, w) ==
  /\ s[i].at \in {"prelude", "main"} => i = 1
  /\ s[i].at = "main" => st[s[i].mod] = "loaded"
  /\ s[i].at = "eval" => i > 1 /\ s[i - 1].at \in {"body", "main"} /\ s[i - 1].mod \in User
  /\ s[i].at = "load" => i = Len(s) /\ s[i].todo = {} /\ (lf => s[i].mod \in w)

LEMMA PlacesKept ==
  ASSUME TypeOK, Places, NEW k \in Nat, Stepped(k),
         \A i \in 1 .. k : stack[i].at # "load",
         \A i \in 1 .. k : stack[i].at = "main" => state'[stack[i].mod] = "loaded",
         Len(stack') = k + 1 => Placed(stack', k + 1, state', loading', windowed')
  PROVE  Places'
<1> SUFFICES ASSUME NEW i \in DOMAIN stack'
             PROVE  Placed(stack', i, state', loading', windowed')
  BY DEF Places, Placed
<1>1. i \in 1 .. k \/ (i = k + 1 /\ Len(stack') = k + 1)
  BY Shape
<1>2. CASE i \in 1 .. k
  <2>1. i \in DOMAIN stack /\ stack'[i].at = stack[i].at /\ stack'[i].mod = stack[i].mod
    BY <1>2, Shape
  <2>2. i > 1 => stack'[i - 1].at = stack[i - 1].at /\ stack'[i - 1].mod = stack[i - 1].mod
    <3>1. i > 1 => i - 1 \in 1 .. k
      BY <1>2
    <3> QED
      BY <3>1, Shape
  <2> QED
    BY <1>2, <2>1, <2>2 DEF Places, Placed
<1>3. CASE i = k + 1 /\ Len(stack') = k + 1
  BY <1>3
<1> QED
  BY <1>1, <1>2, <1>3

\* The calls that have published a module: those up to k, and the one above.
LEMMA CallsAre ==
  ASSUME TypeOK, NEW k \in Nat, Stepped(k)
  PROVE  \A m, i :
           /\ i \in CallsOf(m) <=>
                \/ i \in 1 .. k /\ stack[i].mod = m /\ stack[i].at \in Published
                \/ i = k + 1 /\ Len(stack) = k + 1
                   /\ stack[k + 1].mod = m /\ stack[k + 1].at \in Published
           /\ i \in CallsOf(m)' <=>
                \/ i \in 1 .. k /\ stack[i].mod = m /\ stack[i].at \in Published
                \/ i = k + 1 /\ Len(stack') = k + 1
                   /\ stack'[k + 1].mod = m /\ stack'[k + 1].at \in Published
<1>1. /\ Len(stack) = k + 1 => k + 1 \in DOMAIN stack
      /\ Len(stack') = k + 1 => k + 1 \in DOMAIN stack'
  <2>1. DOMAIN stack = 1 .. Len(stack) /\ DOMAIN stack' = 1 .. Len(stack')
    BY Shape
  <2>2. k + 1 \in 1 .. k + 1
    OBVIOUS
  <2> QED
    BY <2>1, <2>2
<1>2. /\ \A i \in DOMAIN stack : i \in 1 .. k \/ (i = k + 1 /\ Len(stack) = k + 1)
      /\ \A i \in DOMAIN stack' : i \in 1 .. k \/ (i = k + 1 /\ Len(stack') = k + 1)
      /\ \A i \in 1 .. k :
           /\ i \in DOMAIN stack /\ i \in DOMAIN stack'
           /\ stack'[i].mod = stack[i].mod /\ stack'[i].at = stack[i].at
  BY Shape
<1>3. \A m, i : i \in CallsOf(m) <=>
         i \in DOMAIN stack /\ stack[i].mod = m /\ stack[i].at \in Published
  BY DEF CallsOf
<1>4. \A m, i : i \in CallsOf(m)' <=>
         i \in DOMAIN stack' /\ stack'[i].mod = m /\ stack'[i].at \in Published
  BY DEF CallsOf
<1>5. ASSUME NEW m, NEW i
      PROVE  /\ i \in CallsOf(m) <=>
                \/ i \in 1 .. k /\ stack[i].mod = m /\ stack[i].at \in Published
                \/ i = k + 1 /\ Len(stack) = k + 1
                   /\ stack[k + 1].mod = m /\ stack[k + 1].at \in Published
             /\ i \in CallsOf(m)' <=>
                \/ i \in 1 .. k /\ stack[i].mod = m /\ stack[i].at \in Published
                \/ i = k + 1 /\ Len(stack') = k + 1
                   /\ stack'[k + 1].mod = m /\ stack'[k + 1].at \in Published
  BY <1>1, <1>2, <1>3, <1>4
<1> QED
  BY <1>5

\* No call publishes or gives up a module.
LEMMA LoadKept ==
  ASSUME TypeOK, OneLoad, NEW k \in Nat, Stepped(k),
         \A m \in Module :
           (Len(stack') = k + 1 /\ stack'[k + 1].mod = m /\ stack'[k + 1].at \in Published)
             <=> (Len(stack) = k + 1 /\ stack[k + 1].mod = m /\ stack[k + 1].at \in Published),
         \A m \in Module : state'[m] = "loading" <=> state[m] = "loading"
  PROVE  OneLoad'
<1> SUFFICES ASSUME NEW m \in Module
             PROVE  IF state'[m] = "loading" THEN \E i \in DOMAIN stack' : CallsOf(m)' = {i}
                                             ELSE CallsOf(m)' = {}
  BY DEF OneLoad
<1>1. CallsOf(m)' = CallsOf(m)
  <2>1. \A i : i \in CallsOf(m)' <=> i \in CallsOf(m)
    BY CallsAre
  <2> QED
    BY <2>1
<1>2. \A i : i \in CallsOf(m)' => i \in DOMAIN stack'
  BY DEF CallsOf
<1> QED
  BY <1>1, <1>2 DEF OneLoad

LEMMA LoadStarts ==
  ASSUME TypeOK, OneLoad, NEW k \in Nat, Stepped(k), NEW x \in Module,
         Len(stack) = k + 1 => stack[k + 1].at \notin Published,
         Len(stack') = k + 1 /\ stack'[k + 1].mod = x /\ stack'[k + 1].at \in Published,
         state[x] # "loading",
         \A m \in Module : state'[m] = "loading" <=> state[m] = "loading" \/ m = x
  PROVE  OneLoad'
<1> SUFFICES ASSUME NEW m \in Module
             PROVE  IF state'[m] = "loading" THEN \E i \in DOMAIN stack' : CallsOf(m)' = {i}
                                             ELSE CallsOf(m)' = {}
  BY DEF OneLoad
<1>1. \A i : i \in CallsOf(m)' => i \in DOMAIN stack'
  BY DEF CallsOf
<1>2. CASE m # x
  <2>1. \A i : i \in CallsOf(m)' <=> i \in CallsOf(m)
    BY <1>2, CallsAre
  <2>2. CallsOf(m)' = CallsOf(m)
    BY <2>1
  <2> QED
    BY <1>1, <1>2, <2>2 DEF OneLoad
<1>3. CASE m = x
  <2>1. CallsOf(x) = {}
    BY DEF OneLoad
  <2>2. \A i : i \in CallsOf(x)' <=> i = k + 1
    BY <2>1, CallsAre
  <2>3. CallsOf(x)' = {k + 1}
    BY <2>2
  <2> QED
    BY <1>1, <1>3, <2>3
<1> QED
  BY <1>2, <1>3

LEMMA LoadStops ==
  ASSUME TypeOK, OneLoad, NEW k \in Nat, Stepped(k), NEW x \in Module,
         Len(stack) = k + 1 /\ stack[k + 1].mod = x /\ stack[k + 1].at \in Published,
         Len(stack') = k + 1 => stack'[k + 1].at \notin Published,
         \A m \in Module : state'[m] = "loading" <=> state[m] = "loading" /\ m # x
  PROVE  OneLoad' /\ state[x] = "loading"
<1>1. k + 1 \in CallsOf(x)
  BY CallsAre
<1>2. state[x] = "loading" /\ CallsOf(x) = {k + 1}
  BY <1>1 DEF OneLoad
<1>3. ASSUME NEW m \in Module
      PROVE  IF state'[m] = "loading" THEN \E i \in DOMAIN stack' : CallsOf(m)' = {i}
                                      ELSE CallsOf(m)' = {}
  <2>1. \A i : i \in CallsOf(m)' => i \in DOMAIN stack'
    BY DEF CallsOf
  <2>2. CASE m # x
    <3>1. \A i : i \in CallsOf(m)' <=> i \in CallsOf(m)
      BY <2>2, CallsAre
    <3>2. CallsOf(m)' = CallsOf(m)
      BY <3>1
    <3> QED
      BY <2>1, <2>2, <3>2 DEF OneLoad
  <2>3. CASE m = x
    <3>1. \A i : i \in CallsOf(x)' => i \in CallsOf(x) /\ i \in 1 .. k
      BY CallsAre
    <3>2. \A i : i \notin CallsOf(x)'
      BY <1>2, <3>1
    <3>3. CallsOf(x)' = {}
      BY <3>2
    <3> QED
      BY <2>3, <3>3
  <2> QED
    BY <2>2, <2>3
<1> QED
  BY <1>2, <1>3 DEF OneLoad

\* What was there stays there.
HasStays == \A m \in Module : Has(m) => Has(m)'

\* A call above the first keeps the entry where it is.
LEMMA StaysThere ==
  ASSUME TypeOK, NEW k \in Nat \ {0}, Stepped(k),
         \A m \in Module : state[m] = "loaded" => state'[m] = "loaded"
  PROVE  HasStays
BY Bottom DEF HasStays, Has

LEMMA OwesModules ==
  ASSUME NEW f, NEW x \in Owes(f)
  PROVE  x \in Module /\ (f.at \in Windows \/ (f.at = "body" /\ f.mod \in FrontEnd))
BY ImportAssumption DEF Owes, Module, Seeded

LEMMA OwesSame ==
  ASSUME NEW f, NEW g, f.at = g.at, f.mod = g.mod
  PROVE  Owes(f) = Owes(g)
BY DEF Owes

LEMMA AskedKept ==
  ASSUME TypeOK, Asked, NEW k \in Nat, Stepped(k), HasStays,
         k > 0 => \A x \in Owes(stack[k]) \ stack'[k].todo :
           \/ Has(x)'
           \/ Len(stack') = k + 1 /\ stack'[k + 1].mod = x
           \/ Len(stack') = k /\ ret' = "fail",
         Len(stack') = k + 1 => Owes(stack'[k + 1]) \subseteq stack'[k + 1].todo
  PROVE  Asked'
<1> SUFFICES ASSUME NEW i \in DOMAIN stack', NEW x \in Owes(stack'[i]) \ stack'[i].todo
             PROVE  \/ Has(x)'
                    \/ i < Len(stack') /\ stack'[i + 1].mod = x
                    \/ i = Len(stack') /\ ret' = "fail"
  BY DEF Asked
<1>1. i \in 1 .. k \/ (i = k + 1 /\ Len(stack') = k + 1)
  BY Shape
<1>2. CASE i \in 1 .. k
  <2>1. i \in DOMAIN stack /\ Owes(stack'[i]) = Owes(stack[i])
    <3>1. i \in DOMAIN stack /\ stack'[i].at = stack[i].at /\ stack'[i].mod = stack[i].mod
      BY <1>2, Shape
    <3>2. PICK f, g : f = stack[i] /\ g = stack'[i]
      OBVIOUS
    <3> QED
      BY <3>1, <3>2, OwesSame
  <2>2. CASE i = k
    <3>1. k < Len(stack') <=> Len(stack') = k + 1
      BY DEF Stepped
    <3> QED
      BY <2>1, <2>2, <1>2, <3>1
  <2>3. CASE i < k
    <3>1. i + 1 \in 1 .. k /\ i < Len(stack) /\ i < Len(stack') /\ i # Len(stack)
      BY <1>2, <2>3 DEF Stepped
    <3>2. stack'[i].todo = stack[i].todo /\ stack'[i + 1].mod = stack[i + 1].mod
      BY <1>2, <3>1, Shape
    <3>3. Has(x) \/ stack[i + 1].mod = x
      BY <2>1, <3>1, <3>2 DEF Asked
    <3>4. x \in Module
      <4>1. PICK f : f = stack'[i]
        OBVIOUS
      <4> QED
        BY <4>1, OwesModules
    <3> QED
      BY <3>1, <3>2, <3>3, <3>4 DEF HasStays
  <2> QED
    BY <1>2, <2>2, <2>3
<1>3. CASE i = k + 1 /\ Len(stack') = k + 1
  BY <1>3
<1> QED
  BY <1>1, <1>2, <1>3

\* The call on top asks for x, and a call for x is made.
LEMMA AskedPushed ==
  ASSUME TypeOK, Asked, stack # <<>>, NEW k \in Nat, Stepped(k), HasStays,
         k = Len(stack), Len(stack') = k + 1, ret # "fail", NEW x,
         stack'[k].todo = stack[k].todo \ {x} \/ Owes(stack[k]) = {},
         stack'[k + 1].mod = x \/ Owes(stack[k]) = {},
         Owes(stack'[k + 1]) \subseteq stack'[k + 1].todo
  PROVE  Asked'
<1>1. k \in DOMAIN stack
  BY TopIs, Frames
<1>2. \A y \in Owes(stack[k]) \ stack'[k].todo : Has(y)' \/ stack'[k + 1].mod = y
  <2> SUFFICES ASSUME NEW y \in Owes(stack[k]) \ stack'[k].todo, y # x
               PROVE  Has(y)'
    OBVIOUS
  <2>1. y \in Owes(stack[k]) \ stack[k].todo
    OBVIOUS
  <2>2. Has(y)
    BY <1>1, <2>1 DEF Asked
  <2>3. PICK f : f = stack[k]
    OBVIOUS
  <2> QED
    BY <2>1, <2>2, <2>3, OwesModules DEF HasStays
<1> QED
  BY <1>2, AskedKept

\* The call on top gives its place to another for the same module.
LEMMA AskedReplaced ==
  ASSUME TypeOK, Asked, NEW k \in Nat, Stepped(k), HasStays,
         Len(stack) = k + 1, Len(stack') = k + 1,
         stack'[k + 1].mod = stack[k + 1].mod,
         Owes(stack'[k + 1]) \subseteq stack'[k + 1].todo
  PROVE  Asked'
<1>1. ASSUME k > 0, NEW y \in Owes(stack[k]) \ stack'[k].todo
      PROVE  Has(y)' \/ stack'[k + 1].mod = y
  <2>1. k \in 1 .. k /\ k < Len(stack)
    BY <1>1
  <2>2. k \in DOMAIN stack /\ stack'[k].todo = stack[k].todo
    BY <2>1, Shape
  <2>3. Has(y) \/ stack[k + 1].mod = y
    BY <1>1, <2>2 DEF Asked
  <2>4. PICK f : f = stack[k]
    OBVIOUS
  <2> QED
    BY <1>1, <2>3, <2>4, OwesModules DEF HasStays
<1> QED
  BY <1>1, AskedKept

\* The call on top returns.
LEMMA AskedReturned ==
  ASSUME TypeOK, Asked, NEW k \in Nat, Stepped(k), HasStays,
         Len(stack) = k + 1, Len(stack') = k, NEW z, z = stack[k + 1].mod,
         \/ Has(z)'
         \/ ret' = "fail"
         \/ k > 0 => Owes(stack[k]) = {}
  PROVE  Asked'
<1>1. ASSUME k > 0, NEW y \in Owes(stack[k]) \ stack'[k].todo
      PROVE  Has(y)' \/ ret' = "fail"
  <2>1. k \in 1 .. k /\ k < Len(stack)
    BY <1>1
  <2>2. k \in DOMAIN stack /\ stack'[k].todo = stack[k].todo
    BY <2>1, Shape
  <2>3. Has(y) \/ stack[k + 1].mod = y
    BY <1>1, <2>2 DEF Asked
  <2>4. PICK f : f = stack[k]
    OBVIOUS
  <2>5. Has(y) => Has(y)'
    BY <1>1, <2>4, OwesModules DEF HasStays
  <2>6. z = y /\ Has(z)' => Has(y)'
    OBVIOUS
  <2> QED
    BY <1>1, <2>3, <2>5, <2>6
<1> QED
  BY <1>1, AskedKept

\* The modules of the compiler are there when the compiler is: what is loaded is
\* closed under imports.
LEMMA CompilerThere ==
  ASSUME LoadedClosed, Has(Compiler), Entered /\ stack[1].mod \in FrontEnd => Arrived
  PROVE  Arrived
<1>1. CASE Entered /\ stack[1].mod \in FrontEnd
  BY <1>1
<1>2. CASE ~(Entered /\ stack[1].mod \in FrontEnd)
  <2> DEFINE S == {m \in Module : m \in Library \/ (m \in FrontEnd /\ state[m] = "loaded")}
  <2>1. \A m \in FrontEnd : Has(m) <=> state[m] = "loaded"
    BY <1>2 DEF Has
  <2>2. Compiler \in S
    BY <2>1, ImportAssumption DEF Module
  <2>3. Closed(S)
    <3> SUFFICES ASSUME NEW m \in S, NEW x \in Uses[m] PROVE x \in S
      BY DEF Closed
    <3>1. CASE m \in Library
      BY <3>1, ImportAssumption DEF Module
    <3>2. CASE m \in FrontEnd /\ state[m] = "loaded"
      <4>1. x \in Library \/ x \in FrontEnd
        BY <3>2, ImportAssumption DEF Seeded
      <4>2. x \in FrontEnd => state[x] = "loaded"
        BY <3>2, <2>1 DEF LoadedClosed
      <4> QED
        BY <4>1, <4>2 DEF Module
    <3> QED
      BY <3>1, <3>2
  <2>4. S \in SUBSET Module
    OBVIOUS
  <2> HIDE DEF S
  <2>5. \A m \in Reached : m \in S /\ m \in FrontEnd
    BY <2>2, <2>3, <2>4 DEF Reached
  <2>6. \A m \in Reached : state[m] = "loaded"
    BY <2>5, ImportAssumption DEF S
  <2> QED
    BY <2>6 DEF Arrived, Has
<1> QED
  BY <1>1, <1>2

LEMMA ArrivedStays ==
  ASSUME HasStays, Arrived
  PROVE  Arrived'
BY DEF HasStays, Arrived, Reached, Module

LEMMA LoadedClosedKept ==
  ASSUME LoadedClosed, HasStays,
         \A m \in FrontEnd : state'[m] = "loaded" =>
           state[m] = "loaded" \/ \A x \in Uses[m] \intersect FrontEnd : Has(x)
  PROVE  LoadedClosed'
<1> SUFFICES ASSUME NEW m \in FrontEnd, state'[m] = "loaded",
                    NEW x \in Uses[m] \intersect FrontEnd
             PROVE  Has(x)'
  BY DEF LoadedClosed
<1>1. Has(x)
  BY DEF LoadedClosed
<1> QED
  BY <1>1 DEF HasStays, Module, Seeded

LEMMA AllArrivedKept ==
  ASSUME AllArrived, HasStays, broken => broken',
         ~broken' /\ warmed' /\ ~loading' => (warmed /\ ~loading) \/ Arrived,
         ~broken' /\ Entered' /\ stack'[1].mod \in FrontEnd =>
           (Entered /\ stack[1].mod \in FrontEnd) \/ Arrived
  PROVE  AllArrived'
BY ArrivedStays DEF AllArrived

LEMMA CameKept ==
  ASSUME CameWindowed, stack # <<>>, stack' # <<>> => stack'[1].mod = stack[1].mod,
         broken => broken',
         ~broken' => \A m \in Reached \ {stack[1].mod} : state'[m] # "absent" =>
           (state[m] # "absent" /\ (m \in windowed => m \in windowed')) \/ m \in windowed'
  PROVE  CameWindowed'
BY DEF CameWindowed, Reached

\* Where the call on top is.
LEMMA TopPlaced ==
  ASSUME TypeOK, Places, stack # <<>>
  PROVE  /\ Top.at \in {"prelude", "main"} => IsEntry
         /\ Top.at = "main" => state[Top.mod] = "loaded"
         /\ Top.at = "load" => Top.todo = {} /\ (loading => Top.mod \in windowed)
         /\ Top.at = "eval" => /\ ~IsEntry /\ stack[Len(stack) - 1].at \in {"body", "main"}
                               /\ stack[Len(stack) - 1].mod \in User
         /\ \A i \in 1 .. Len(stack) - 1 : stack[i].at # "load"
         /\ \A i \in 1 .. Len(stack) : stack[i].at = "main" => i = 1
<1>1. /\ Len(stack) \in Nat /\ Len(stack) >= 1 /\ Top = stack[Len(stack)]
      /\ DOMAIN stack = 1 .. Len(stack)
  BY TopIs, Frames
<1>2. PICK n : n = Len(stack)
  OBVIOUS
<1>3. n \in Nat /\ n >= 1 /\ Top = stack[n] /\ DOMAIN stack = 1 .. n
  BY <1>1, <1>2
<1>4. n \in DOMAIN stack /\ \A i \in 1 .. n - 1 : i \in DOMAIN stack /\ i # n
  <2>1. n \in 1 .. n /\ \A i \in 1 .. n - 1 : i \in 1 .. n /\ i # n
    BY <1>3
  <2> QED
    BY <1>3, <2>1
<1>5. /\ Top.at \in {"prelude", "main"} => n = 1
      /\ Top.at = "main" => state[Top.mod] = "loaded"
      /\ Top.at = "load" => Top.todo = {} /\ (loading => Top.mod \in windowed)
      /\ Top.at = "eval" => /\ n > 1 /\ stack[n - 1].at \in {"body", "main"}
                            /\ stack[n - 1].mod \in User
  BY <1>3, <1>4 DEF Places
<1>6. \A i \in 1 .. n - 1 : stack[i].at # "load"
  BY <1>2, <1>4 DEF Places
<1>7. \A i \in 1 .. n : stack[i].at = "main" => i = 1
  BY <1>3 DEF Places
<1> QED
  BY <1>2, <1>3, <1>5, <1>6, <1>7 DEF IsEntry

\* What the windows have still to import.
LEMMA ImportsKept ==
  ASSUME TypeOK, WindowImports, NEW k \in Nat, Stepped(k),
         k = Len(stack) => (stack[k].at \in Windows => stack'[k].todo = {}),
         Len(stack') = k + 1 /\ stack'[k + 1].at \in Windows =>
           stack'[k + 1].todo \subseteq {Compiler} /\ ret' = "none"
  PROVE  WindowImports'
<1> SUFFICES ASSUME NEW i \in DOMAIN stack', stack'[i].at \in Windows
             PROVE  /\ stack'[i].todo \subseteq {Compiler}
                    /\ i < Len(stack') \/ ret' # "none" => stack'[i].todo = {}
  BY DEF WindowImports
<1>1. i \in 1 .. k \/ (i = k + 1 /\ Len(stack') = k + 1)
  BY Shape
<1>2. CASE i \in 1 .. k
  <2>1. i \in DOMAIN stack /\ stack[i].at \in Windows
        /\ (i < Len(stack) => stack'[i].todo = stack[i].todo)
    BY <1>2, Shape
  <2>2. i < Len(stack) \/ (i = k /\ k = Len(stack))
    BY <1>2 DEF Stepped
  <2>3. CASE i < Len(stack)
    BY <2>1, <2>3 DEF WindowImports
  <2>4. CASE i = k /\ k = Len(stack)
    BY <2>1, <2>4
  <2> QED
    BY <2>2, <2>3, <2>4
<1>3. CASE i = k + 1 /\ Len(stack') = k + 1
  BY <1>3
<1> QED
  BY <1>1, <1>2, <1>3

\* The import of m by a window leaves it nothing to import.
LEMMA WindowAsks ==
  ASSUME TypeOK, WindowImports, stack # <<>>, NEW m \in Top.todo, Top.at \in Windows
  PROVE  Top.todo \ {m} = {}
<1>1. Top = stack[Len(stack)] /\ Len(stack) \in DOMAIN stack
  BY TopIs, Frames
<1>2. Top.todo \subseteq {Compiler}
  BY <1>1 DEF WindowImports
<1> QED
  BY <1>2

-----------------------------------------------------------------------------
(* The steps: the first part.                                               *)

\* Nothing but the answer, the cache and the sources changes.
LEMMA QuietInv ==
  ASSUME Inv, UNCHANGED <<stack, state, flags, history>>, TypeOK', Idle', Asked', WindowImports'
  PROVE  Inv'
<1>1. /\ stack' = stack /\ state' = state /\ loading' = loading /\ warmed' = warmed
      /\ code' = code /\ windowed' = windowed /\ broken' = broken
  BY DEF flags, history
<1>2. OneLoad'
  <2>1. \A m : CallsOf(m)' = CallsOf(m)
    BY <1>1 DEF CallsOf
  <2> QED
    BY <1>1, <2>1 DEF Inv, OneLoad
<1>3. Places' /\ InWindow'
  BY <1>1 DEF Inv, Places, InWindow
<1>4. WarmedFor'
  <2>1. \A i : PublishedBelow(i)' = PublishedBelow(i)
    BY <1>1 DEF PublishedBelow
  <2> QED
    BY <1>1, <2>1 DEF Inv, WarmedFor
<1>5. (Entered' <=> Entered) /\ \A m : Has(m)' <=> Has(m)
  BY <1>1 DEF Has, Entered
<1>6. LoadedClosed' /\ (Arrived' <=> Arrived)
  BY <1>1, <1>5 DEF Inv, LoadedClosed, Arrived
<1>7. AllArrived' /\ CameWindowed' /\ RunsSource'
  BY <1>1, <1>5, <1>6 DEF Inv, AllArrived, CameWindowed, RunsSource
<1> QED
  BY <1>2, <1>3, <1>4, <1>6, <1>7 DEF Inv

\* A call for m that is answered at once.
LEMMA AnsweredInv ==
  ASSUME Inv, NEW m \in Module, Imports(m), stack' = Below(m), ret' \in {"ok", "fail"},
         state[m] = "loaded" \/ ret' = "fail",
         UNCHANGED <<disk, state, flags, history>>
  PROVE  Inv'
<1> USE DEF Inv
<1>1. stack # <<>> /\ ret = "none" /\ m \in Top.todo
  BY DEF Imports, Ready
<1>2. PICK k : k = Len(stack)
  OBVIOUS
<1>3. k \in Nat \ {0} /\ Top = stack[k] /\ k \in DOMAIN stack
  BY <1>1, <1>2, TopIs, Frames
<1>4. /\ Stepped(k) /\ Len(stack') = k /\ stack'[k].todo = Top.todo \ {m}
      /\ stack' \in Seq(FrameType)
  BY <1>1, <1>2, <1>3, Asks DEF Stepped
<1>5. /\ state' = state /\ loading' = loading /\ warmed' = warmed /\ cache' = cache
      /\ newer' = newer /\ code' = code /\ windowed' = windowed /\ broken' = broken
  BY DEF disk, flags, history
<1>6. stack' # <<>> /\ stack # <<>> /\ stack'[1].mod = stack[1].mod /\ (Entered' <=> Entered)
  BY <1>3, <1>4, Bottom
<1>7. HasStays
  BY <1>3, <1>4, <1>5, StaysThere
<1>8. Len(stack') # k + 1
  BY <1>3, <1>4
<1>9. TypeOK'
  <2>1. Depth' <= MaxDepth
    BY <1>3, <1>4, <1>8, DepthOK
  <2> QED
    BY <1>4, <1>5, <2>1 DEF TypeOK, FrameType, At
<1>10. Idle'
  BY <1>6 DEF Idle
<1>11. OneLoad'
  BY <1>2, <1>3, <1>4, <1>5, <1>8, LoadKept
<1>12. Places'
  <2>1. \A i \in 1 .. k : stack[i].at # "load"
    BY <1>1, <1>2, <1>3, TopPlaced
  <2>2. \A i \in 1 .. k : stack[i].at = "main" => state[stack[i].mod] = "loaded"
    BY <1>2, <1>3, Frames DEF Places
  <2> QED
    BY <1>3, <1>4, <1>5, <1>8, <2>1, <2>2, PlacesKept
<1>13. WarmedFor'
  BY <1>3, <1>4, <1>8, WarmedForKept
<1>14. InWindow'
  <2>1. loading => \E i \in 1 .. k : stack[i].at \in Windows
    BY <1>2, Frames DEF InWindow
  <2> QED
    BY <1>3, <1>4, <1>5, <1>8, <2>1, InWindowKept
<1>15. Asked'
  <2>1. ASSUME NEW x \in Owes(stack[k]) \ stack'[k].todo PROVE Has(x)' \/ ret' = "fail"
    <3>1. CASE x # m
      <4>1. Has(x)
        BY <1>1, <1>2, <1>3, <1>4, <2>1, <3>1 DEF Asked
      <4>2. PICK f : f = stack[k]
        OBVIOUS
      <4> QED
        BY <1>7, <2>1, <4>1, <4>2, OwesModules DEF HasStays
    <3>2. CASE x = m
      <4>1. state[m] = "loaded" => Has(m)
        BY DEF Has
      <4>2. Has(m) => Has(m)'
        BY <1>7 DEF HasStays
      <4> QED
        BY <3>2, <4>1, <4>2
    <3> QED
      BY <3>1, <3>2
  <2> QED
    BY <1>3, <1>4, <1>7, <1>8, <2>1, AskedKept
<1>16. LoadedClosed'
  BY <1>5, <1>7, LoadedClosedKept
<1>17. AllArrived'
  BY <1>5, <1>6, <1>7, AllArrivedKept
<1>18. CameWindowed'
  BY <1>5, <1>6, CameKept
<1>19. RunsSource'
  BY <1>5 DEF RunsSource
<1>20. WindowImports'
  <2>1. stack[k].at \in Windows => stack'[k].todo = {}
    BY <1>1, <1>3, <1>4, WindowAsks
  <2> QED
    BY <1>3, <1>4, <1>8, <2>1, ImportsKept
<1> QED
  BY <1>9, <1>10, <1>11, <1>12, <1>13, <1>14, <1>15, <1>16, <1>17, <1>18, <1>19, <1>20

\* A module is published: on top of the call that imports it, in the place of
\* the call that warmed the front end for it, or as the entry.
LEMMA PublishInv ==
  ASSUME Inv, stack # <<>>, NEW k \in Nat, NEW x \in Module, Stepped(k), Len(stack') = k + 1,
         stack'[k + 1].mod = x, stack'[k + 1].at = "load", stack'[k + 1].todo = {},
         state' = [state EXCEPT ![x] = "loading"], code' = [code EXCEPT ![x] = "none"],
         windowed' = IF loading' THEN windowed \union {x} ELSE windowed \ {x},
         warmed' = warmed, ret' = "none", UNCHANGED disk,
         loading' \in BOOLEAN, broken' \in BOOLEAN, broken => broken',
         state[x] # "loading", state[x] = "loaded" => k = 0,
         Len(stack) = k + 1 => stack[k + 1].at \notin Published,
         Cardinality(PublishedBelow(k + 1)) < MaxDepth,
         \A i \in 1 .. k : stack[i].at # "load" /\ (stack[i].at = "main" => stack[i].mod # x),
         loading' => \E i \in 1 .. k : stack[i].at \in Windows,
         ~broken' /\ warmed /\ ~loading' => Arrived,
         k = 0 => x = stack[1].mod /\ ~Entered,
         k = 0 /\ x \in FrontEnd /\ ~broken' => Arrived,
         k > 0 /\ x \in Reached /\ ~broken' => loading' \/ x = stack[1].mod,
         HasStays => Asked', WindowImports'
  PROVE  Inv'
<1> USE DEF Inv
<1>1. cache' = cache /\ newer' = newer
  BY DEF disk
<1>2. \A m \in Module : /\ state'[m] = IF m = x THEN "loading" ELSE state[m]
                        /\ code'[m] = IF m = x THEN "none" ELSE code[m]
  BY DEF TypeOK
<1>3. stack' # <<>> /\ stack'[1].mod = stack[1].mod
  <2>1. stack' # <<>>
    BY After
  <2>2. k = 0 => stack'[1].mod = stack[1].mod
    OBVIOUS
  <2>3. k # 0 => stack'[1].mod = stack[1].mod
    BY Bottom
  <2> QED
    BY <2>1, <2>2, <2>3
<1>4. HasStays
  <2>1. CASE k = 0
    <3>1. Entered'
      BY <1>3, <2>1 DEF Entered
    <3> QED
      BY <1>2, <1>3, <2>1, <3>1 DEF HasStays, Has
  <2>2. CASE k # 0
    BY <2>2, <1>2, StaysThere
  <2> QED
    BY <2>1, <2>2
<1>5. TypeOK'
  <2>1. Depth' <= MaxDepth
    BY DepthOK
  <2>2. stack' \in Seq(FrameType)
    BY DEF Stepped
  <2>3. state' \in [Module -> {"absent", "loading", "loaded"}]
        /\ code' \in [Module -> {"none", "current", "old"}] /\ windowed' \subseteq Module
    BY DEF TypeOK
  <2> QED
    BY <1>1, <2>1, <2>2, <2>3 DEF TypeOK, FrameType, At
<1>6. Idle'
  BY <1>3 DEF Idle
<1>7. OneLoad'
  <2>1. stack'[k + 1].at \in Published
    BY DEF Published
  <2>2. \A m \in Module : state'[m] = "loading" <=> state[m] = "loading" \/ m = x
    BY <1>2
  <2> QED
    BY <2>1, <2>2, LoadStarts
<1>8. Places'
  <2>1. \A i \in 1 .. k : stack[i].at = "main" => state'[stack[i].mod] = "loaded"
    BY <1>2, Shape DEF Places
  <2>2. Placed(stack', k + 1, state', loading', windowed')
    BY DEF Placed
  <2> QED
    BY <2>1, <2>2, PlacesKept
<1>9. WarmedFor'
  BY WarmedForKept
<1>10. InWindow'
  BY InWindowKept DEF Windows
<1>11. LoadedClosed'
  <2>1. \A m \in FrontEnd : state'[m] = "loaded" => state[m] = "loaded"
    BY <1>2 DEF Module, Seeded
  <2> QED
    BY <1>4, <2>1, LoadedClosedKept
<1>12. AllArrived'
  <2>1. k > 0 => (Entered' <=> Entered)
    BY Bottom
  <2>2. ~broken' /\ Entered' /\ stack'[1].mod \in FrontEnd =>
          (Entered /\ stack[1].mod \in FrontEnd) \/ Arrived
    BY <1>3, <2>1
  <2> QED
    BY <1>4, <2>2, AllArrivedKept
<1>13. CameWindowed'
  <2>1. ASSUME ~broken', NEW m \in Reached \ {stack[1].mod}, state'[m] # "absent"
        PROVE  (state[m] # "absent" /\ (m \in windowed => m \in windowed')) \/ m \in windowed'
    <3>1. m \in Module
      BY DEF Reached, Module, Seeded
    <3>2. CASE m = x
      BY <2>1, <3>2
    <3>3. CASE m # x
      BY <1>2, <2>1, <3>1, <3>3
    <3> QED
      BY <3>2, <3>3
  <2> QED
    BY <1>3, <2>1, CameKept
<1>14. RunsSource'
  <2>1. \A m \in Module \ windowed' : code'[m] # "old"
    BY <1>2 DEF RunsSource
  <2> QED
    BY <2>1 DEF RunsSource
<1> QED
  BY <1>4, <1>5, <1>6, <1>7, <1>8, <1>9, <1>10, <1>11, <1>12, <1>13, <1>14

\* A window opens.
LEMMA WindowInv ==
  ASSUME Inv, stack # <<>>, NEW k \in Nat, Stepped(k), Len(stack') = k + 1,
         stack'[k + 1].at \in Windows, stack'[k + 1].todo = {Compiler},
         loading', loading' \in BOOLEAN, warmed' \in BOOLEAN,
         UNCHANGED <<disk, state, ret, history>>,
         stack'[k + 1].was => \E j \in 1 .. k : stack[j].at \in Windows,
         \A m \in Module :
           (stack'[k + 1].mod = m /\ stack'[k + 1].at \in Published)
             <=> (Len(stack) = k + 1 /\ stack[k + 1].mod = m /\ stack[k + 1].at \in Published),
         stack'[k + 1].at # "eval" => Cardinality(PublishedBelow(k + 1)) < MaxDepth,
         stack'[k + 1].at = "warming" =>
           \A j \in 1 .. k : stack[j].at \in Published \union {"main"} =>
             stack[j].mod # stack'[k + 1].mod,
         stack'[k + 1].at = "eval" =>
           k > 0 /\ stack[k].at \in {"body", "main"} /\ stack[k].mod \in User,
         \A i \in 1 .. k : stack[i].at # "load",
         k = 0 => stack'[1].mod = stack[1].mod /\ (Entered' <=> Entered),
         HasStays => Asked', WindowImports'
  PROVE  Inv'
<1> USE DEF Inv
<1>1. /\ cache' = cache /\ newer' = newer /\ state' = state /\ ret' = ret
      /\ code' = code /\ windowed' = windowed /\ broken' = broken
  BY DEF disk, history
<1>2. stack' # <<>>
  BY After
<1>3. stack'[1].mod = stack[1].mod /\ (Entered' <=> Entered)
  BY Bottom
<1>4. HasStays
  BY <1>1, <1>3 DEF HasStays, Has
<1>5. TypeOK'
  <2>1. stack'[k + 1].at \in Published => stack'[k + 1].at # "eval"
    BY DEF Published
  <2>2. Depth' <= MaxDepth
    BY <2>1, DepthOK
  <2>3. stack' \in Seq(FrameType)
    BY DEF Stepped
  <2> QED
    BY <1>1, <2>2, <2>3 DEF TypeOK, FrameType, At
<1>6. Idle'
  BY <1>2 DEF Idle
<1>7. OneLoad'
  BY <1>1, LoadKept
<1>8. Places'
  <2>1. \A i \in 1 .. k : stack[i].at = "main" => state'[stack[i].mod] = "loaded"
    BY <1>1, Shape DEF Places
  <2>2. k > 0 => stack'[k].at = stack[k].at /\ stack'[k].mod = stack[k].mod
    <3>1. k > 0 => k \in 1 .. k
      OBVIOUS
    <3> QED
      BY <3>1, Shape
  <2>3. Placed(stack', k + 1, state', loading', windowed')
    BY <2>2 DEF Placed, Windows
  <2> QED
    BY <2>1, <2>3, PlacesKept
<1>9. WarmedFor'
  BY WarmedForKept
<1>10. InWindow'
  BY InWindowKept
<1>11. LoadedClosed'
  BY <1>1, <1>4, LoadedClosedKept
<1>12. AllArrived'
  BY <1>1, <1>3, <1>4, AllArrivedKept
<1>13. CameWindowed'
  BY <1>1, <1>2, <1>3, CameKept
<1>14. RunsSource'
  BY <1>1 DEF RunsSource
<1> QED
  BY <1>4, <1>5, <1>6, <1>7, <1>8, <1>9, <1>10, <1>11, <1>12, <1>13, <1>14

\* A window that has got the compiler has the whole of it.
LEMMA WindowBrings ==
  ASSUME Inv, stack # <<>>, Top.at \in Windows, ret = "ok", ~broken
  PROVE  Arrived
<1> USE DEF Inv
<1>1. Top = stack[Len(stack)] /\ Len(stack) \in DOMAIN stack /\ Len(stack) \in Nat
  BY TopIs, Frames
<1>2. Top.todo = {}
  BY <1>1 DEF WindowImports
<1>3. Compiler \in Owes(stack[Len(stack)]) \ stack[Len(stack)].todo
  BY <1>1, <1>2 DEF Owes
<1>4. Has(Compiler)
  BY <1>1, <1>3 DEF Asked
<1> QED
  BY <1>4, CompilerThere DEF AllArrived

LEMMA ImportPublishInv ==
  ASSUME Inv, NEW m \in Module, ImportPublish(m)
  PROVE  Inv'
<1> USE DEF Inv
<1>1. PICK f, k : f = Frame(m, "load", {}) /\ k = Len(stack)
  OBVIOUS
<1>2. /\ stack # <<>> /\ ret = "none" /\ m \in Top.todo /\ state[m] = "absent"
      /\ ~TooDeep /\ ~ShouldWarm(m, FALSE) /\ loading' = loading /\ warmed' = warmed
      /\ state' = [state EXCEPT ![m] = "loading"] /\ code' = [code EXCEPT ![m] = "none"]
      /\ windowed' = IF loading' THEN windowed \union {m} ELSE windowed \ {m}
      /\ stack' = Append(Below(m), f) /\ UNCHANGED disk /\ ret' = ret /\ broken' = broken
  BY <1>1 DEF ImportPublish, Imports, Ready, Publish, flags
<1>3. /\ f \in FrameType /\ f.mod = m /\ f.at = "load" /\ f.todo = {}
  BY <1>1 DEF Frame, FrameType, At, Published, TypeOK
<1>4. k \in Nat \ {0} /\ Top = stack[k] /\ k \in DOMAIN stack
  BY <1>1, <1>2, TopIs, Frames
<1>5. /\ Stepped(k) /\ Len(stack') = k + 1 /\ stack'[k + 1] = f
      /\ stack'[k].todo = Top.todo \ {m} /\ Len(stack) = k
  BY <1>1, <1>2, <1>3, <1>4, Pushes DEF Stepped
<1>6. Cardinality(PublishedBelow(k + 1)) < MaxDepth
  <2>1. PICK d : d = Depth
    OBVIOUS
  <2>2. d = Cardinality(PublishedBelow(k + 1))
    BY <1>1, <2>1, DepthIs
  <2>3. d \in Nat
    BY <2>2, Finite
  <2> QED
    BY <1>2, <2>1, <2>2, <2>3, ImportAssumption DEF TooDeep
<1>7. \A i \in 1 .. k : stack[i].at # "load" /\ (stack[i].at = "main" => stack[i].mod # m)
  <2>1. \A i \in 1 .. k : stack[i].at # "load"
    BY <1>1, <1>2, <1>4, TopPlaced
  <2>2. \A i \in 1 .. k : stack[i].at = "main" => state[stack[i].mod] = "loaded"
    BY <1>1, <1>4, Frames DEF Places
  <2> QED
    BY <1>2, <2>1, <2>2
<1>8. loading' => \E i \in 1 .. k : stack[i].at \in Windows
  BY <1>1, <1>2, Frames DEF InWindow
<1>9. ~broken /\ warmed /\ ~loading => Arrived
  BY DEF AllArrived
<1>10. m \in Reached /\ ~broken /\ ~loading => m = stack[1].mod
  <2>1. m \in Reached => m \in FrontEnd
    BY DEF Reached
  <2>2. m \in FrontEnd => loading \/ warmed
    BY <1>2 DEF ShouldWarm
  <2> QED
    BY <1>2, <1>9, <2>1, <2>2 DEF Arrived, Has
<1>11. ASSUME HasStays PROVE Asked'
  <2>1. Owes(stack'[k + 1]) \subseteq stack'[k + 1].todo
    BY <1>3, <1>5 DEF Owes, Windows
  <2> QED
    BY <1>2, <1>3, <1>4, <1>5, <1>11, <2>1, AskedPushed
<1>12. WindowImports'
  <2>1. stack[k].at \in Windows => stack'[k].todo = {}
    BY <1>2, <1>4, <1>5, WindowAsks
  <2>2. stack'[k + 1].at \notin Windows
    BY <1>3, <1>5 DEF Windows
  <2> QED
    BY <1>4, <1>5, <2>1, <2>2, ImportsKept
<1>13. loading' \in BOOLEAN /\ broken' \in BOOLEAN /\ state[m] # "loading" /\ state[m] # "loaded"
       /\ k # 0 /\ Len(stack) # k + 1 /\ ret' = "none"
  BY <1>2, <1>4, <1>5 DEF TypeOK
<1> QED
  BY <1>2, <1>3, <1>4, <1>5, <1>6, <1>7, <1>8, <1>9, <1>10, <1>11, <1>12, <1>13, PublishInv

\* The call below the one on top, and the calls below it, have no part in what
\* takes its place.
LEMMA EntryPublishInv ==
  ASSUME Inv, EntryPublish
  PROVE  Inv'
<1> USE DEF Inv
<1>1. PICK m, f : m = Top.mod /\ f = Frame(m, "load", {})
  OBVIOUS
<1>2. /\ stack # <<>> /\ ret = "none" /\ Top.at = "prelude" /\ Top.todo = {}
      /\ ~ShouldWarm(m, TRUE) /\ loading' = loading /\ warmed' = warmed
      /\ state' = [state EXCEPT ![m] = "loading"] /\ code' = [code EXCEPT ![m] = "none"]
      /\ windowed' = IF loading' THEN windowed \union {m} ELSE windowed \ {m}
      /\ stack' = Replaced(f) /\ UNCHANGED disk /\ ret' = ret /\ broken' = broken
  BY <1>1 DEF EntryPublish, Ready, Publish, flags, Replaced
<1>3. /\ f \in FrameType /\ f.mod = m /\ f.at = "load" /\ f.todo = {} /\ m \in Module
  <2>1. m \in Module
    BY <1>1, <1>2, TopIs
  <2> QED
    BY <1>1, <2>1 DEF Frame, FrameType, At, Published, TypeOK
<1>4. Len(stack) = 1 /\ Top = stack[1] /\ DOMAIN stack = {1}
  <2>1. Len(stack) = 1
    BY <1>2, TopPlaced DEF IsEntry
  <2> QED
    BY <1>2, <2>1, TopIs, Frames
<1>5. /\ Stepped(0) /\ Len(stack') = 1 /\ stack'[1] = f
  BY <1>2, <1>3, <1>4, Replaces DEF Stepped
<1>6. ~loading
  BY <1>2, <1>4 DEF InWindow, Windows
<1>7. state[m] # "loading"
  BY <1>2, <1>3, <1>4 DEF OneLoad, CallsOf, Published
<1>8. Cardinality(PublishedBelow(1)) < MaxDepth
  <2>1. PublishedBelow(1) = {}
    BY <1>4 DEF PublishedBelow
  <2> QED
    BY <2>1, FS_EmptySet, ImportAssumption
<1>9. ~broken /\ warmed /\ ~loading => Arrived
  BY DEF AllArrived
<1>10. m \in FrontEnd /\ ~broken => Arrived
  BY <1>2, <1>6, <1>9 DEF ShouldWarm
<1>11. ~Entered
  BY <1>2, <1>4 DEF Entered
<1>12. ASSUME HasStays PROVE Asked'
  <2>1. Owes(stack'[1]) \subseteq stack'[1].todo
    BY <1>3, <1>5 DEF Owes, Windows
  <2> QED
    BY <1>1, <1>3, <1>4, <1>5, <1>12, <2>1, AskedReplaced
<1>13. WindowImports'
  <2>1. stack'[1].at \notin Windows
    BY <1>3, <1>5 DEF Windows
  <2> QED
    BY <1>4, <1>5, <2>1, ImportsKept
<1>14. /\ loading' \in BOOLEAN /\ broken' \in BOOLEAN /\ ret' = "none" /\ ~loading'
       /\ stack[1].at \notin Published /\ m = stack[1].mod
  BY <1>1, <1>2, <1>4, <1>6 DEF TypeOK, Published
<1>15. PICK k : k = 0
  OBVIOUS
<1>16. /\ k \in Nat /\ k + 1 = 1 /\ Stepped(k) /\ Len(stack') = k + 1 /\ stack'[k + 1] = f
       /\ Cardinality(PublishedBelow(k + 1)) < MaxDepth /\ stack[k + 1].at \notin Published
       /\ \A i \in 1 .. k : FALSE
  BY <1>5, <1>8, <1>14, <1>15
<1> QED
  BY <1>2, <1>3, <1>7, <1>9, <1>10, <1>11, <1>12, <1>13, <1>14, <1>15, <1>16, PublishInv

\* The window is over and the module it was opened for is published.
LEMMA WarmEndPublishInv ==
  ASSUME Inv, WarmEnd, ~(~IsEntry /\ Satisfied(Top.mod))
  PROVE  Inv'
<1> USE DEF Inv
<1>1. PICK m, f, k : m = Top.mod /\ f = Frame(m, "load", {}) /\ k = Len(stack) - 1
  OBVIOUS
<1>2. /\ stack # <<>> /\ ret # "none" /\ Top.at = "warming" /\ Top.todo = {}
      /\ loading' = FALSE /\ warmed' = warmed /\ broken' = (broken \/ ret = "fail")
      /\ state' = [state EXCEPT ![m] = "loading"] /\ code' = [code EXCEPT ![m] = "none"]
      /\ windowed' = IF loading' THEN windowed \union {m} ELSE windowed \ {m}
      /\ stack' = Replaced(f) /\ UNCHANGED disk /\ ret' = "none"
      /\ IsEntry \/ state[m] # "loaded"
  BY <1>1 DEF WarmEnd, Publish, Replaced, Satisfied
<1>3. /\ f \in FrameType /\ f.mod = m /\ f.at = "load" /\ f.todo = {} /\ m \in Module
  <2>1. m \in Module
    BY <1>1, <1>2, TopIs
  <2> QED
    BY <1>1, <2>1 DEF Frame, FrameType, At, Published, TypeOK
<1>4. /\ k \in Nat /\ Len(stack) = k + 1 /\ Top = stack[k + 1] /\ k + 1 \in DOMAIN stack
      /\ DOMAIN stack = 1 .. k + 1 /\ (IsEntry <=> k = 0)
  BY <1>1, <1>2, TopIs, Frames DEF IsEntry
<1>5. /\ Stepped(k) /\ Len(stack') = k + 1 /\ stack'[k + 1] = f
  BY <1>1, <1>2, <1>3, <1>4, Replaces DEF Stepped
<1>6. /\ Cardinality(PublishedBelow(k + 1)) < MaxDepth
      /\ \A j \in 1 .. k : stack[j].at \in Published \union {"main"} => stack[j].mod # m
  <2>1. /\ Cardinality(PublishedBelow(k + 1)) < MaxDepth
        /\ \A j \in 1 .. k + 1 - 1 : stack[j].at \in Published \union {"main"} =>
             stack[j].mod # stack[k + 1].mod
    BY <1>2, <1>4 DEF WarmedFor
  <2> QED
    BY <1>1, <1>4, <2>1
<1>7. state[m] # "loading"
  <2> SUFFICES ASSUME state[m] = "loading" PROVE FALSE
    OBVIOUS
  <2>1. PICK i \in DOMAIN stack : stack[i].mod = m /\ stack[i].at \in Published
    BY <1>3 DEF OneLoad, CallsOf
  <2>2. i # k + 1
    BY <1>2, <1>4, <2>1 DEF Published
  <2>3. i \in 1 .. k
    BY <1>4, <2>2
  <2> QED
    BY <1>6, <2>1, <2>3
<1>8. \A i \in 1 .. k : stack[i].at # "load" /\ (stack[i].at = "main" => stack[i].mod # m)
  BY <1>1, <1>2, <1>6, TopPlaced
<1>9. ~broken' => Arrived
  <2>1. ret = "ok" \/ ret = "fail"
    BY <1>2 DEF TypeOK
  <2> QED
    BY <1>2, <2>1, WindowBrings DEF Windows
<1>10. k > 0 /\ m \in Reached /\ ~broken' => m = stack[1].mod
  BY <1>2, <1>4, <1>9 DEF Arrived, Has
<1>11. k = 0 => m = stack[1].mod /\ ~Entered
  BY <1>1, <1>2, <1>4 DEF Entered
<1>12. ASSUME HasStays PROVE Asked'
  <2>1. Owes(stack'[k + 1]) \subseteq stack'[k + 1].todo
    BY <1>3, <1>5 DEF Owes, Windows
  <2> QED
    BY <1>1, <1>3, <1>4, <1>5, <1>12, <2>1, AskedReplaced
<1>13. WindowImports'
  <2>1. stack'[k + 1].at \notin Windows
    BY <1>3, <1>5 DEF Windows
  <2> QED
    BY <1>4, <1>5, <2>1, ImportsKept
<1>14. /\ loading' \in BOOLEAN /\ broken' \in BOOLEAN /\ ~loading' /\ (broken => broken')
       /\ stack[k + 1].at \notin Published /\ (state[m] = "loaded" => k = 0)
  BY <1>1, <1>2, <1>4 DEF TypeOK, Published
<1> QED
  BY <1>2, <1>3, <1>4, <1>5, <1>6, <1>7, <1>8, <1>9, <1>10, <1>11, <1>12, <1>13, <1>14, PublishInv

LEMMA ImportWarmInv ==
  ASSUME Inv, NEW m \in Module, ImportWarm(m)
  PROVE  Inv'
<1> USE DEF Inv
<1>1. PICK f, k : f = Frame(m, "warming", {Compiler}) /\ k = Len(stack)
  OBVIOUS
<1>2. /\ stack # <<>> /\ ret = "none" /\ m \in Top.todo /\ state[m] = "absent"
      /\ ~TooDeep /\ ~loading /\ loading' = TRUE /\ warmed' = TRUE
      /\ stack' = Append(Below(m), f) /\ UNCHANGED <<disk, state, ret, history>>
  BY <1>1 DEF ImportWarm, Imports, Ready, Warm, ShouldWarm
<1>3. /\ f \in FrameType /\ f.mod = m /\ f.at = "warming" /\ f.todo = {Compiler} /\ ~f.was
  BY <1>1, <1>2, ImportAssumption DEF Frame, FrameType, At, Windows, TypeOK, Module, Seeded
<1>4. k \in Nat \ {0} /\ Top = stack[k] /\ k \in DOMAIN stack
  BY <1>1, <1>2, TopIs, Frames
<1>5. /\ Stepped(k) /\ Len(stack') = k + 1 /\ stack'[k + 1] = f
      /\ stack'[k].todo = Top.todo \ {m} /\ Len(stack) = k
  BY <1>1, <1>2, <1>3, <1>4, Pushes DEF Stepped
<1>6. Cardinality(PublishedBelow(k + 1)) < MaxDepth
  <2>1. PICK d : d = Depth
    OBVIOUS
  <2>2. d = Cardinality(PublishedBelow(k + 1))
    BY <1>1, <2>1, DepthIs
  <2>3. d \in Nat
    BY <2>2, Finite
  <2> QED
    BY <1>2, <2>1, <2>2, <2>3, ImportAssumption DEF TooDeep
<1>7. \A j \in 1 .. k : stack[j].at \in Published \union {"main"} => stack[j].mod # m
  <2>1. \A j \in 1 .. k : stack[j].at = "main" => state[stack[j].mod] = "loaded"
    BY <1>1, <1>4, Frames DEF Places
  <2>2. \A j \in 1 .. k : stack[j].at \in Published => stack[j].mod # m
    BY <1>1, <1>2, <1>4, Frames DEF OneLoad, CallsOf
  <2> QED
    BY <1>2, <2>1, <2>2
<1>8. \A i \in 1 .. k : stack[i].at # "load"
  BY <1>1, <1>2, <1>4, TopPlaced
<1>9. ASSUME HasStays PROVE Asked'
  <2>1. Owes(stack'[k + 1]) \subseteq stack'[k + 1].todo
    BY <1>3, <1>5 DEF Owes, Windows
  <2> QED
    BY <1>2, <1>3, <1>4, <1>5, <1>9, <2>1, AskedPushed
<1>10. WindowImports'
  <2>1. stack[k].at \in Windows => stack'[k].todo = {}
    BY <1>2, <1>4, <1>5, WindowAsks
  <2> QED
    BY <1>2, <1>3, <1>4, <1>5, <2>1, ImportsKept
<1>11. /\ stack'[k + 1].at \in Windows /\ stack'[k + 1].at \notin Published
       /\ stack'[k + 1].at # "eval" /\ Len(stack) # k + 1 /\ k # 0
  BY <1>3, <1>4, <1>5 DEF Windows, Published
<1> QED
  BY <1>2, <1>3, <1>4, <1>5, <1>6, <1>7, <1>8, <1>9, <1>10, <1>11, WindowInv

LEMMA EntryWarmInv ==
  ASSUME Inv, EntryWarm
  PROVE  Inv'
<1> USE DEF Inv
<1>1. PICK m, f : m = Top.mod /\ f = Frame(m, "warming", {Compiler})
  OBVIOUS
<1>2. /\ stack # <<>> /\ ret = "none" /\ Top.at = "prelude" /\ Top.todo = {}
      /\ ~loading /\ loading' = TRUE /\ warmed' = TRUE
      /\ stack' = Replaced(f) /\ UNCHANGED <<disk, state, ret, history>>
  BY <1>1 DEF EntryWarm, Ready, Warm, ShouldWarm, Replaced
<1>3. /\ f \in FrameType /\ f.mod = m /\ f.at = "warming" /\ f.todo = {Compiler} /\ ~f.was
      /\ m \in Module
  <2>1. m \in Module
    BY <1>1, <1>2, TopIs
  <2> QED
    BY <1>1, <1>2, <2>1, ImportAssumption DEF Frame, FrameType, At, Windows, TypeOK, Module, Seeded
<1>4. Len(stack) = 1 /\ Top = stack[1] /\ DOMAIN stack = {1}
  <2>1. Len(stack) = 1
    BY <1>2, TopPlaced DEF IsEntry
  <2> QED
    BY <1>2, <2>1, TopIs, Frames
<1>5. /\ Stepped(0) /\ Len(stack') = 1 /\ stack'[1] = f
  BY <1>2, <1>3, <1>4, Replaces DEF Stepped
<1>6. Cardinality(PublishedBelow(1)) < MaxDepth
  <2>1. PublishedBelow(1) = {}
    BY <1>4 DEF PublishedBelow
  <2> QED
    BY <2>1, FS_EmptySet, ImportAssumption
<1>7. stack'[1].mod = stack[1].mod /\ ~Entered /\ ~Entered'
  BY <1>1, <1>2, <1>3, <1>4, <1>5 DEF Entered
<1>8. PICK k : k = 0
  OBVIOUS
<1>9. /\ k \in Nat /\ k + 1 = 1 /\ Stepped(k) /\ Len(stack) = k + 1 /\ Len(stack') = k + 1
      /\ stack'[k + 1] = f /\ Cardinality(PublishedBelow(k + 1)) < MaxDepth
      /\ \A i \in 1 .. k : FALSE
  BY <1>4, <1>5, <1>6, <1>8
<1>10. ASSUME HasStays PROVE Asked'
  <2>1. Owes(stack'[k + 1]) \subseteq stack'[k + 1].todo
    BY <1>3, <1>9 DEF Owes, Windows
  <2>2. stack'[k + 1].mod = stack[k + 1].mod
    BY <1>7, <1>9
  <2> QED
    BY <1>9, <1>10, <2>1, <2>2, AskedReplaced
<1>11. WindowImports'
  BY <1>2, <1>3, <1>4, <1>5, ImportsKept
<1>12. /\ stack'[k + 1].at \in Windows /\ stack'[k + 1].at \notin Published
       /\ stack'[k + 1].at # "eval" /\ stack[k + 1].at \notin Published
  BY <1>2, <1>3, <1>4, <1>9 DEF Windows, Published
<1> QED
  BY <1>2, <1>3, <1>7, <1>8, <1>9, <1>10, <1>11, <1>12, WindowInv

LEMMA CompileInv ==
  ASSUME Inv, NEW m \in Module, Compile(m)
  PROVE  Inv'
<1> USE DEF Inv
<1>1. PICK f, k : f = Frame(m, "compile", {Compiler}) /\ k = Len(stack) - 1
  OBVIOUS
<1>2. /\ stack # <<>> /\ ret = "none" /\ Top.at = "load" /\ Top.mod = m
      /\ ~loading /\ loading' = TRUE /\ warmed' = warmed
      /\ stack' = Replaced(f) /\ UNCHANGED <<disk, state, ret, history>>
  BY <1>1 DEF Compile, Loads, Ready
<1>3. /\ f \in FrameType /\ f.mod = m /\ f.at = "compile" /\ f.todo = {Compiler} /\ ~f.was
  BY <1>1, <1>2, ImportAssumption DEF Frame, FrameType, At, Windows, TypeOK, Module, Seeded
<1>4. k \in Nat /\ Len(stack) = k + 1 /\ Top = stack[k + 1]
  BY <1>1, <1>2, TopIs
<1>5. Stepped(k) /\ Len(stack') = k + 1 /\ stack'[k + 1] = f
  BY <1>1, <1>2, <1>3, <1>4, Replaces DEF Stepped
<1>6. Cardinality(PublishedBelow(k + 1)) < MaxDepth
  <2>1. PICK d, c : d = Depth /\ c = Cardinality(PublishedBelow(k + 1))
    OBVIOUS
  <2>2. d = Cardinality(PublishedBelow(Len(stack) + 1)) /\ c < d
    BY <1>2, <1>4, <2>1, DepthIs DEF Published
  <2>3. d \in Nat /\ c \in Nat /\ d <= MaxDepth
    BY <2>1, <2>2, Finite DEF TypeOK
  <2> QED
    BY <2>1, <2>2, <2>3, ImportAssumption
<1>7. \A i \in 1 .. k : stack[i].at # "load"
  BY <1>1, <1>2, TopPlaced
<1>8. ASSUME HasStays PROVE Asked'
  <2>1. Owes(stack'[k + 1]) \subseteq stack'[k + 1].todo
    BY <1>3, <1>5 DEF Owes, Windows
  <2> QED
    BY <1>2, <1>3, <1>4, <1>5, <1>8, <2>1, AskedReplaced
<1>9. WindowImports'
  BY <1>2, <1>3, <1>4, <1>5, ImportsKept
<1>10. k = 0 => stack'[1].mod = stack[1].mod /\ Entered /\ Entered'
  <2>1. stack' # <<>>
    BY <1>4, <1>5, After
  <2> QED
    BY <1>2, <1>3, <1>4, <1>5, <2>1 DEF Entered
<1>11. /\ stack'[k + 1].at \in Windows /\ stack'[k + 1].at \in Published
       /\ stack[k + 1].at \in Published /\ stack'[k + 1].mod = stack[k + 1].mod
       /\ stack'[k + 1].at # "eval" /\ stack'[k + 1].at # "warming"
  BY <1>2, <1>3, <1>4, <1>5 DEF Windows, Published
<1>12. loading' \in BOOLEAN /\ warmed' \in BOOLEAN
  BY <1>2 DEF TypeOK
<1> QED
  BY <1>2, <1>3, <1>4, <1>5, <1>6, <1>7, <1>8, <1>9, <1>10, <1>11, <1>12, WindowInv

LEMMA EvalInv ==
  ASSUME Inv, Eval
  PROVE  Inv'
<1> USE DEF Inv
<1>1. PICK f, k : f = Frame(Top.mod, "eval", {Compiler}) /\ k = Len(stack)
  OBVIOUS
<1>2. /\ stack # <<>> /\ ret = "none" /\ Top.at \in {"body", "main"} /\ Top.mod \in User
      /\ loading' = TRUE /\ warmed' = warmed
      /\ stack' = Append(stack, f) /\ UNCHANGED <<disk, state, ret, history>>
  BY <1>1 DEF Eval, Ready
<1>3. /\ f \in FrameType /\ f.at = "eval" /\ f.todo = {Compiler} /\ f.was = loading
  <2>1. Top.mod \in Module
    BY <1>2, TopIs
  <2> QED
    BY <1>1, <1>2, <2>1, ImportAssumption DEF Frame, FrameType, At, Windows, TypeOK, Module, Seeded
<1>4. k \in Nat \ {0} /\ Top = stack[k]
  BY <1>1, <1>2, TopIs
<1>5. /\ Stepped(k) /\ Len(stack) = k /\ Len(stack') = k + 1 /\ stack'[k + 1] = f
      /\ stack'[k].todo = stack[k].todo
  BY <1>1, <1>2, <1>3, <1>4, Stacks DEF Stepped
<1>6. \A i \in 1 .. k : stack[i].at # "load"
  <2>1. \A i \in 1 .. k - 1 : stack[i].at # "load"
    BY <1>1, <1>2, TopPlaced
  <2>2. \A i \in 1 .. k : i \in 1 .. k - 1 \/ i = k
    BY <1>4
  <2> QED
    BY <1>2, <1>4, <2>1, <2>2
<1>7. Owes(stack[k]) = {}
  BY <1>2, <1>4, ImportAssumption DEF Owes, Windows, Seeded
<1>8. ASSUME HasStays PROVE Asked'
  <2>1. Owes(stack'[k + 1]) \subseteq stack'[k + 1].todo
    BY <1>3, <1>5 DEF Owes, Windows
  <2> QED
    BY <1>2, <1>4, <1>5, <1>7, <1>8, <2>1, AskedPushed
<1>9. WindowImports'
  <2>1. stack[k].at \notin Windows
    BY <1>2, <1>4 DEF Windows
  <2> QED
    BY <1>2, <1>3, <1>4, <1>5, <2>1, ImportsKept
<1>10. f.was => \E j \in 1 .. k : stack[j].at \in Windows
  BY <1>1, <1>3, Frames DEF InWindow
<1>11. /\ stack'[k + 1].at \in Windows /\ stack'[k + 1].at \notin Published
       /\ Len(stack) # k + 1 /\ k # 0 /\ stack'[k + 1].at # "warming"
  BY <1>3, <1>4, <1>5 DEF Windows, Published
<1>12. loading' \in BOOLEAN /\ warmed' \in BOOLEAN
  BY <1>2 DEF TypeOK
<1> QED
  BY <1>2, <1>3, <1>4, <1>5, <1>6, <1>8, <1>9, <1>10, <1>11, <1>12, WindowInv

\* The body that was found runs: current, or inside the window.
LEMMA BodyRunsInv ==
  ASSUME Inv, stack # <<>>, Top.at \in {"load", "compile"}, NEW c \in {"current", "old"},
         NEW m, m = Top.mod, RunBody(m, c), c = "old" => m \in windowed,
         cache' \in [Module -> {"none", "good", "stale"}],
         UNCHANGED <<newer, state, warmed, windowed, broken>>, ret' = "none",
         loading' \in BOOLEAN,
         loading' => \E i \in 1 .. Len(stack) - 1 : stack[i].at \in Windows,
         ~broken /\ warmed /\ ~loading' => ~loading \/ Arrived
  PROVE  Inv'
<1> USE DEF Inv
<1>1. PICK f, k : f = Frame(m, "body", Uses[m]) /\ k = Len(stack) - 1
  OBVIOUS
<1>2. code' = [code EXCEPT ![m] = c] /\ stack' = Replaced(f)
  BY <1>1 DEF RunBody
<1>3. m \in Module /\ f \in FrameType /\ f.mod = m /\ f.at = "body" /\ f.todo = Uses[m]
  <2>1. m \in Module
    BY TopIs
  <2>2. Uses[m] \subseteq Module
    BY <2>1, ImportAssumption
  <2> QED
    BY <1>1, <2>1, <2>2 DEF Frame, FrameType, At, Published, TypeOK
<1>4. k \in Nat /\ Len(stack) = k + 1 /\ Top = stack[k + 1]
  BY <1>1, TopIs
<1>5. Stepped(k) /\ Len(stack') = k + 1 /\ stack'[k + 1] = f
  BY <1>1, <1>2, <1>3, <1>4, Replaces DEF Stepped
<1>6. stack' # <<>> /\ stack'[1].mod = stack[1].mod /\ (Entered' <=> Entered)
  <2>1. stack' # <<>>
    BY <1>4, <1>5, After
  <2>2. k = 0 => stack'[1].mod = stack[1].mod /\ Entered /\ Entered'
    BY <1>3, <1>4, <1>5, <2>1 DEF Entered
  <2>3. k # 0 => stack'[1].mod = stack[1].mod /\ (Entered' <=> Entered)
    BY <1>4, <1>5, Bottom
  <2> QED
    BY <2>1, <2>2, <2>3
<1>7. HasStays
  BY <1>6 DEF HasStays, Has
<1>8. TypeOK'
  <2>1. Cardinality(PublishedBelow(k + 1)) < MaxDepth
    <3>1. PICK d, n : d = Depth /\ n = Cardinality(PublishedBelow(k + 1))
      OBVIOUS
    <3>2. d = Cardinality(PublishedBelow(Len(stack) + 1)) /\ n < d
      BY <1>4, <3>1, DepthIs DEF Published
    <3>3. d \in Nat /\ n \in Nat /\ d <= MaxDepth
      BY <3>1, <3>2, Finite DEF TypeOK
    <3> QED
      BY <3>1, <3>2, <3>3, ImportAssumption
  <2>2. Depth' <= MaxDepth
    BY <1>4, <1>5, <2>1, DepthOK
  <2>3. stack' \in Seq(FrameType)
    BY <1>5 DEF Stepped
  <2>4. code' \in [Module -> {"none", "current", "old"}]
    BY <1>2 DEF TypeOK
  <2> QED
    BY <2>2, <2>3, <2>4 DEF TypeOK, FrameType, At
<1>9. Idle'
  BY <1>6 DEF Idle
<1>10. OneLoad'
  <2>1. stack[k + 1].mod = stack'[k + 1].mod /\ stack[k + 1].at \in Published
        /\ stack'[k + 1].at \in Published
    BY <1>3, <1>4, <1>5 DEF Published
  <2> QED
    BY <1>4, <1>5, <2>1, LoadKept
<1>11. \A i \in 1 .. k : stack[i].at # "load"
  BY <1>1, TopPlaced
<1>12. Places'
  <2>1. \A i \in 1 .. k : stack[i].at = "main" => state'[stack[i].mod] = "loaded"
    BY <1>4, <1>5, Shape DEF Places
  <2>2. Placed(stack', k + 1, state', loading', windowed')
    BY <1>3, <1>5 DEF Placed
  <2> QED
    BY <1>4, <1>5, <1>11, <2>1, <2>2, PlacesKept
<1>13. WarmedFor'
  BY <1>3, <1>4, <1>5, WarmedForKept
<1>14. InWindow'
  BY <1>1, <1>3, <1>4, <1>5, InWindowKept DEF Windows
<1>15. Asked'
  <2>1. Owes(stack'[k + 1]) \subseteq stack'[k + 1].todo
    BY <1>3, <1>5 DEF Owes, Windows
  <2> QED
    BY <1>3, <1>4, <1>5, <1>7, <2>1, AskedReplaced
<1>16. WindowImports'
  BY <1>3, <1>4, <1>5, ImportsKept DEF Windows
<1>17. LoadedClosed'
  BY <1>7, LoadedClosedKept
<1>18. AllArrived'
  BY <1>6, <1>7, AllArrivedKept
<1>19. CameWindowed'
  BY <1>6, CameKept
<1>20. RunsSource'
  <2>1. \A x \in Module : code'[x] = IF x = m THEN c ELSE code[x]
    BY <1>2, <1>3 DEF TypeOK
  <2> QED
    BY <2>1 DEF RunsSource
<1> QED
  BY <1>8, <1>9, <1>10, <1>12, <1>13, <1>14, <1>15, <1>16, <1>17, <1>18, <1>19, <1>20

\* The windows below a call that is not one.
LEMMA WindowBelow ==
  ASSUME Inv, stack # <<>>
  PROVE  /\ loading /\ Top.at \notin Windows =>
              \E i \in 1 .. Len(stack) - 1 : stack[i].at \in Windows
         /\ Top.at \in Windows /\ Top.was =>
              \E i \in 1 .. Len(stack) - 1 : stack[i].at \in Windows
<1>1. PICK n : n = Len(stack)
  OBVIOUS
<1>2. n \in Nat /\ n >= 1 /\ Top = stack[n] /\ DOMAIN stack = 1 .. n
  BY <1>1, TopIs, Frames DEF Inv
<1>3. n \in DOMAIN stack /\ \A i \in DOMAIN stack : i \in 1 .. n - 1 \/ i = n
  BY <1>2
<1> QED
  BY <1>1, <1>2, <1>3 DEF Inv, InWindow

LEMMA LoadCachedInv ==
  ASSUME Inv, NEW m \in Module, LoadCached(m)
  PROVE  Inv'
<1>1. /\ stack # <<>> /\ Top.at = "load" /\ Top.mod = m /\ RunBody(m, "current")
      /\ cache' = cache /\ loading' = loading /\ warmed' = warmed /\ ret' = "none"
      /\ UNCHANGED <<newer, state, warmed, windowed, broken>>
  BY DEF LoadCached, Hit, Loads, Ready, disk, flags
<1>2. cache \in [Module -> {"none", "good", "stale"}] /\ loading \in BOOLEAN
  BY DEF Inv, TypeOK
<1>3. loading' => \E i \in 1 .. Len(stack) - 1 : stack[i].at \in Windows
  BY <1>1, WindowBelow DEF Windows
<1>4. PICK c : c = "current"
  OBVIOUS
<1>5. c \in {"current", "old"} /\ c # "old" /\ RunBody(m, c) /\ Top.at \in {"load", "compile"}
  BY <1>1, <1>4
<1> QED
  BY <1>1, <1>2, <1>3, <1>5, BodyRunsInv

LEMMA LoadSeedInv ==
  ASSUME Inv, NEW m \in Module, LoadSeed(m)
  PROVE  Inv'
<1>1. PICK c : c = IF m \in newer THEN "old" ELSE "current"
  OBVIOUS
<1>2. /\ stack # <<>> /\ Top.at = "load" /\ Top.mod = m /\ RunBody(m, c)
      /\ cache' = cache /\ loading' = loading /\ warmed' = warmed /\ ret' = "none"
      /\ UNCHANGED <<newer, state, warmed, windowed, broken>>
      /\ IF loading THEN m \in Seeded ELSE ~IsEntry /\ SeedStandsIn(m)
  BY <1>1 DEF LoadSeed, Loads, Ready, disk, flags
<1>3. cache \in [Module -> {"none", "good", "stale"}] /\ loading \in BOOLEAN
  BY DEF Inv, TypeOK
<1>4. loading' => \E i \in 1 .. Len(stack) - 1 : stack[i].at \in Windows
  BY <1>2, WindowBelow DEF Windows
<1>5. c = "old" => m \in windowed
  <2>1. loading => m \in windowed
    BY <1>2, TopPlaced DEF Inv
  <2>2. ~loading => m \notin newer
    BY <1>2 DEF SeedStandsIn, SeedLibraryIntact
  <2> QED
    BY <1>1, <2>1, <2>2
<1>6. c \in {"current", "old"} /\ Top.at \in {"load", "compile"}
  BY <1>1, <1>2
<1> QED
  BY <1>2, <1>3, <1>4, <1>5, <1>6, BodyRunsInv

LEMMA CompiledInv ==
  ASSUME Inv, Compiled
  PROVE  Inv'
<1>1. PICK m, c : m = Top.mod /\ c = "current"
  OBVIOUS
<1>2. /\ stack # <<>> /\ Top.at = "compile" /\ ret = "ok" /\ loading' = Top.was
      /\ cache' = [cache EXCEPT ![m] = "good"] /\ RunBody(m, c) /\ ret' = "none"
      /\ UNCHANGED <<newer, state, warmed, windowed, broken>>
  BY <1>1 DEF Compiled
<1>3. /\ cache' \in [Module -> {"none", "good", "stale"}] /\ loading' \in BOOLEAN
  <2>1. Top.was \in BOOLEAN
    BY <1>2, TopIs DEF Inv, FrameType
  <2> QED
    BY <1>2, <2>1 DEF Inv, TypeOK
<1>4. Top.at \in Windows
  BY <1>2 DEF Windows
<1>5. loading' => \E i \in 1 .. Len(stack) - 1 : stack[i].at \in Windows
  BY <1>2, <1>4, WindowBelow
<1>6. ~broken => Arrived
  BY <1>2, <1>4, WindowBrings
<1>7. c \in {"current", "old"} /\ c # "old" /\ Top.at \in {"load", "compile"}
  BY <1>1, <1>2
<1> QED
  BY <1>1, <1>2, <1>3, <1>5, <1>6, <1>7, BodyRunsInv

-----------------------------------------------------------------------------
(* The steps: a call returns.                                               *)

LEMMA ReturnInv ==
  ASSUME Inv, stack # <<>>, ~IsEntry, NEW k, k = Len(stack) - 1, NEW z, z = Top.mod,
         stack' = Rest, ret' \in {"ok", "fail"}, Stepped(k) => OneLoad',
         UNCHANGED <<cache, newer, warmed, code, windowed>>,
         state' \in [Module -> {"absent", "loading", "loaded"}],
         \A m \in Module : /\ state[m] = "loaded" => state'[m] = "loaded"
                           /\ state[m] = "absent" => state'[m] = "absent",
         \A m \in FrontEnd : state'[m] = "loaded" =>
           state[m] = "loaded" \/ \A x \in Uses[m] \intersect FrontEnd : Has(x),
         loading' \in BOOLEAN, loading' => \E i \in 1 .. k : stack[i].at \in Windows,
         broken' \in BOOLEAN, broken => broken',
         ~broken' /\ warmed /\ ~loading' => ~loading \/ Arrived,
         state'[z] = "loaded" \/ ret' = "fail" \/ Owes(stack[k]) = {}
  PROVE  Inv'
<1> USE DEF Inv
<1>1. k \in Nat \ {0} /\ Len(stack) = k + 1 /\ Top = stack[k + 1]
  BY TopIs DEF IsEntry
<1>2. Stepped(k) /\ Len(stack') = k
  BY <1>1, Pops DEF Stepped
<1>3. stack' # <<>> /\ stack'[1].mod = stack[1].mod /\ (Entered' <=> Entered)
  BY <1>1, <1>2, Bottom
<1>4. HasStays
  BY <1>1, <1>2, StaysThere
<1>5. Len(stack') # k + 1 /\ k # Len(stack)
  BY <1>1, <1>2
<1>6. TypeOK'
  <2>1. Depth' <= MaxDepth
    BY <1>1, <1>2, <1>5, DepthOK
  <2>2. stack' \in Seq(FrameType)
    BY <1>2 DEF Stepped
  <2> QED
    BY <2>1, <2>2 DEF TypeOK, FrameType, At
<1>7. Idle'
  BY <1>3 DEF Idle
<1>8. \A i \in 1 .. k : stack[i].at # "load"
  BY TopPlaced
<1>9. Places'
  <2>1. \A i \in 1 .. k : stack[i].at = "main" => state'[stack[i].mod] = "loaded"
    BY <1>1, <1>2, Shape DEF Places
  <2> QED
    BY <1>1, <1>2, <1>5, <1>8, <2>1, PlacesKept
<1>10. WarmedFor'
  BY <1>1, <1>2, <1>5, WarmedForKept
<1>11. InWindow'
  BY <1>1, <1>2, <1>5, InWindowKept
<1>12. Asked'
  <2>1. state'[z] = "loaded" => Has(z)'
    BY DEF Has
  <2>2. z = stack[k + 1].mod
    BY <1>1
  <2> QED
    BY <1>1, <1>2, <1>4, <2>1, <2>2, AskedReturned
<1>13. WindowImports'
  BY <1>1, <1>2, <1>5, ImportsKept
<1>14. LoadedClosed'
  BY <1>4, LoadedClosedKept
<1>15. AllArrived'
  BY <1>3, <1>4, AllArrivedKept
<1>16. CameWindowed'
  <2>1. \A m \in Reached : m \in Module
    BY DEF Reached, Module, Seeded
  <2> QED
    BY <1>3, <2>1, CameKept
<1>17. RunsSource'
  BY DEF RunsSource
<1> QED
  BY <1>2, <1>6, <1>7, <1>9, <1>10, <1>11, <1>12, <1>13, <1>14, <1>15, <1>16, <1>17

\* The call that returns has published nothing.
LEMMA ReturnKeeps ==
  ASSUME Inv, NEW k \in Nat, k = Len(stack) - 1, stack # <<>>, stack' = Rest,
         Top.at \notin Published, state' = state
  PROVE  Stepped(k) => OneLoad'
<1>1. Len(stack) = k + 1 /\ Top = stack[k + 1]
  BY TopIs DEF Inv
<1>2. Len(stack') = k
  BY <1>1, Pops DEF Inv
<1> QED
  BY <1>1, <1>2, LoadKept DEF Inv

\* The call that returns is done with the module it has published.
LEMMA ReturnStops ==
  ASSUME Inv, NEW k \in Nat, k = Len(stack) - 1, stack # <<>>, stack' = Rest,
         Top.at \in Published, NEW x, x = Top.mod, NEW v \in {"absent", "loaded"},
         state' = [state EXCEPT ![x] = v]
  PROVE  /\ Stepped(k) => OneLoad'
         /\ state[x] = "loading" /\ x \in Module
         /\ state' \in [Module -> {"absent", "loading", "loaded"}]
         /\ \A m \in Module : state'[m] = IF m = x THEN v ELSE state[m]
<1>1. Len(stack) = k + 1 /\ Top = stack[k + 1] /\ x \in Module
  BY TopIs DEF Inv
<1>2. Len(stack') = k /\ Stepped(k)
  BY <1>1, Pops DEF Inv, Stepped
<1>3. /\ state' \in [Module -> {"absent", "loading", "loaded"}]
      /\ \A m \in Module : state'[m] = IF m = x THEN v ELSE state[m]
  BY DEF Inv, TypeOK
<1>4. \A m \in Module : state'[m] = "loading" <=> state[m] = "loading" /\ m # x
  BY <1>3
<1>5. OneLoad' /\ state[x] = "loading"
  BY <1>1, <1>2, <1>4, LoadStops DEF Inv
<1> QED
  BY <1>1, <1>3, <1>5

LEMMA WarmEndReturnInv ==
  ASSUME Inv, WarmEnd, ~IsEntry, Satisfied(Top.mod)
  PROVE  Inv'
<1>1. PICK k, z : k = Len(stack) - 1 /\ z = Top.mod
  OBVIOUS
<1>2. /\ stack # <<>> /\ ret # "none" /\ Top.at = "warming" /\ state[z] = "loaded"
      /\ loading' = FALSE /\ broken' = (broken \/ ret = "fail")
      /\ stack' = Rest /\ ret' = "ok"
      /\ UNCHANGED <<cache, newer, warmed, code, windowed>> /\ state' = state
  BY <1>1 DEF WarmEnd, Return, Satisfied, disk
<1>3. k \in Nat
  BY <1>1, <1>2, TopIs DEF Inv
<1>4. Stepped(k) => OneLoad'
  BY <1>1, <1>2, <1>3, ReturnKeeps DEF Published
<1>5. ~broken' => Arrived
  <2>1. ret = "ok" \/ ret = "fail"
    BY <1>2 DEF Inv, TypeOK
  <2> QED
    BY <1>2, <2>1, WindowBrings DEF Windows
<1>6. state' \in [Module -> {"absent", "loading", "loaded"}] /\ broken' \in BOOLEAN
      /\ loading' \in BOOLEAN
  BY <1>2 DEF Inv, TypeOK
<1> QED
  BY <1>1, <1>2, <1>4, <1>5, <1>6, ReturnInv

LEMMA EvalEndInv ==
  ASSUME Inv, EvalEnd
  PROVE  Inv'
<1>1. PICK k, z : k = Len(stack) - 1 /\ z = Top.mod
  OBVIOUS
<1>2. /\ stack # <<>> /\ ret # "none" /\ Top.at = "eval"
      /\ loading' = Top.was /\ broken' = (broken \/ ret = "fail")
      /\ stack' = Rest /\ ret' = ret
      /\ UNCHANGED <<cache, newer, warmed, code, windowed>> /\ state' = state
  BY DEF EvalEnd, Return, disk
<1>3. k \in Nat
  BY <1>1, <1>2, TopIs DEF Inv
<1>4. Stepped(k) => OneLoad'
  BY <1>1, <1>2, <1>3, ReturnKeeps DEF Published
<1>5. /\ state' \in [Module -> {"absent", "loading", "loaded"}] /\ broken' \in BOOLEAN
      /\ loading' \in BOOLEAN /\ ret \in {"ok", "fail"}
  <2>1. Top.was \in BOOLEAN
    BY <1>2, TopIs DEF Inv, FrameType
  <2> QED
    BY <1>2, <2>1 DEF Inv, TypeOK
<1>6. ~broken' => Arrived
  BY <1>2, <1>5, WindowBrings DEF Windows
<1>7. ~IsEntry /\ Owes(stack[k]) = {}
  <2>1. ~IsEntry /\ stack[k].at \in {"body", "main"} /\ stack[k].mod \in User
    BY <1>1, <1>2, TopPlaced DEF Inv
  <2> QED
    BY <2>1, ImportAssumption DEF Owes, Windows, Seeded
<1>8. loading' => \E i \in 1 .. k : stack[i].at \in Windows
  BY <1>1, <1>2, WindowBelow DEF Windows
<1> QED
  BY <1>1, <1>2, <1>4, <1>5, <1>6, <1>7, <1>8, ReturnInv

\* A call gives its module up.
LEMMA GiveUpInv ==
  ASSUME Inv, stack # <<>>, ~IsEntry, GiveUp, Top.at \in Published, UNCHANGED disk,
         loading' \in BOOLEAN, broken' \in BOOLEAN, broken => broken',
         loading' => \E i \in 1 .. Len(stack) - 1 : stack[i].at \in Windows,
         ~broken' /\ warmed /\ ~loading' => ~loading \/ Arrived
  PROVE  Inv'
<1>1. PICK k, z, v : k = Len(stack) - 1 /\ z = Top.mod /\ v = "absent"
  OBVIOUS
<1>2. /\ state' = [state EXCEPT ![z] = v] /\ stack' = Rest /\ ret' = "fail"
      /\ UNCHANGED <<cache, newer, warmed, code, windowed>>
  BY <1>1 DEF GiveUp, Forgotten, Return, disk
<1>3. k \in Nat /\ v \in {"absent", "loaded"}
  BY <1>1, TopIs DEF Inv
<1>4. /\ Stepped(k) => OneLoad'
      /\ state[z] = "loading" /\ z \in Module
      /\ state' \in [Module -> {"absent", "loading", "loaded"}]
      /\ \A m \in Module : state'[m] = IF m = z THEN v ELSE state[m]
  BY <1>1, <1>2, <1>3, ReturnStops
<1>5. /\ \A m \in Module : /\ state[m] = "loaded" => state'[m] = "loaded"
                           /\ state[m] = "absent" => state'[m] = "absent"
      /\ \A m \in FrontEnd : state'[m] = "loaded" => state[m] = "loaded"
  <2>1. \A m \in Module : /\ state[m] = "loaded" => state'[m] = "loaded"
                          /\ state[m] = "absent" => state'[m] = "absent"
                          /\ state'[m] = "loaded" => state[m] = "loaded"
    BY <1>1, <1>4
  <2> QED
    BY <2>1 DEF Module, Seeded
<1> QED
  BY <1>1, <1>2, <1>4, <1>5, ReturnInv

\* A body is done.
LEMMA BodyReturnInv ==
  ASSUME Inv, BodyEnd, ~IsEntry
  PROVE  Inv'
<1>1. PICK k, z, v : k = Len(stack) - 1 /\ z = Top.mod /\ v = "loaded"
  OBVIOUS
<1>2. /\ stack # <<>> /\ ret = "none" /\ Top.at = "body" /\ (Top.todo = {} \/ z \in User)
      /\ state' = [state EXCEPT ![z] = v] /\ stack' = Rest /\ ret' = "ok"
      /\ UNCHANGED <<cache, newer, warmed, code, windowed>>
      /\ loading' = loading /\ broken' = broken
  BY <1>1 DEF BodyEnd, Ready, Return, disk, flags, history
<1>3. k \in Nat /\ v \in {"absent", "loaded"}
  BY <1>1, <1>2, TopIs DEF Inv
<1>4. /\ Stepped(k) => OneLoad'
      /\ state[z] = "loading" /\ z \in Module
      /\ state' \in [Module -> {"absent", "loading", "loaded"}]
      /\ \A m \in Module : state'[m] = IF m = z THEN v ELSE state[m]
  BY <1>1, <1>2, <1>3, ReturnStops DEF Published
<1>5. z \in FrontEnd => \A x \in Uses[z] \intersect FrontEnd : Has(x)
  <2> SUFFICES ASSUME z \in FrontEnd, NEW x \in Uses[z] \intersect FrontEnd PROVE Has(x)
    OBVIOUS
  <2>1. Top.todo = {}
    BY <1>2, ImportAssumption DEF Seeded
  <2>2. PICK n : n = Len(stack)
    OBVIOUS
  <2>3. n \in DOMAIN stack /\ Top = stack[n] /\ ~(n < n)
    BY <1>2, <2>2, TopIs, Frames DEF Inv
  <2>4. x \in Owes(stack[n]) \ stack[n].todo
    BY <1>1, <1>2, <2>1, <2>3 DEF Owes, Windows
  <2> QED
    BY <1>2, <2>2, <2>3, <2>4 DEF Inv, Asked
<1>6. /\ \A m \in Module : /\ state[m] = "loaded" => state'[m] = "loaded"
                           /\ state[m] = "absent" => state'[m] = "absent"
      /\ \A m \in FrontEnd : state'[m] = "loaded" =>
           state[m] = "loaded" \/ \A x \in Uses[m] \intersect FrontEnd : Has(x)
  <2>1. \A m \in Module : /\ state[m] = "loaded" => state'[m] = "loaded"
                          /\ state[m] = "absent" => state'[m] = "absent"
                          /\ state'[m] = "loaded" => state[m] = "loaded" \/ m = z
    BY <1>1, <1>4
  <2> QED
    BY <1>5, <2>1 DEF Module, Seeded
<1>7. loading' => \E i \in 1 .. k : stack[i].at \in Windows
  BY <1>1, <1>2, WindowBelow DEF Windows
<1>8. loading' \in BOOLEAN /\ broken' \in BOOLEAN /\ state'[z] = "loaded"
  BY <1>1, <1>2, <1>4 DEF Inv, TypeOK
<1> QED
  BY <1>1, <1>2, <1>4, <1>6, <1>7, <1>8, ReturnInv

-----------------------------------------------------------------------------
(* The steps: the entry, and what is done between processes.                *)

\* The body of the file that is run is done: main is next.
LEMMA BodyEntryInv ==
  ASSUME Inv, BodyEnd, IsEntry
  PROVE  Inv'
<1> USE DEF Inv
<1>1. PICK f, m : f = [Top EXCEPT !.at = "main"] /\ m = Top.mod
  OBVIOUS
<1>2. /\ stack # <<>> /\ ret = "none" /\ Top.at = "body" /\ (Top.todo = {} \/ m \in User)
      /\ state' = [state EXCEPT ![m] = "loaded"] /\ stack' = Replaced(f) /\ ret' = ret
      /\ cache' = cache /\ newer' = newer /\ warmed' = warmed /\ loading' = loading
      /\ code' = code /\ windowed' = windowed /\ broken' = broken
  BY <1>1 DEF BodyEnd, Ready, disk, flags, history
<1>3. /\ f \in FrameType /\ f.mod = m /\ f.at = "main" /\ f.todo = Top.todo /\ m \in Module
  BY <1>1, <1>2, TopIs DEF FrameType, At
<1>4. PICK k : k = 0
  OBVIOUS
<1>5. /\ k \in Nat /\ k + 1 = 1 /\ Len(stack) = k + 1 /\ Top = stack[1] /\ DOMAIN stack = {1}
      /\ \A i \in 1 .. k : FALSE
  BY <1>2, <1>4, TopIs, Frames DEF IsEntry
<1>6. Stepped(k) /\ Len(stack') = k + 1 /\ stack'[1] = f
  BY <1>2, <1>3, <1>5, Replaces DEF Stepped
<1>7. stack' # <<>> /\ stack'[1].mod = stack[1].mod /\ Entered /\ Entered'
  <2>1. stack' # <<>>
    BY <1>5, <1>6, After
  <2> QED
    BY <1>1, <1>2, <1>3, <1>5, <1>6, <2>1 DEF Entered
<1>8. \A x \in Module : state'[x] = IF x = m THEN "loaded" ELSE state[x]
  BY <1>2 DEF TypeOK
<1>9. OneLoad' /\ state[m] = "loading"
  <2>1. \A x \in Module : state'[x] = "loading" <=> state[x] = "loading" /\ x # m
    BY <1>8
  <2>2. stack[k + 1].mod = m /\ stack[k + 1].at \in Published /\ stack'[k + 1].at \notin Published
    BY <1>1, <1>2, <1>3, <1>5, <1>6 DEF Published
  <2> QED
    BY <1>3, <1>5, <1>6, <2>1, <2>2, LoadStops
<1>10. HasStays
  BY <1>7, <1>8 DEF HasStays, Has
<1>11. TypeOK'
  <2>1. Depth' <= MaxDepth
    BY <1>3, <1>5, <1>6, DepthOK DEF Published
  <2>2. stack' \in Seq(FrameType)
    BY <1>6 DEF Stepped
  <2>3. state' \in [Module -> {"absent", "loading", "loaded"}]
    BY <1>2 DEF TypeOK
  <2> QED
    BY <1>2, <2>1, <2>2, <2>3 DEF TypeOK, FrameType, At
<1>12. Idle'
  BY <1>7 DEF Idle
<1>13. Places'
  <2>1. state'[m] = "loaded"
    BY <1>3, <1>8
  <2>2. Placed(stack', k + 1, state', loading', windowed')
    BY <1>3, <1>5, <1>6, <2>1 DEF Placed
  <2> QED
    BY <1>5, <1>6, <2>2, PlacesKept
<1>14. WarmedFor'
  BY <1>3, <1>5, <1>6, WarmedForKept
<1>15. ~loading
  BY <1>2, <1>5 DEF InWindow, Windows
<1>16. InWindow'
  BY <1>2, <1>3, <1>5, <1>6, <1>15, InWindowKept DEF Windows
<1>17. Asked'
  <2>1. Owes(stack'[k + 1]) \subseteq stack'[k + 1].todo
    BY <1>3, <1>5, <1>6 DEF Owes, Windows
  <2> QED
    BY <1>1, <1>3, <1>5, <1>6, <1>10, <2>1, AskedReplaced
<1>18. WindowImports'
  BY <1>3, <1>5, <1>6, ImportsKept DEF Windows
<1>19. LoadedClosed'
  <2>1. m \in FrontEnd => \A x \in Uses[m] \intersect FrontEnd : Has(x)
    <3> SUFFICES ASSUME m \in FrontEnd, NEW x \in Uses[m] \intersect FrontEnd PROVE Has(x)
      OBVIOUS
    <3>1. Top.todo = {}
      BY <1>2, ImportAssumption DEF Seeded
    <3>2. x \in Owes(stack[1]) \ stack[1].todo
      BY <1>1, <1>2, <1>5, <3>1 DEF Owes, Windows
    <3> QED
      BY <1>2, <1>5, <3>2 DEF Asked
  <2>2. \A x \in FrontEnd : state'[x] = "loaded" => state[x] = "loaded" \/ x = m
    BY <1>8 DEF Module, Seeded
  <2> QED
    BY <1>10, <2>1, <2>2, LoadedClosedKept
<1>20. AllArrived'
  BY <1>2, <1>7, <1>10, AllArrivedKept
<1>21. CameWindowed'
  <2>1. \A x \in Reached : x \in Module
    BY DEF Reached, Module, Seeded
  <2> QED
    BY <1>1, <1>2, <1>5, <1>7, <1>8, <2>1, CameKept
<1>22. RunsSource'
  BY <1>2 DEF RunsSource
<1> QED
  BY <1>9, <1>11, <1>12, <1>13, <1>14, <1>16, <1>17, <1>18, <1>19, <1>20, <1>21, <1>22

\* What holds when no process runs.
LEMMA IdleInv ==
  ASSUME TypeOK, Idle, stack = <<>>, \A m \in Module : code[m] # "old"
  PROVE  Inv
<1>1. /\ state = Absent /\ ~loading /\ ~warmed /\ ~broken /\ ret = "none" /\ windowed = {}
  BY DEF Idle
<1>2. DOMAIN stack = {} /\ ~Entered
  BY DEF Entered
<1>3. \A m \in Module : state[m] = "absent" /\ CallsOf(m) = {}
  BY <1>1, <1>2 DEF Absent, CallsOf
<1>4. OneLoad
  BY <1>3 DEF OneLoad
<1>5. Places /\ WarmedFor /\ InWindow /\ Asked /\ WindowImports
  BY <1>1, <1>2 DEF Places, WarmedFor, InWindow, Asked, WindowImports
<1>6. LoadedClosed
  BY <1>3 DEF LoadedClosed, Module, Seeded
<1>7. AllArrived /\ CameWindowed /\ RunsSource
  BY <1>1, <1>2 DEF AllArrived, CameWindowed, RunsSource
<1> QED
  BY <1>4, <1>5, <1>6, <1>7 DEF Inv

LEMMA NoDepth ==
  ASSUME stack = <<>>
  PROVE  Depth <= MaxDepth /\ stack \in Seq(FrameType)
<1>1. PICK D : D = {i \in DOMAIN stack : stack[i].at \in Published}
  OBVIOUS
<1>2. D = {}
  BY <1>1
<1>3. Cardinality(D) = 0
  BY <1>2, FS_EmptySet
<1>4. Depth = 0
  BY <1>1, <1>3 DEF Depth
<1> QED
  BY <1>4, ImportAssumption

LEMMA InitInv == Init => Inv
<1> SUFFICES ASSUME Init PROVE Inv
  OBVIOUS
<1>1. Depth <= MaxDepth /\ stack \in Seq(FrameType) /\ stack = <<>>
  BY NoDepth DEF Init
<1>2. TypeOK
  BY <1>1 DEF Init, TypeOK, Absent, FrameType, At
<1>3. Idle /\ \A m \in Module : code[m] # "old"
  BY DEF Init, Idle
<1> QED
  BY <1>1, <1>2, <1>3, IdleInv

LEMMA GoOnInv ==
  ASSUME Inv, GoOn
  PROVE  Inv'
<1> USE DEF Inv
<1>1. /\ stack # <<>> /\ Top.at \in {"prelude", "body", "main"} /\ ret' = "none"
      /\ ret = "ok" \/ (ret = "fail" /\ (Top.at = "prelude" \/ Top.mod \in User))
      /\ UNCHANGED <<disk, state, flags, stack, history>>
  BY DEF GoOn
<1>2. stack' = stack /\ state' = state /\ loading' = loading /\ warmed' = warmed
      /\ cache' = cache /\ newer' = newer /\ code' = code /\ windowed' = windowed
      /\ broken' = broken
  BY <1>1 DEF disk, flags, history
<1>3. TypeOK' /\ Idle'
  BY <1>1, <1>2 DEF TypeOK, Depth, Idle
<1>4. Top = stack[Len(stack)]
  BY <1>1, TopIs
<1>5. ret = "fail" => Owes(Top) = {}
  BY <1>1, ImportAssumption DEF Owes, Windows, Seeded
<1>6. Asked'
  <2> SUFFICES ASSUME NEW i \in DOMAIN stack, NEW x \in Owes(stack[i]) \ stack[i].todo
               PROVE  Has(x)' \/ (i < Len(stack) /\ stack[i + 1].mod = x)
    BY <1>2 DEF Asked
  <2>1. Has(x)' <=> Has(x)
    BY <1>2 DEF Has, Entered
  <2>2. i = Len(stack) /\ ret = "fail" => FALSE
    BY <1>4, <1>5
  <2> QED
    BY <2>1, <2>2 DEF Asked
<1>7. WindowImports'
  BY <1>1, <1>2 DEF WindowImports
<1> QED
  BY <1>1, <1>3, <1>6, <1>7, QuietInv

LEMMA BetweenInv ==
  ASSUME Inv, Between, cache' \in [Module -> {"none", "good", "stale"}], newer' \subseteq Seeded
  PROVE  Inv'
<1> USE DEF Inv
<1>1. /\ stack' = stack /\ state' = state /\ loading' = loading /\ warmed' = warmed
      /\ code' = code /\ windowed' = windowed /\ broken' = broken /\ ret' = ret
  BY DEF Between, flags, history
<1>2. TypeOK' /\ Idle'
  BY <1>1 DEF TypeOK, Depth, Idle
<1>3. \A x : Has(x)' <=> Has(x)
  BY <1>1 DEF Has, Entered
<1>4. Asked' /\ WindowImports'
  BY <1>1, <1>3 DEF Asked, WindowImports
<1> QED
  BY <1>2, <1>4, QuietInv DEF Between

LEMMA EditInv ==
  ASSUME Inv, (\E m \in Edited : Edit(m)) \/ Rebuild
  PROVE  Inv'
<1>1. /\ Between /\ \E S : cache' = Outdated(S)
      /\ newer' \in {newer} \/ \E m \in Seeded : newer' \in {newer \union {m}, newer \ {m}}
  BY DEF Edit, Rebuild
<1>2. newer' \subseteq Seeded /\ cache' \in [Module -> {"none", "good", "stale"}]
  BY <1>1 DEF Inv, TypeOK, Outdated
<1> QED
  BY <1>1, <1>2, BetweenInv

\* A process ends, in whatever state.
LEMMA ExitInv ==
  ASSUME Inv, Exit, UNCHANGED disk
  PROVE  Inv'
<1>1. /\ state' = Absent /\ loading' = FALSE /\ warmed' = FALSE /\ stack' = <<>>
      /\ ret' = "none" /\ code' = [m \in Module |-> "none"] /\ windowed' = {}
      /\ broken' = FALSE /\ cache' = cache /\ newer' = newer
  BY DEF Exit, disk
<1>2. DOMAIN stack' = {} /\ ~Entered'
  BY <1>1 DEF Entered
<1>3. \A m \in Module : state'[m] = "absent" /\ CallsOf(m)' = {}
  BY <1>1, <1>2 DEF Absent, CallsOf
<1>4. TypeOK'
  <2>1. PICK D : D = {i \in DOMAIN stack' : stack'[i].at \in Published}
    OBVIOUS
  <2>2. D = {}
    BY <1>2, <2>1
  <2>3. Cardinality(D) = 0
    BY <2>2, FS_EmptySet
  <2>4. Depth' = 0
    BY <2>1, <2>3 DEF Depth
  <2>5. Depth' <= MaxDepth
    BY <2>4, ImportAssumption
  <2> QED
    <3>1. stack' \in Seq(FrameType)
      BY <1>1
    <3>2. /\ state' \in [Module -> {"absent", "loading", "loaded"}]
          /\ code' \in [Module -> {"none", "current", "old"}]
      BY <1>1 DEF Absent
    <3>3. cache' \in [Module -> {"none", "good", "stale"}] /\ newer' \subseteq Seeded
      BY <1>1 DEF Inv, TypeOK
    <3> QED
      BY <1>1, <2>5, <3>1, <3>2, <3>3 DEF TypeOK, FrameType, At
<1>5. Idle'
  BY <1>1 DEF Idle
<1>6. OneLoad'
  BY <1>3 DEF OneLoad
<1>7. Places' /\ WarmedFor' /\ InWindow' /\ Asked' /\ WindowImports'
  BY <1>1, <1>2 DEF Places, WarmedFor, InWindow, Asked, WindowImports
<1>8. LoadedClosed'
  BY <1>3 DEF LoadedClosed, Module, Seeded
<1>9. AllArrived' /\ CameWindowed' /\ RunsSource'
  BY <1>1, <1>2 DEF AllArrived, CameWindowed, RunsSource
<1> QED
  BY <1>4, <1>5, <1>6, <1>7, <1>8, <1>9 DEF Inv

LEMMA RunFileInv ==
  ASSUME Inv, NEW m \in Entry, RunFile(m)
  PROVE  Inv'
<1>1. PICK f : f = Frame(m, "prelude", Prelude)
  OBVIOUS
<1>2. /\ stack = <<>> /\ stack' = <<f>> /\ state' = state /\ loading' = loading
      /\ warmed' = warmed /\ ret' = ret /\ code' = code /\ windowed' = windowed
      /\ broken' = broken /\ cache' = cache /\ newer' = newer
  BY <1>1 DEF RunFile, disk, flags, history
<1>3. /\ state = Absent /\ ~loading /\ ~warmed /\ ~broken /\ ret = "none" /\ windowed = {}
  BY <1>2 DEF Inv, Idle
<1>4. /\ f \in FrameType /\ f.mod = m /\ f.at = "prelude"
  <2>1. m \in Module /\ Prelude \subseteq Module /\ loading \in BOOLEAN
    BY ImportAssumption DEF Inv, TypeOK, Module
  <2> QED
    BY <1>1, <2>1 DEF Frame, FrameType, At
<1>5. DOMAIN stack' = {1} /\ Len(stack') = 1 /\ stack'[1] = f /\ stack' # <<>> /\ ~Entered'
      /\ stack' \in Seq(FrameType)
  BY <1>2, <1>4 DEF Entered
<1>6. \A x \in Module : state'[x] = "absent" /\ CallsOf(x)' = {}
  BY <1>2, <1>3, <1>4, <1>5 DEF Absent, CallsOf, Published
<1>7. TypeOK'
  <2>1. PICK D : D = {i \in DOMAIN stack' : stack'[i].at \in Published}
    OBVIOUS
  <2>2. D = {}
    BY <1>4, <1>5, <2>1 DEF Published
  <2>3. Cardinality(D) = 0
    BY <2>2, FS_EmptySet
  <2>4. Depth' = 0
    BY <2>1, <2>3 DEF Depth
  <2>5. Depth' <= MaxDepth
    BY <2>4, ImportAssumption
  <2> QED
    BY <1>2, <1>5, <2>5 DEF Inv, TypeOK, FrameType, At
<1>8. Idle'
  BY <1>5 DEF Idle
<1>9. OneLoad'
  BY <1>6 DEF OneLoad
<1>10. Places' /\ WarmedFor' /\ InWindow' /\ Asked' /\ WindowImports'
  BY <1>2, <1>3, <1>4, <1>5
  DEF Places, WarmedFor, InWindow, Asked, WindowImports, Windows, Owes
<1>11. LoadedClosed'
  BY <1>6 DEF LoadedClosed, Module, Seeded
<1>12. AllArrived' /\ CameWindowed' /\ RunsSource'
  <2>1. \A x \in Reached : state'[x] = "absent"
    BY <1>6 DEF Reached, Module, Seeded
  <2> QED
    BY <1>2, <1>3, <1>5, <2>1 DEF Inv, AllArrived, CameWindowed, RunsSource
<1> QED
  BY <1>7, <1>8, <1>9, <1>10, <1>11, <1>12 DEF Inv

-----------------------------------------------------------------------------
(* The theorems.                                                            *)

\* CompileFailed, Raise and MainEnd.
LEMMA FailedInv ==
  ASSUME Inv, CompileFailed \/ Raise \/ MainEnd
  PROVE  Inv'
<1>1. ASSUME CompileFailed PROVE Inv'
  <2>1. /\ stack # <<>> /\ Top.at = "compile" /\ GiveUp /\ UNCHANGED disk
        /\ ret \in {"ok", "fail"}
        /\ ~IsEntry => loading' = Top.was /\ broken' = (broken \/ ret = "fail")
    BY <1>1 DEF CompileFailed
  <2>2. CASE IsEntry
    BY <2>1, <2>2, ExitInv DEF GiveUp
  <2>3. CASE ~IsEntry
    <3>1. Top.at \in Published /\ Top.at \in Windows
      BY <2>1 DEF Published, Windows
    <3>2. loading' \in BOOLEAN /\ broken' \in BOOLEAN
      <4>1. Top.was \in BOOLEAN
        BY <2>1, TopIs DEF Inv, FrameType
      <4> QED
        BY <2>1, <2>3, <4>1 DEF Inv, TypeOK
    <3>3. loading' => \E i \in 1 .. Len(stack) - 1 : stack[i].at \in Windows
      BY <2>1, <2>3, <3>1, WindowBelow
    <3>4. ~broken' => Arrived
      BY <2>1, <2>3, <3>1, WindowBrings
    <3> QED
      BY <2>1, <2>3, <3>1, <3>2, <3>3, <3>4, GiveUpInv
  <2> QED
    BY <2>2, <2>3
<1>2. ASSUME Raise PROVE Inv'
  <2>1. /\ stack # <<>> /\ Top.at = "body" /\ GiveUp /\ UNCHANGED disk
        /\ ~IsEntry => loading' = loading /\ broken' = broken
    BY <1>2 DEF Raise
  <2>2. CASE IsEntry
    BY <2>1, <2>2, ExitInv DEF GiveUp
  <2>3. CASE ~IsEntry
    <3>1. Top.at \in Published /\ Top.at \notin Windows
      BY <2>1 DEF Published, Windows
    <3>2. loading' \in BOOLEAN /\ broken' \in BOOLEAN
      BY <2>1, <2>3 DEF Inv, TypeOK
    <3>3. loading' => \E i \in 1 .. Len(stack) - 1 : stack[i].at \in Windows
      BY <2>1, <2>3, <3>1, WindowBelow
    <3> QED
      BY <2>1, <2>3, <3>1, <3>2, <3>3, GiveUpInv
  <2> QED
    BY <2>2, <2>3
<1>3. ASSUME MainEnd PROVE Inv'
  BY <1>3, ExitInv DEF MainEnd
<1> QED
  BY <1>1, <1>2, <1>3

LEMMA NextInv == Inv /\ [Next]_vars => Inv'
<1> SUFFICES ASSUME Inv, [Next]_vars PROVE Inv'
  OBVIOUS
<1>1. ASSUME NEW m \in Module, ImportLoaded(m) PROVE Inv'
  <2>1. Imports(m) /\ state[m] = "loaded" /\ stack' = Below(m) /\ ret' \in {"ok", "fail"}
        /\ UNCHANGED <<disk, state, flags, history>>
    BY <1>1 DEF ImportLoaded
  <2> QED
    BY <2>1, AnsweredInv
<1>2. ASSUME NEW m \in Module, ReportCycle(m) \/ ImportTooDeep(m) PROVE Inv'
  <2>1. Imports(m) /\ stack' = Below(m) /\ ret' \in {"ok", "fail"} /\ ret' = "fail"
        /\ UNCHANGED <<disk, state, flags, history>>
    BY <1>2 DEF ReportCycle, ImportTooDeep
  <2> QED
    BY <2>1, AnsweredInv
<1>3. ASSUME NEW m \in Module, ImportWarm(m) PROVE Inv'
  BY <1>3, ImportWarmInv
<1>4. ASSUME NEW m \in Module, ImportPublish(m) PROVE Inv'
  BY <1>4, ImportPublishInv
<1>5. ASSUME NEW m \in Module, LoadCached(m) PROVE Inv'
  BY <1>5, LoadCachedInv
<1>6. ASSUME NEW m \in Module, LoadSeed(m) PROVE Inv'
  BY <1>6, LoadSeedInv
<1>7. ASSUME NEW m \in Module, Compile(m) PROVE Inv'
  BY <1>7, CompileInv
<1>8. ASSUME WarmEnd PROVE Inv'
  BY <1>8, WarmEndReturnInv, WarmEndPublishInv
<1>9. ASSUME Compiled PROVE Inv'
  BY <1>9, CompiledInv
<1>10. ASSUME GoOn PROVE Inv'
  BY <1>10, GoOnInv
<1>11. ASSUME BodyEnd PROVE Inv'
  BY <1>11, BodyReturnInv, BodyEntryInv
<1>12. ASSUME Eval PROVE Inv'
  BY <1>12, EvalInv
<1>13. ASSUME EvalEnd PROVE Inv'
  BY <1>13, EvalEndInv
<1>14. ASSUME NEW m \in Entry, RunFile(m) PROVE Inv'
  BY <1>14, RunFileInv
<1>15. ASSUME EntryWarm PROVE Inv'
  BY <1>15, EntryWarmInv
<1>16. ASSUME EntryPublish PROVE Inv'
  BY <1>16, EntryPublishInv
<1>17. ASSUME CompileFailed \/ Raise \/ MainEnd PROVE Inv'
  BY <1>17, FailedInv
<1>18. ASSUME (\E m \in Edited : Edit(m)) \/ Rebuild PROVE Inv'
  BY <1>18, EditInv
<1>19. ASSUME UNCHANGED vars PROVE Inv'
  <2>1. UNCHANGED <<stack, state, flags, history>> /\ cache' = cache /\ newer' = newer
        /\ ret' = ret
    BY <1>19 DEF vars, disk
  <2>2. stack' = stack /\ state' = state /\ loading' = loading /\ warmed' = warmed
        /\ code' = code /\ windowed' = windowed /\ broken' = broken
    BY <2>1 DEF flags, history
  <2>3. TypeOK' /\ Idle' /\ WindowImports'
    BY <2>1, <2>2 DEF Inv, TypeOK, Depth, Idle, WindowImports
  <2>4. Asked'
    BY <2>1, <2>2 DEF Inv, Asked, Has, Entered
  <2> QED
    BY <2>1, <2>3, <2>4, QuietInv
<1> QED
  BY <1>1, <1>2, <1>3, <1>4, <1>5, <1>6, <1>7, <1>8, <1>9, <1>10, <1>11, <1>12,
     <1>13, <1>14, <1>15, <1>16, <1>17, <1>18, <1>19 DEF Next

\* The inductive invariant holds of every process that runs, whatever the user
\* edits between them.
THEOREM Invariant == Spec => []Inv
BY InitInv, NextInv, PTL DEF Spec

\* The state is of its type, and no more than JAI_MAX_IMPORT_DEPTH modules are
\* on the import stack: jaiImportModule makes room before it publishes one, and
\* the front end loaded in between leaves that room as it was.
THEOREM TypeCorrect == Spec => []TypeOK
<1>1. Inv => TypeOK
  BY DEF Inv
<1> QED
  BY <1>1, Invariant, PTL

\* A module is being loaded exactly while one call of jaiImportModule is at it:
\* every way out of loadModuleBody forgets it or marks it loaded.
THEOREM OneCallLoads == Spec => []LoadingOnStack
<1>1. ASSUME Inv PROVE LoadingOnStack
  <2> SUFFICES ASSUME NEW m \in Module
               PROVE  Cardinality(CallsOf(m)) = IF state[m] = "loading" THEN 1 ELSE 0
    BY DEF LoadingOnStack
  <2>1. PICK C : C = CallsOf(m)
    OBVIOUS
  <2>2. IF state[m] = "loading" THEN \E i : C = {i} ELSE C = {}
    BY <1>1, <2>1 DEF Inv, OneLoad
  <2>3. Cardinality(C) = IF state[m] = "loading" THEN 1 ELSE 0
    BY <2>2, FS_Singleton, FS_EmptySet
  <2> QED
    BY <2>1, <2>3
<1> QED
  BY <1>1, Invariant, PTL

\* Only inside the window does a module run anything but its source as it is:
\* the seed stands in for a module outside it only when the library is intact,
\* and a cache file is used only if it carries the hash of the source.
THEOREM SourceRuns == Spec => []RunsSource
<1>1. Inv => RunsSource
  BY DEF Inv
<1> QED
  BY <1>1, Invariant, PTL

\* The modules of the compiler that are loaded all came through the window,
\* as long as no window has failed.
THEOREM FrontEndTogether == Spec => []OneFrontEnd
<1>1. Inv => OneFrontEnd
  BY DEF Inv, CameWindowed, OneFrontEnd
<1> QED
  BY <1>1, Invariant, PTL

\* What a step does to a module that is loaded.
Stays(m) == state[m] = "loaded" /\ stack' # <<>> /\ m # stack'[1].mod => state'[m] = "loaded"

LEMMA LoadedKept == Inv /\ [Next]_vars => \A m \in Module : Stays(m)
<1> SUFFICES ASSUME Inv, [Next]_vars, NEW m \in Module,
                    state[m] = "loaded", stack' # <<>>, m # stack'[1].mod
             PROVE  state'[m] = "loaded"
  BY DEF Stays
<1> USE DEF Inv
<1>1. state \in [Module -> {"absent", "loading", "loaded"}]
  BY DEF TypeOK
<1>2. ASSUME state' = state PROVE state'[m] = "loaded"
  BY <1>2
<1>3. ASSUME NEW x \in Module, ImportPublish(x) PROVE state'[m] = "loaded"
  BY <1>1, <1>3 DEF ImportPublish, Publish
\* A call is published in the place of the one on top.
<1>4. ASSUME stack # <<>>, IsEntry, Publish(Top.mod, Rest) PROVE state'[m] = "loaded"
  <2>1. PICK x, f : x = Top.mod /\ f = Frame(x, "load", {})
    OBVIOUS
  <2>2. stack' = Replaced(f) /\ state' = [state EXCEPT ![x] = "loading"]
    BY <1>4, <2>1 DEF Publish, Replaced
  <2>3. f \in FrameType /\ f.mod = x
    <3>1. x \in Module /\ loading \in BOOLEAN
      BY <1>4, <2>1, TopIs DEF TypeOK
    <3> QED
      BY <2>1, <3>1 DEF Frame, FrameType, At, Published
  <2>4. stack'[1] = f
    BY <1>4, <2>2, <2>3, Replaces DEF IsEntry
  <2> QED
    BY <1>1, <2>2, <2>3, <2>4
<1>5. ASSUME WarmEnd PROVE state'[m] = "loaded"
  <2>1. CASE IsEntry
    BY <1>4, <1>5, <2>1 DEF WarmEnd
  <2>2. CASE ~IsEntry /\ Satisfied(Top.mod)
    BY <1>2, <1>5, <2>2 DEF WarmEnd
  <2>3. CASE ~IsEntry /\ ~Satisfied(Top.mod)
    BY <1>1, <1>5, <2>3 DEF WarmEnd, Publish, Satisfied
  <2> QED
    BY <2>1, <2>2, <2>3
<1>6. ASSUME EntryPublish PROVE state'[m] = "loaded"
  <2>1. stack # <<>> /\ Top.at = "prelude" /\ Publish(Top.mod, Rest)
    BY <1>6 DEF EntryPublish, Ready
  <2>2. IsEntry
    BY <2>1, TopPlaced
  <2> QED
    BY <1>4, <2>1, <2>2
\* The module that is given up was not loaded.
<1>7. ASSUME stack # <<>>, Top.at \in Published, GiveUp PROVE state'[m] = "loaded"
  <2>1. ~IsEntry
    BY <1>7 DEF GiveUp, Exit
  <2>2. PICK k, z, v : k = Len(stack) - 1 /\ z = Top.mod /\ v = "absent"
    OBVIOUS
  <2>3. state' = [state EXCEPT ![z] = v] /\ stack' = Rest
    BY <1>7, <2>1, <2>2 DEF GiveUp, Forgotten, Return
  <2>4. k \in Nat /\ v \in {"absent", "loaded"}
    BY <1>7, <2>2, TopIs
  <2>5. state[z] = "loading" /\ \A x \in Module : state'[x] = IF x = z THEN v ELSE state[x]
    BY <1>7, <2>2, <2>3, <2>4, ReturnStops
  <2> QED
    BY <2>5
<1>8. ASSUME CompileFailed \/ Raise \/ MainEnd PROVE state'[m] = "loaded"
  <2>1. ~MainEnd
    BY DEF MainEnd, Exit
  <2>2. stack # <<>> /\ Top.at \in Published /\ GiveUp
    BY <1>8, <2>1 DEF CompileFailed, Raise, Published
  <2> QED
    BY <1>7, <2>2
<1>9. ASSUME BodyEnd PROVE state'[m] = "loaded"
  BY <1>1, <1>9 DEF BodyEnd
<1>10. ASSUME NEW x \in Module, ImportLoaded(x) \/ ReportCycle(x) \/ ImportTooDeep(x)
                \/ ImportWarm(x) \/ LoadCached(x) \/ LoadSeed(x) \/ Compile(x)
       PROVE  state' = state
  BY <1>10
  DEF ImportLoaded, ReportCycle, ImportTooDeep, ImportWarm, LoadCached, LoadSeed, Compile
<1>11. ASSUME Compiled \/ GoOn \/ Eval \/ EvalEnd \/ EntryWarm \/ Rebuild
                \/ (\E x \in Entry : RunFile(x)) \/ (\E x \in Edited : Edit(x))
                \/ UNCHANGED vars
       PROVE  state' = state
  BY <1>11 DEF Compiled, GoOn, Eval, EvalEnd, EntryWarm, Rebuild, RunFile, Edit, Between, vars
<1> QED
  BY <1>2, <1>3, <1>5, <1>6, <1>8, <1>9, <1>10, <1>11 DEF Next

\* No step takes a module that is loaded away from its importers, but for the
\* file that is run: it is published without being looked up.
THEOREM ModulesStay == Spec => LoadedStays
<1>1. Inv /\ [Next]_vars => [\A m \in Module : Stays(m)]_vars
  BY LoadedKept
<1>2. Spec => [][\A m \in Module : Stays(m)]_vars
  BY <1>1, Invariant, PTL DEF Spec
<1> QED
  BY <1>2 DEF LoadedStays, Stays
=============================================================================
