-------------------------- MODULE PageSpace_proofs --------------------------
(***************************************************************************)
(* Proofs about PageSpace, for any number of classes, pages and words, any  *)
(* word and block sizes: types, NoOverlap, FinalizesTheDead,                *)
(* GrowsOnlyWhenFull and HeapExact.                                         *)
(*                                                                          *)
(* That blocks do not overlap does not carry itself.  Inv adds where the    *)
(* cursor of a class has been: behind it every block is an object or still  *)
(* to be popped (BehindOK), ahead of it only what survived the last         *)
(* collection is one (AheadOK), and what it holds ready is free             *)
(* (PendingOK).  The list of a class, which the pages still to come are a   *)
(* part of, has no page twice (ListsOK), and no page is in two lists.  The  *)
(* in-use bits of a finalizing page are its objects and what was handed out *)
(* of its current word (InUseOK), and during a collection nothing is handed *)
(* out (CollectOK).                                                         *)
(*                                                                          *)
(* Pages are filtered at the end of a collection by a closed form (Kept),   *)
(* whose lemmas say that it drops only emptied pages and keeps the order.   *)
(***************************************************************************)
EXTENDS PageSpace, FiniteSetTheorems, FunctionTheorems, SequenceTheorems, TLAPS

-----------------------------------------------------------------------------
(* Arithmetic of blocks and words.                                         *)

\* Every set of naturals that is not empty has a least element, and Min is it.
LEMMA MinIn ==
  ASSUME NEW S \in SUBSET Nat, S # {}
  PROVE  Min(S) \in S /\ \A y \in S : Min(S) <= y
<1>1. \E x \in S : \A y \in S : x <= y
  <2> DEFINE T == {0 .. x : x \in S}
  <2>1. IsWellFoundedOn(StrictSubsetOrdering(Nat), FiniteSubsetsOf(Nat))
    BY FS_StrictSubsetOrderingWellFounded
  <2>2. \A x \in S : 0 .. x \in SUBSET Nat /\ IsFiniteSet(0 .. x)
    BY FS_Interval
  <2>3. T \subseteq FiniteSubsetsOf(Nat) /\ T # {}
    BY <2>2 DEF FiniteSubsetsOf
  <2>4. \E t \in T : \A u \in T : ~ (<<u, t>> \in StrictSubsetOrdering(Nat))
    <3> HIDE DEF T
    <3> QED BY <2>1, <2>3, WFMin, Zenon
  <2>5. PICK x \in S : \A y \in S : ~ (<<0 .. y, 0 .. x>> \in StrictSubsetOrdering(Nat))
    BY <2>4
  <2>6. \A y \in S : ~ (y < x)
    <3> SUFFICES ASSUME NEW y \in S, y < x PROVE FALSE
      OBVIOUS
    <3>1. 0 .. y \subseteq 0 .. x /\ x \notin 0 .. y /\ x \in 0 .. x
      OBVIOUS
    <3>2. <<0 .. y, 0 .. x>> \in StrictSubsetOrdering(Nat)
      BY <3>1 DEF StrictSubsetOrdering
    <3> QED
      BY <2>5, <3>2
  <2> QED
    BY <2>6
<1> QED
  BY <1>1 DEF Min

LEMMA MultiplesApart ==
  ASSUME NEW n \in Nat \ {0}, NEW a \in Nat, NEW b \in Nat,
         a % n = 0, b % n = 0, a < b
  PROVE  a + n <= b
<1> DEFINE q == a \div n
           r == b \div n
<1>1. q \in Int /\ r \in Int /\ a = n * q /\ b = n * r
  OBVIOUS
<1>2. q < r
  BY <1>1
<1> HIDE DEF q, r
<1>3. n * (r - q) >= n
  BY <1>1, <1>2
<1> QED
  BY <1>1, <1>3

LEMMA UpToFinite ==
  ASSUME NEW n \in Nat
  PROVE  IsFiniteSet(1 .. n) /\ Cardinality(1 .. n) = n
BY FS_Interval

LEMMA WordOf ==
  ASSUME NEW n \in Nat \ {0}, NEW m \in Nat \ {0}, NEW g \in 0 .. m * n - 1
  PROVE  g \div n \in 0 .. m - 1
OBVIOUS

-----------------------------------------------------------------------------
(* The blocks of a class.                                                  *)

LEMMA Constants ==
  /\ Cursor = 1 .. Len(Class) /\ Len(Class) \in Nat
  /\ \A c \in Cursor : Class[c] \in Nat \ {0}
  /\ Words * WordGrains \in Nat /\ Grain \subseteq Nat /\ 0 \in Word
  /\ IsFiniteSet(Grain) /\ IsFiniteSet(Cursor)
<1>1. Words * WordGrains \in Nat
  BY PageAssumption
<1>2. IsFiniteSet(Grain)
  BY <1>1, FS_Interval DEF Grain
<1>3. Cursor = 1 .. Len(Class) /\ Len(Class) \in Nat
  BY PageAssumption DEF Cursor
<1>4. IsFiniteSet(Cursor)
  BY <1>3, FS_Interval
<1> QED
  BY <1>1, <1>2, <1>3, <1>4, PageAssumption DEF Grain, Word, Cursor

\* Two blocks of one class do not share a grain.
LEMMA StartsApart ==
  ASSUME NEW c \in Cursor, NEW g \in Starts(c), NEW h \in Starts(c), g # h
  PROVE  Extent(c, g) \intersect Extent(c, h) = {}
<1>1. /\ g \in Nat /\ h \in Nat /\ Class[c] \in Nat \ {0} /\ Header \in Nat
      /\ g >= Header /\ (g - Header) % Class[c] = 0
      /\ h >= Header /\ (h - Header) % Class[c] = 0
  BY Constants, PageAssumption DEF Starts
<1> DEFINE a == g - Header
           b == h - Header
<1>4. a \in Nat /\ b \in Nat /\ a % Class[c] = 0 /\ b % Class[c] = 0
  BY <1>1
<1>5. (a < b => a + Class[c] <= b) /\ (b < a => b + Class[c] <= a)
  <2> HIDE DEF a, b
  <2> QED BY <1>1, <1>4, MultiplesApart
<1>2. CASE g < h
  BY <1>1, <1>5, <1>2 DEF Extent
<1>3. CASE h < g
  BY <1>1, <1>5, <1>3 DEF Extent
<1> QED
  BY <1>1, <1>2, <1>3

\* A block lies inside its page and starts in one of its words.
LEMMA StartsInside ==
  ASSUME NEW c \in Cursor, NEW g \in Starts(c)
  PROVE  /\ g \in Grain /\ g \in Nat
         /\ Extent(c, g) \subseteq Grain
         /\ g \div WordGrains \in Word /\ g \div WordGrains \in Nat
         /\ g \in WordStarts(c, g \div WordGrains)
<1>1. g \in Grain /\ g \in Nat /\ g + Class[c] <= Words * WordGrains
  BY Constants DEF Starts
<1>2. Extent(c, g) \subseteq Grain
  BY <1>1, Constants DEF Extent, Grain
<1>3. g \div WordGrains \in 0 .. Words - 1
  BY <1>1, WordOf, PageAssumption DEF Grain
<1> QED
  BY <1>1, <1>2, <1>3, PageAssumption DEF Word, WordStarts

\* Every class has at least one block in a page.
LEMMA SomeStart ==
  ASSUME NEW c \in Cursor
  PROVE  Header \in Starts(c)
<1>1. Class[c] \in Nat \ {0} /\ Header \in Nat /\ Header + Class[c] <= Words * WordGrains
  BY Constants, PageAssumption
<1>2. (Header - Header) % Class[c] = 0
  BY <1>1
<1> QED
  BY <1>1, <1>2, Constants DEF Starts, Grain

LEMMA StartsFinite ==
  ASSUME NEW c \in Cursor
  PROVE  IsFiniteSet(Starts(c)) /\ Capacity(c) \in Nat
<1>1. Starts(c) \subseteq Grain
  BY DEF Starts
<1> QED
  BY <1>1, Constants, FS_Subset, FS_CardinalityType DEF Capacity

\* A page is full when it has no free word.
LEMMA FullOrFree ==
  ASSUME NEW c \in Cursor, NEW p \in Page, live[p] \subseteq Starts(c)
  PROVE  /\ Full(c, p) => live[p] = Starts(c)
         /\ ~Full(c, p) => FreeWords(c, p) # {}
<1>1. /\ IsFiniteSet(live[p]) /\ Cardinality(live[p]) \in Nat
      /\ Cardinality(live[p]) <= Capacity(c)
      /\ Cardinality(live[p]) = Capacity(c) => live[p] = Starts(c)
  BY StartsFinite, FS_Subset, FS_CardinalityType DEF Capacity
<1>2. ASSUME ~Full(c, p) PROVE FreeWords(c, p) # {}
  <2>1. PICK g \in Starts(c) : g \notin live[p]
    BY <1>1, <1>2 DEF Full, Capacity
  <2> QED
    BY <2>1, StartsInside DEF FreeWords, FreeIn
<1>3. Full(c, p) => live[p] = Starts(c)
  BY <1>1, StartsFinite DEF Full
<1> QED
  BY <1>2, <1>3

-----------------------------------------------------------------------------
(* Objects and pages.                                                      *)

\* A grain that holds an object holds one of the class its page serves.
LEMMA ObjectAt ==
  ASSUME TypeOK, PagesPartitioned
  PROVE  /\ \A o \in objs : /\ o = <<o[1], o[2], o[3]>>
                            /\ o[1] \in Page /\ o[2] \in Grain /\ o[3] \in Cursor
         /\ \A c \in Cursor : \A p \in PagesOf(c) : \A g \in GrainsOf(p) : <<p, g, c>> \in objs
         /\ \A p, g, c : <<p, g, c>> \in objs => g \in GrainsOf(p) /\ p \in PagesOf(c)
<1>1. \A o \in objs : /\ o = <<o[1], o[2], o[3]>>
                      /\ o[1] \in Page /\ o[2] \in Grain /\ o[3] \in Cursor
  BY DEF TypeOK
<1>2. \A o \in objs : o[1] \in PagesOf(o[3])
  BY DEF PagesPartitioned
<1>3. ASSUME NEW c \in Cursor, NEW p \in PagesOf(c), NEW g \in GrainsOf(p)
      PROVE  <<p, g, c>> \in objs
  <2>1. PICK o \in objs : o[1] = p /\ o[2] = g
    BY DEF GrainsOf
  <2>2. o[3] = c
    BY <1>1, <1>2, <2>1 DEF PagesPartitioned
  <2> QED
    BY <1>1, <2>1, <2>2
<1>4. ASSUME NEW p, NEW g, NEW c, <<p, g, c>> \in objs
      PROVE  g \in GrainsOf(p) /\ p \in PagesOf(c)
  <2> DEFINE o == <<p, g, c>>
  <2>1. o \in objs /\ o[1] = p /\ o[2] = g /\ o[3] = c
    BY <1>4
  <2> HIDE DEF o
  <2> QED
    BY <1>2, <2>1 DEF GrainsOf
<1> QED
  BY <1>1, <1>3, <1>4

LEMMA PagesAre ==
  ASSUME TypeOK, NEW c \in Cursor
  PROVE  /\ PagesOf(c) \subseteq Page /\ RestOf(c) \subseteq Page
         /\ DOMAIN pages[c] = 1 .. Len(pages[c]) /\ Len(pages[c]) \in Nat
         /\ DOMAIN rest[c] = 1 .. Len(rest[c]) /\ Len(rest[c]) \in Nat
  BY DEF TypeOK, PagesOf, RestOf

\* The page new objects come from gains the grain of the object.
LEMMA GrainsAfter ==
  ASSUME NEW p, NEW g, NEW c, objs' = objs \union {<<p, g, c>>}
  PROVE  /\ GrainsOf(p)' = GrainsOf(p) \union {g}
         /\ \A q : q # p => GrainsOf(q)' = GrainsOf(q)
<1> DEFINE o == <<p, g, c>>
<1>1. o[1] = p /\ o[2] = g /\ objs' = objs \union {o}
  OBVIOUS
<1> HIDE DEF o
<1> QED
  BY <1>1 DEF GrainsOf

-----------------------------------------------------------------------------
(* The initial state.                                                      *)

LEMMA InitInv == Init => Inv
<1> SUFFICES ASSUME Init PROVE Inv
  OBVIOUS
<1> USE DEF Init
<1>1. \A c \in Cursor : PagesOf(c) = {} /\ RestOf(c) = {}
  BY DEF PagesOf, RestOf
<1>2. \A p : GrainsOf(p) = {}
  BY DEF GrainsOf
<1>3. TypeOK
  BY Constants, EmptySeq DEF TypeOK
<1>4. PagesPartitioned /\ ListsOK
  BY <1>1 DEF PagesPartitioned, ListsOK, NoRepeats
<1>5. PendingOK /\ BlocksOK /\ AheadOK /\ BehindOK /\ CollectOK
  BY <1>1, <1>2 DEF PendingOK, BlocksOK, AheadOK, BehindOK, CollectOK
<1>6. InUseOK
  BY <1>1, PageAssumption DEF InUseOK
<1> QED
  BY <1>3, <1>4, <1>5, <1>6 DEF Inv

-----------------------------------------------------------------------------
(* Popping a block of the current word.                                    *)

LEMMA PopInv ==
  ASSUME Inv, NEW c \in Cursor, Pop(c)
  PROVE  Inv'
<1> USE DEF Inv
<1>16. PICK g, p : g = Min(freeMask[c]) /\ p = page[c]
  OBVIOUS
<1>1. g \in freeMask[c]
  <2>1. freeMask[c] \in SUBSET Nat /\ freeMask[c] # {}
    BY Constants DEF TypeOK, Pop
  <2> QED
    BY <2>1, <1>16, MinIn
<1>2. /\ g \in WordStarts(c, word[c]) /\ g \in Starts(c)
      /\ p \in Page /\ p \in PagesOf(c) \ RestOf(c) /\ g \notin stash[c]
      /\ <<p, g, c>> \notin objs
  BY <1>1, <1>16, PageAssumption DEF PendingOK, ListsOK, TypeOK, WordStarts
<1>3. /\ freeMask' = [freeMask EXCEPT ![c] = @ \ {g}]
      /\ objs' = objs \union {<<p, g, c>>}
      /\ UNCHANGED <<pool, fresh, pages, rest, page, word, stash, handedOut,
                     bitmaps, counts, limitZero, inCollect>>
      /\ ~inCollect
  BY <1>16 DEF Pop
<1>4. /\ GrainsOf(p)' = GrainsOf(p) \union {g}
      /\ \A q : q # p => GrainsOf(q)' = GrainsOf(q)
  BY <1>3, GrainsAfter
<1>5. /\ \A d \in Cursor : PagesOf(d)' = PagesOf(d) /\ RestOf(d)' = RestOf(d)
      /\ FinPages' = FinPages
  BY <1>3 DEF PagesOf, RestOf, FinPages
<1>6. /\ freeMask'[c] = freeMask[c] \ {g}
      /\ \A d \in Cursor : d # c => freeMask'[d] = freeMask[d]
  BY <1>3 DEF TypeOK
<1>7. TypeOK'
  <2>1. <<p, g, c>> \in Page \X Grain \X Cursor
    BY <1>2, StartsInside
  <2>2. Extent(c, g) \subseteq Grain
    BY <1>2, StartsInside
  <2>3. objs' \subseteq Page \X Grain \X Cursor
    BY <1>3, <2>1 DEF TypeOK
  <2>4. \A o \in objs' : Extent(o[3], o[2]) \subseteq Grain
    BY <1>3, <2>2 DEF TypeOK
  <2>5. freeMask' \in [Cursor -> SUBSET Grain]
    BY <1>3 DEF TypeOK
  <2> QED
    BY <1>3, <2>3, <2>4, <2>5 DEF TypeOK, bitmaps, counts
<1>8. PagesPartitioned'
  <2>1. \A o \in objs' : o[1] \in PagesOf(o[3])
    BY <1>2, <1>3 DEF PagesPartitioned
  <2>2. \A o \in objs' : o[3] \in Cursor
    BY <1>7 DEF TypeOK
  <2> QED
    BY <1>3, <1>5, <2>1, <2>2 DEF PagesPartitioned
<1>9. ListsOK'
  BY <1>3, <1>5 DEF ListsOK
<1>10. PendingOK'
  <2> SUFFICES ASSUME NEW d \in Cursor
               PROVE  /\ freeMask'[d] \union stash[d] \subseteq WordStarts(d, word[d])
                      /\ freeMask'[d] \intersect stash[d] = {}
                      /\ freeMask'[d] \union stash[d] # {} => page[d] # NoPage
                      /\ \A h \in freeMask'[d] \union stash[d] : <<page[d], h, d>> \notin objs'
    BY <1>3 DEF PendingOK, WordStarts, Starts
  <2>1. freeMask'[d] \subseteq freeMask[d] /\ (d = c => g \notin freeMask'[d] \union stash[d])
    BY <1>2, <1>6
  <2> QED
    BY <2>1, <1>3 DEF PendingOK
<1>11. BlocksOK'
  <2>1. \A o \in objs' : o[2] \in Starts(o[3])
    BY <1>2, <1>3 DEF BlocksOK
  <2>2. \A q \in Page : GrainsOf(q) \subseteq GrainsOf(q)'
    BY <1>4
  <2>3. \A q \in Page : mark'[q] \subseteq GrainsOf(q)' /\ live'[q] \subseteq GrainsOf(q)'
    BY <2>2, <1>3 DEF BlocksOK, bitmaps
  <2> QED
    BY <2>1, <2>3 DEF BlocksOK, Starts
<1>12. AheadOK'
  <2>1. g \div WordGrains = word[c]
    BY <1>2 DEF WordStarts
  <2>2. word[c] \in Nat
    BY PageAssumption DEF TypeOK, Word
  <2> SUFFICES ASSUME NEW d \in Cursor, NEW q \in Page
               PROVE  /\ q \in RestOf(d) => GrainsOf(q)' \subseteq live[q]
                      /\ q = page[d] => \A h \in GrainsOf(q)' :
                           h \div WordGrains > word[d] => h \in live[q]
    <3>1. \A d \in Cursor : page[d] # NoPage => page[d] \in Page
      BY DEF TypeOK
    <3>2. \A d \in Cursor : RestOf(d) \subseteq Page
      BY PagesAre
    <3> QED
      BY <3>1, <3>2, <1>3, <1>5 DEF AheadOK, bitmaps
  <2>3. q \in RestOf(d) \union {page[d]} => q \in PagesOf(d)
    BY PageAssumption DEF ListsOK
  <2>4. /\ q \in RestOf(d) => GrainsOf(q) \subseteq live[q]
        /\ q = page[d] => \A h \in GrainsOf(q) :
             h \div WordGrains > word[d] => h \in live[q]
    BY PageAssumption DEF AheadOK
  <2>5. CASE q # p
    BY <2>4, <2>5, <1>4
  <2>6. CASE q = p
    <3>1. q \in PagesOf(d) => d = c
      BY <2>6, <1>2 DEF PagesPartitioned
    <3>2. q \notin RestOf(d)
      BY <2>3, <2>6, <3>1, <1>2
    <3>3. q = page[d] => word[d] = word[c]
      BY <2>3, <3>1
    <3> QED
      BY <2>1, <2>2, <2>4, <2>6, <3>2, <3>3, <1>4
  <2> QED
    BY <2>5, <2>6
<1>13. BehindOK'
  <2> SUFFICES ASSUME NEW d \in Cursor, NEW q \in PagesOf(d) \ RestOf(d),
                      NEW h \in Starts(d), Passed(d, q, h)'
               PROVE  <<q, h, d>> \in objs'
    BY <1>3, <1>5 DEF BehindOK, Starts
  <2>1. CASE d = c /\ q = p /\ h = g
    BY <2>1, <1>3
  <2>2. CASE ~ (d = c /\ q = p /\ h = g)
    <3>1. Passed(d, q, h)
      BY <2>2, <1>3, <1>6, <1>16 DEF Passed
    <3> QED
      BY <3>1, <1>3 DEF BehindOK
  <2> QED
    BY <2>1, <2>2
<1>14. CollectOK'
  BY <1>3 DEF CollectOK, bitmaps
<1>15. InUseOK'
  <2> SUFFICES ASSUME NEW d \in Fin, NEW q \in PagesOf(d)
               PROVE  inuse[q] = GrainsOf(q)' \union (IF page[d] = q THEN freeMask'[d] ELSE {})
    BY <1>3, <1>5, PageAssumption DEF InUseOK, bitmaps
  <2>1. d \in Cursor
    BY PageAssumption
  <2>2. q = p => d = c
    BY <2>1, <1>2 DEF PagesPartitioned
  <2>3. inuse[q] = GrainsOf(q) \union (IF page[d] = q THEN freeMask[d] ELSE {})
    BY DEF InUseOK
  <2>4. CASE q = p
    BY <2>2, <2>3, <2>4, <1>1, <1>4, <1>6, <1>16
  <2>5. CASE q # p
    <3>1. page[d] = q => d # c
      BY <2>5, <1>16
    <3> QED
      BY <2>1, <2>3, <2>5, <3>1, <1>4, <1>6
  <2> QED
    BY <2>4, <2>5
<1> QED
  BY <1>7, <1>8, <1>9, <1>10, <1>11, <1>12, <1>13, <1>14, <1>15

-----------------------------------------------------------------------------
(* Handing out a word.  The four ways to refill differ in where the word    *)
(* comes from; Serves says what they have in common.                        *)

Serves(c, p, w, m) ==
  /\ ~inCollect /\ freeMask[c] = {}
  /\ m # {} /\ m \subseteq WordStarts(c, w)
  /\ \A g \in m : <<p, g, c>> \notin objs
  /\ HandOut(c, p, w, m)
  /\ UNCHANGED <<mark, live, liveBytes, inUseAtBegin, limitZero, inCollect>>
  /\ pages' \in [Cursor -> Seq(Page)] /\ rest' \in [Cursor -> Seq(Page)]
  /\ \A d \in Cursor : d # c => pages'[d] = pages[d] /\ rest'[d] = rest[d]
  /\ PagesOf(c)' = PagesOf(c) \union {p}
  /\ p \in PagesOf(c) \/ p \in pool \union fresh
  /\ pool' = pool \ {p} /\ fresh' = fresh \ {p}
  /\ NoRepeats(pages'[c]) /\ NoRepeats(rest'[c])
  /\ RestOf(c)' \subseteq RestOf(c) /\ p \notin RestOf(c)'
  \* the words after w hold only what survived; all behind holds objects
  /\ \A g \in GrainsOf(p) : g \div WordGrains > w => g \in live[p]
  /\ \A q \in PagesOf(c)' \ RestOf(c)', g \in Starts(c) :
       (q = p => g \div WordGrains <= w /\ g \notin m) => <<q, g, c>> \in objs

LEMMA ServesInv ==
  ASSUME Inv, NEW c \in Cursor, NEW p \in Page, NEW w \in Word, NEW m,
         Serves(c, p, w, m)
  PROVE  Inv'
<1> USE DEF Inv
<1>1. PICK g, take : g = Min(m) /\ take = m \ HeldBack(m)
  OBVIOUS
<1>2. /\ m \subseteq WordStarts(c, w) /\ m \subseteq Starts(c) /\ m \subseteq Grain
      /\ IsFiniteSet(m)
  <2>1. m \subseteq Starts(c) /\ m \subseteq Grain
    BY DEF Serves, WordStarts, Starts
  <2> QED
    BY <2>1, Constants, FS_Subset DEF Serves
<1>3. g \in m
  BY <1>1, <1>2, MinIn, Constants DEF Serves
<1>4. /\ take \subseteq m /\ g \in take
      /\ HeldBack(m) = m \ take
  BY <1>1, <1>3 DEF HeldBack
<1>5. /\ page' = [page EXCEPT ![c] = p]
      /\ word' = [word EXCEPT ![c] = w]
      /\ stash' = [stash EXCEPT ![c] = m \ take]
      /\ inuse' = IF c \in Fin THEN [inuse EXCEPT ![p] = @ \union take] ELSE inuse
      /\ handedOut' = [handedOut EXCEPT ![c] = @ + Cardinality(take)]
      /\ heap' = heap + Cardinality(take) * Class[c]
      /\ freeMask' = [freeMask EXCEPT ![c] = take \ {g}]
      /\ objs' = objs \union {<<p, g, c>>}
  BY <1>1, <1>4 DEF Serves, HandOut, Entered
<1>6. /\ page'[c] = p /\ word'[c] = w /\ stash'[c] = m \ take
      /\ freeMask'[c] = take \ {g}
      /\ \A d \in Cursor : d # c =>
           /\ page'[d] = page[d] /\ word'[d] = word[d]
           /\ stash'[d] = stash[d] /\ freeMask'[d] = freeMask[d]
  BY <1>5 DEF TypeOK
<1>7. /\ GrainsOf(p)' = GrainsOf(p) \union {g}
      /\ \A q : q # p => GrainsOf(q)' = GrainsOf(q)
  BY <1>5, GrainsAfter
<1>8. \A d \in Cursor : d # c => PagesOf(d)' = PagesOf(d) /\ RestOf(d)' = RestOf(d)
  BY DEF Serves, PagesOf, RestOf
<1>9. \A d \in Cursor : d # c => p \notin PagesOf(d)
  BY DEF Serves, PagesPartitioned
<1>10. \A d \in Cursor : PagesOf(d)' \subseteq Page
  BY <1>8, PagesAre DEF Serves
<1>11. p \in PagesOf(c)' /\ p \notin RestOf(c)' /\ p # NoPage
  BY PageAssumption DEF Serves
<1>12. \A h : h \in m => h \div WordGrains = w
  BY <1>2 DEF WordStarts
<1>13. w \in Nat
  BY PageAssumption DEF Word
<1>14. TypeOK'
  <2>1. <<p, g, c>> \in Page \X Grain \X Cursor
    BY <1>2, <1>3
  <2>2. Extent(c, g) \subseteq Grain
    BY <1>2, <1>3, StartsInside
  <2>3. objs' \subseteq Page \X Grain \X Cursor
    BY <1>5, <2>1 DEF TypeOK
  <2>4. \A o \in objs' : Extent(o[3], o[2]) \subseteq Grain
    BY <1>5, <2>2 DEF TypeOK
  <2>5. Cardinality(take) \in Nat /\ Cardinality(take) * Class[c] \in Nat
    <3>1. Cardinality(take) \in Nat
      BY <1>2, <1>4, FS_Subset, FS_CardinalityType
    <3> QED
      BY <3>1, Constants
  <2>6. heap' \in Nat /\ handedOut' \in [Cursor -> Nat]
    BY <1>5, <2>5 DEF TypeOK
  <2>7. /\ page' \in [Cursor -> Page \union {NoPage}] /\ word' \in [Cursor -> Word]
        /\ freeMask' \in [Cursor -> SUBSET Grain] /\ stash' \in [Cursor -> SUBSET Grain]
    BY <1>2, <1>4, <1>5 DEF TypeOK
  <2>8. inuse' \in [Page -> SUBSET Grain]
    BY <1>2, <1>4, <1>5 DEF TypeOK
  <2> QED
    BY <2>3, <2>4, <2>6, <2>7, <2>8 DEF TypeOK, Serves
<1>15. PagesPartitioned'
  <2>2. \A d \in Cursor : PagesOf(d)' = PagesOf(d) \union (IF d = c THEN {p} ELSE {})
    BY <1>8 DEF Serves
  <2>1. \A o \in objs' : o[1] \in PagesOf(o[3])'
    <3>1. \A o \in objs : o[1] \in PagesOf(o[3])'
      BY <2>2, ObjectAt DEF PagesPartitioned
    <3> QED
      BY <3>1, <1>5, <1>11
  <2>3. \A d, e \in Cursor : d # e => PagesOf(d)' \intersect PagesOf(e)' = {}
    BY <2>2, <1>9 DEF PagesPartitioned
  <2>4. \A d \in Cursor : PagesOf(d)' \intersect (pool' \union fresh') = {}
    BY <2>2, <1>9 DEF PagesPartitioned, Serves
  <2>5. pool' \union fresh' \union UNION {PagesOf(d)' : d \in Cursor} = Page
    <3>1. ASSUME NEW q \in Page
          PROVE  q \in pool' \union fresh' \/ \E d \in Cursor : q \in PagesOf(d)'
      <4>1. q \in pool \union fresh \/ \E d \in Cursor : q \in PagesOf(d)
        BY DEF PagesPartitioned
      <4>2. q # p => (q \in pool' \union fresh' <=> q \in pool \union fresh)
        BY DEF Serves
      <4> QED
        BY <4>1, <4>2, <2>2
    <3>2. pool' \subseteq Page /\ fresh' \subseteq Page
      BY DEF Serves, TypeOK
    <3> QED
      BY <3>1, <3>2, <1>10
  <2>6. pool' \intersect fresh' = {}
    BY DEF PagesPartitioned, Serves
  <2> QED
    BY <2>1, <2>3, <2>4, <2>5, <2>6 DEF PagesPartitioned
<1>16. ListsOK'
  <2> SUFFICES ASSUME NEW d \in Cursor
               PROVE  /\ NoRepeats(pages'[d]) /\ NoRepeats(rest'[d])
                      /\ RestOf(d)' \subseteq PagesOf(d)'
                      /\ page'[d] # NoPage => page'[d] \in PagesOf(d)' \ RestOf(d)'
    BY DEF ListsOK, NoRepeats
  <2>1. CASE d = c
    <3>1. RestOf(c)' \subseteq PagesOf(c)'
      BY DEF Serves, ListsOK
    <3>2. NoRepeats(pages'[c]) /\ NoRepeats(rest'[c])
      BY DEF Serves
    <3> QED
      BY <2>1, <3>1, <3>2, <1>6, <1>11
  <2>2. CASE d # c
    <3>1. /\ pages'[d] = pages[d] /\ rest'[d] = rest[d] /\ page'[d] = page[d]
          /\ PagesOf(d)' = PagesOf(d) /\ RestOf(d)' = RestOf(d)
      BY <2>2, <1>6, <1>8 DEF Serves
    <3>2. /\ NoRepeats(pages[d]) /\ NoRepeats(rest[d]) /\ RestOf(d) \subseteq PagesOf(d)
          /\ page[d] # NoPage => page[d] \in PagesOf(d) \ RestOf(d)
      BY DEF ListsOK
    <3> QED
      BY <3>1, <3>2
  <2> QED
    BY <2>1, <2>2
<1>17. PendingOK'
  <2> SUFFICES ASSUME NEW d \in Cursor
               PROVE  /\ freeMask'[d] \union stash'[d] \subseteq WordStarts(d, word'[d])
                      /\ freeMask'[d] \intersect stash'[d] = {}
                      /\ freeMask'[d] \union stash'[d] # {} => page'[d] # NoPage
                      /\ \A h \in freeMask'[d] \union stash'[d] : <<page'[d], h, d>> \notin objs'
    BY DEF PendingOK, WordStarts, Starts
  <2>1. CASE d = c
    BY <2>1, <1>2, <1>4, <1>5, <1>6, <1>11 DEF Serves
  <2>2. CASE d # c
    BY <2>2, <1>5, <1>6 DEF PendingOK
  <2> QED
    BY <2>1, <2>2
<1>18. BlocksOK'
  <2>1. \A o \in objs' : o[2] \in Starts(o[3])
    BY <1>2, <1>3, <1>5 DEF BlocksOK
  <2>2. \A q \in Page : GrainsOf(q) \subseteq GrainsOf(q)'
    BY <1>7
  <2>3. \A q \in Page : mark'[q] \subseteq GrainsOf(q)' /\ live'[q] \subseteq GrainsOf(q)'
    BY <2>2 DEF BlocksOK, Serves
  <2> QED
    BY <2>1, <2>3 DEF BlocksOK, Starts
<1>19. AheadOK'
  <2> SUFFICES ASSUME NEW d \in Cursor, NEW q \in Page
               PROVE  /\ q \in RestOf(d)' => GrainsOf(q)' \subseteq live[q]
                      /\ q = page'[d] => \A h \in GrainsOf(q)' :
                           h \div WordGrains > word'[d] => h \in live[q]
    <3>1. \A e \in Cursor : page'[e] # NoPage => page'[e] \in Page
      BY <1>14 DEF TypeOK
    <3>2. \A e \in Cursor : RestOf(e)' \subseteq Page
      BY <1>10, <1>16 DEF ListsOK
    <3> QED
      BY <3>1, <3>2 DEF AheadOK, Serves
  <2>1. CASE d # c
    <3>1. q \in RestOf(d) \union {page[d]} => q # p
      BY <2>1, <1>9, <1>11 DEF ListsOK
    <3> QED
      BY <2>1, <3>1, <1>6, <1>7, <1>8, PageAssumption DEF AheadOK
  <2>2. CASE d = c /\ q # p
    BY <2>2, <1>6, <1>7 DEF AheadOK, Serves
  <2>3. CASE d = c /\ q = p
    BY <2>3, <1>3, <1>6, <1>7, <1>11, <1>12, <1>13 DEF Serves
  <2> QED
    BY <2>1, <2>2, <2>3
<1>20. BehindOK'
  <2> SUFFICES ASSUME NEW d \in Cursor, NEW q \in PagesOf(d)' \ RestOf(d)',
                      NEW h \in Starts(d), Passed(d, q, h)'
               PROVE  <<q, h, d>> \in objs'
    BY DEF BehindOK, Starts
  <2>1. CASE d # c
    <3>1. Passed(d, q, h)
      BY <2>1, <1>6 DEF Passed
    <3> QED
      BY <2>1, <3>1, <1>5, <1>8 DEF BehindOK, Serves
  <2>2. CASE d = c /\ q = p /\ h = g
    BY <2>2, <1>5
  <2>3. CASE d = c /\ ~ (q = p /\ h = g)
    <3>1. q = p => h \div WordGrains <= w /\ h \notin m
      BY <2>3, <1>4, <1>6 DEF Passed
    <3> QED
      BY <2>3, <3>1, <1>5 DEF Serves
  <2> QED
    BY <2>1, <2>2, <2>3
<1>21. CollectOK'
  BY DEF CollectOK, Serves
<1>22. InUseOK'
  <2>1. ASSUME NEW q PROVE q \in FinPages' <=> q \in FinPages \/ (c \in Fin /\ q = p)
    <3>1. q \in FinPages' <=> \E d \in Fin : q \in PagesOf(d)'
      BY DEF FinPages
    <3>2. q \in FinPages <=> \E d \in Fin : q \in PagesOf(d)
      BY DEF FinPages
    <3>3. \A d \in Fin : q \in PagesOf(d)' <=> q \in PagesOf(d) \/ (d = c /\ q = p)
      BY <1>8, PageAssumption DEF Serves
    <3> QED
      BY <3>1, <3>2, <3>3
  <2>2. c \notin Fin => p \notin FinPages
    BY <1>9, PageAssumption DEF FinPages
  <2>3. ASSUME NEW q \in Page \ FinPages' PROVE inuse'[q] = {}
    BY <2>1, <1>5 DEF InUseOK, TypeOK
  <2>4. ASSUME NEW d \in Fin, NEW q \in PagesOf(d)'
        PROVE  inuse'[q] = GrainsOf(q)' \union (IF page'[d] = q THEN freeMask'[d] ELSE {})
    <3>1. d \in Cursor /\ q \in Page
      BY <1>10, PageAssumption
    <3>2. CASE d # c
      <4>1. q # p /\ q \in PagesOf(d)
        BY <3>1, <3>2, <1>8, <1>9
      <4>2. inuse'[q] = inuse[q]
        BY <4>1, <3>1, <1>5 DEF TypeOK
      <4> QED
        BY <3>1, <3>2, <4>1, <4>2, <1>6, <1>7 DEF InUseOK
    <3>3. CASE d = c /\ q # p
      <4>1. q \in PagesOf(c) /\ freeMask[c] = {}
        BY <3>3 DEF Serves
      <4>2. inuse'[q] = inuse[q]
        BY <3>1, <3>3, <1>5 DEF TypeOK
      <4> QED
        BY <3>3, <4>1, <4>2, <1>6, <1>7 DEF InUseOK
    <3>4. CASE d = c /\ q = p
      <4>1. inuse'[p] = inuse[p] \union take
        BY <3>4, <1>5 DEF TypeOK
      <4>2. CASE p \in PagesOf(c)
        <5>1. inuse[p] = GrainsOf(p)
          <6>1. freeMask[c] = {} /\ c \in Fin
            BY <3>4 DEF Serves
          <6>2. inuse[p] = GrainsOf(p) \union (IF page[c] = p THEN freeMask[c] ELSE {})
            BY <6>1, <4>2 DEF InUseOK
          <6> QED
            BY <6>1, <6>2
        <5> QED
          BY <3>4, <4>1, <5>1, <1>4, <1>6, <1>7
      <4>3. CASE p \notin PagesOf(c)
        <5>1. p \notin FinPages
          BY <4>3, <1>9, PageAssumption DEF FinPages
        <5>2. inuse[p] = {}
          BY <5>1 DEF InUseOK
        <5>3. GrainsOf(p) = {}
          BY <4>3, <1>9, ObjectAt DEF GrainsOf
        <5> QED
          BY <3>4, <4>1, <5>2, <5>3, <1>4, <1>6, <1>7
      <4> QED
        BY <4>2, <4>3
    <3> QED
      BY <3>2, <3>3, <3>4
  <2> QED
    BY <2>3, <2>4 DEF InUseOK
<1> QED
  BY <1>14, <1>15, <1>16, <1>17, <1>18, <1>19, <1>20, <1>21, <1>22

-----------------------------------------------------------------------------
(* The four ways to refill are servings.                                    *)

LEMMA BehindPage ==
  ASSUME Inv, ~inCollect, NEW c \in Cursor, freeMask[c] = {}, stash[c] = {},
         NEW q \in PagesOf(c) \ RestOf(c), NEW g \in Starts(c),
         q = page[c] => g \div WordGrains <= word[c] \/ PageUsedUp(c)
  PROVE  <<q, g, c>> \in objs
<1> USE DEF Inv
<1>1. /\ q \in Page /\ q # NoPage
      /\ g \div WordGrains \in Nat /\ word[c] \in Nat /\ g \div WordGrains \in Word
  <2>1. q \in Page /\ q # NoPage
    BY PagesAre, PageAssumption
  <2>2. word[c] \in Nat
    BY PageAssumption DEF TypeOK, Word
  <2> QED
    BY <2>1, <2>2, StartsInside
<1>2. CASE q = page[c] => g \div WordGrains <= word[c]
  BY <1>2 DEF BehindOK, Passed
<1>3. CASE q = page[c] /\ g \div WordGrains > word[c]
  <2>1. g \div WordGrains \notin FreeWords(c, q)
    BY <1>1, <1>3 DEF PageUsedUp, WordsAhead
  <2>2. g \in live[q]
    BY <2>1, <1>1, StartsInside DEF FreeWords, FreeIn
  <2> QED
    BY <2>2, <1>1, ObjectAt DEF BlocksOK
<1> QED
  BY <1>1, <1>2, <1>3

LEMMA RefillStashServes ==
  ASSUME Inv, NEW c \in Cursor, RefillStash(c)
  PROVE  \E p \in Page, w \in Word : \E m : Serves(c, p, w, m)
<1> USE DEF Inv
<1>1. PICK p, w, m : p = page[c] /\ w = word[c] /\ m = stash[c]
  OBVIOUS
<1>2. /\ ~inCollect /\ freeMask[c] = {} /\ m # {} /\ HandOut(c, p, w, m)
      /\ UNCHANGED <<pool, fresh, pages, rest, mark, live, liveBytes,
                     inUseAtBegin, limitZero, inCollect>>
  BY <1>1 DEF RefillStash, Refilling
<1>3. /\ m \subseteq WordStarts(c, w) /\ \A g \in m : <<p, g, c>> \notin objs
      /\ p # NoPage
  BY <1>1, <1>2 DEF PendingOK
<1>4. p \in PagesOf(c) \ RestOf(c) /\ p \in Page /\ w \in Word
  BY <1>1, <1>3 DEF ListsOK, TypeOK
<1>5. PagesOf(c)' = PagesOf(c) /\ RestOf(c)' = RestOf(c)
  BY <1>2 DEF PagesOf, RestOf
<1>6. p \notin pool \union fresh
  BY <1>4 DEF PagesPartitioned
<1>7. \A g \in GrainsOf(p) : g \div WordGrains > w => g \in live[p]
  BY <1>1, <1>3 DEF AheadOK
<1>8. ASSUME NEW q \in PagesOf(c) \ RestOf(c), NEW g \in Starts(c),
             q = p => g \div WordGrains <= w /\ g \notin m
      PROVE  <<q, g, c>> \in objs
  BY <1>1, <1>2, <1>8 DEF BehindOK, Passed
<1>9. NoRepeats(pages[c]) /\ NoRepeats(rest[c])
  BY DEF ListsOK
<1>10. pages' \in [Cursor -> Seq(Page)] /\ rest' \in [Cursor -> Seq(Page)]
  BY <1>2 DEF TypeOK
<1>11. Serves(c, p, w, m)
  BY <1>2, <1>3, <1>4, <1>5, <1>6, <1>7, <1>8, <1>9, <1>10 DEF Serves
<1> QED
  BY <1>4, <1>11

LEMMA RefillPageServes ==
  ASSUME Inv, NEW c \in Cursor, RefillPage(c)
  PROVE  \E p \in Page, w \in Word : \E m : Serves(c, p, w, m)
<1> USE DEF Inv
<1>1. PICK p, w, m : p = page[c] /\ w = Min(WordsAhead(c)) /\ m = FreeIn(c, p, w)
  OBVIOUS
<1>2. /\ ~inCollect /\ freeMask[c] = {} /\ stash[c] = {} /\ HandOut(c, p, w, m)
      /\ UNCHANGED <<pool, fresh, pages, rest, mark, live, liveBytes,
                     inUseAtBegin, limitZero, inCollect>>
      /\ WordsAhead(c) # {}
  BY <1>1 DEF RefillPage, Refilling, PageUsedUp
<1>3. WordsAhead(c) \in SUBSET Nat /\ p # NoPage
  BY <1>1, <1>2, PageAssumption DEF WordsAhead, FreeWords, Word
<1>4. w \in WordsAhead(c) /\ \A v \in WordsAhead(c) : w <= v
  BY <1>1, <1>2, <1>3, MinIn
<1>5. w \in Word /\ w \in Nat /\ word[c] \in Nat /\ w > word[c] /\ m # {}
  <2>1. w \in FreeWords(c, p) /\ w > word[c]
    BY <1>1, <1>3, <1>4 DEF WordsAhead
  <2> QED
    BY <2>1, <1>1, PageAssumption DEF FreeWords, TypeOK, Word
<1>6. p \in PagesOf(c) \ RestOf(c) /\ p \in Page
  BY <1>1, <1>3 DEF ListsOK, TypeOK
<1>7. \A g \in GrainsOf(p) : g \div WordGrains > word[c] => g \in live[p]
  BY <1>1, <1>3 DEF AheadOK
<1>8. m \subseteq WordStarts(c, w) /\ \A g \in m : <<p, g, c>> \notin objs
  <2>1. \A g \in m : g \div WordGrains = w /\ g \notin live[p]
    BY <1>1 DEF FreeIn, WordStarts
  <2>2. \A g \in m : g \notin GrainsOf(p)
    BY <2>1, <1>5, <1>7
  <2> QED
    BY <2>2, <1>1, ObjectAt DEF FreeIn
<1>9. PagesOf(c)' = PagesOf(c) /\ RestOf(c)' = RestOf(c)
  BY <1>2 DEF PagesOf, RestOf
<1>10. p \notin pool \union fresh
  BY <1>6 DEF PagesPartitioned
<1>11. ASSUME NEW q \in PagesOf(c) \ RestOf(c), NEW g \in Starts(c),
              q = p => g \div WordGrains <= w /\ g \notin m
       PROVE  <<q, g, c>> \in objs
  <2>1. g \div WordGrains \in Nat /\ g \div WordGrains \in Word
    BY StartsInside
  <2>2. CASE q = p => g \div WordGrains <= word[c]
    BY <2>2, <1>1, <1>2, BehindPage
  <2>3. CASE q = p /\ g \div WordGrains > word[c]
    <3>1. g \div WordGrains = w => g \in live[p]
      BY <2>3, <1>1, <1>11, StartsInside DEF FreeIn
    <3>2. g \div WordGrains < w => g \in live[p]
      <4>1. g \div WordGrains < w => g \div WordGrains \notin WordsAhead(c)
        BY <2>1, <1>4, <1>5
      <4> QED
        BY <4>1, <2>1, <2>3, <1>1, <1>3, StartsInside DEF WordsAhead, FreeWords, FreeIn
    <3>3. g \in live[p]
      BY <3>1, <3>2, <2>1, <2>3, <1>5, <1>11
    <3> QED
      BY <3>3, <2>3, <1>6, ObjectAt DEF BlocksOK
  <2> QED
    BY <2>1, <2>2, <2>3, <1>5
<1>12. NoRepeats(pages[c]) /\ NoRepeats(rest[c])
  BY DEF ListsOK
<1>13. pages' \in [Cursor -> Seq(Page)] /\ rest' \in [Cursor -> Seq(Page)]
  BY <1>2 DEF TypeOK
<1>14. \A g \in GrainsOf(p) : g \div WordGrains > w => g \in live[p]
  <2>1. \A g \in GrainsOf(p) : g \in Starts(c)
    BY <1>6, ObjectAt DEF BlocksOK
  <2> QED
    BY <2>1, <1>5, <1>7, StartsInside
<1>15. Serves(c, p, w, m)
  BY <1>2, <1>5, <1>6, <1>8, <1>9, <1>10, <1>11, <1>12, <1>13, <1>14 DEF Serves
<1> QED
  BY <1>5, <1>6, <1>15

\* A full page to come holds nothing but objects.
LEMMA FullRest ==
  ASSUME Inv, NEW c \in Cursor, NEW q \in RestOf(c), Full(c, q), NEW g \in Starts(c)
  PROVE  <<q, g, c>> \in objs
<1> USE DEF Inv
<1>1. q \in PagesOf(c) /\ q \in Page
  BY PagesAre DEF ListsOK
<1>2. live[q] \subseteq Starts(c)
  BY <1>1, ObjectAt DEF BlocksOK
<1>3. g \in live[q]
  BY <1>1, <1>2, FullOrFree
<1> QED
  BY <1>1, <1>3, ObjectAt DEF BlocksOK

\* The first free word of a page the cursor comes to.
LEMMA FirstWord ==
  ASSUME Inv, NEW c \in Cursor, NEW p \in Page, NEW w, FreeWords(c, p) # {},
         w = Min(FreeWords(c, p))
  PROVE  /\ w \in Word /\ w \in Nat /\ FreeIn(c, p, w) # {}
         /\ \A g \in Starts(c) : g \div WordGrains < w => g \in live[p]
<1>1. FreeWords(c, p) \in SUBSET Nat
  BY PageAssumption DEF FreeWords, Word
<1>2. w \in FreeWords(c, p) /\ \A v \in FreeWords(c, p) : w <= v
  BY <1>1, MinIn
<1>3. w \in Nat
  BY <1>1, <1>2
<1>4. ASSUME NEW g \in Starts(c), g \div WordGrains < w
      PROVE  g \in live[p]
  <2>1. g \div WordGrains \notin FreeWords(c, p)
    BY <1>2, <1>3, <1>4, StartsInside
  <2> QED
    BY <2>1, StartsInside DEF FreeWords, FreeIn
<1> QED
  BY <1>2, <1>3, <1>4 DEF FreeWords

LEMMA RefillNextServes ==
  ASSUME Inv, NEW c \in Cursor, RefillNext(c)
  PROVE  \E p \in Page, w \in Word : \E m : Serves(c, p, w, m)
<1> USE DEF Inv
<1>1. PICK i, p, w, m : /\ i = Min(WithRoom(c)) /\ p = rest[c][i]
                        /\ w = Min(FreeWords(c, p)) /\ m = FreeIn(c, p, w)
  OBVIOUS
<1>2. /\ ~inCollect /\ freeMask[c] = {} /\ stash[c] = {} /\ PageUsedUp(c)
      /\ WithRoom(c) # {} /\ HandOut(c, p, w, m)
      /\ rest' = [rest EXCEPT ![c] = After(rest[c], i)]
      /\ UNCHANGED <<pool, fresh, pages, mark, live, liveBytes,
                     inUseAtBegin, limitZero, inCollect>>
  BY <1>1 DEF RefillNext, Refilling
<1>3. DOMAIN rest[c] = 1 .. Len(rest[c]) /\ Len(rest[c]) \in Nat /\ rest[c] \in Seq(Page)
  BY PagesAre DEF TypeOK
<1>4. /\ i \in 1 .. Len(rest[c]) /\ ~Full(c, p)
      /\ \A j \in 1 .. Len(rest[c]) : j < i => Full(c, rest[c][j])
  <2>1. WithRoom(c) \in SUBSET Nat
    BY <1>3 DEF WithRoom
  <2>2. i \in WithRoom(c) /\ \A j \in WithRoom(c) : i <= j
    BY <2>1, <1>1, <1>2, MinIn
  <2>3. ASSUME NEW j \in 1 .. Len(rest[c]), j < i PROVE j \notin WithRoom(c)
    BY <2>1, <2>2, <2>3
  <2> QED
    BY <2>2, <2>3, <1>1, <1>3 DEF WithRoom
<1>5. p \in RestOf(c) /\ p \in PagesOf(c) /\ p \in Page /\ p # NoPage
  BY <1>1, <1>3, <1>4, PagesAre, PageAssumption DEF RestOf, ListsOK
<1>6. FreeWords(c, p) # {}
  <2>1. live[p] \subseteq Starts(c)
    BY <1>5, ObjectAt DEF BlocksOK
  <2> QED
    BY <2>1, <1>4, <1>5, FullOrFree
<1>7. /\ w \in Word /\ w \in Nat /\ m # {}
      /\ \A g \in Starts(c) : g \div WordGrains < w => g \in live[p]
  BY <1>1, <1>5, <1>6, FirstWord
<1>8. /\ rest'[c] \in Seq(Page) /\ DOMAIN rest'[c] = 1 .. Len(rest[c]) - i
      /\ \A j \in 1 .. Len(rest[c]) - i : rest'[c][j] = rest[c][i + j]
  <2>1. rest'[c] = SubSeq(rest[c], i + 1, Len(rest[c]))
    BY <1>2 DEF After, TypeOK
  <2>2. \A j \in i + 1 .. Len(rest[c]) : rest[c][j] \in Page
    BY <1>3, <1>4
  <2>3. /\ rest'[c] \in Seq(Page)
        /\ Len(rest'[c]) = IF i + 1 <= Len(rest[c]) THEN Len(rest[c]) - (i + 1) + 1 ELSE 0
        /\ \A j \in 1 .. Len(rest[c]) - (i + 1) + 1 : rest'[c][j] = rest[c][i + 1 + j - 1]
    BY <2>1, <2>2, <1>3, <1>4, SubSeqProperties
  <2>4. Len(rest'[c]) = Len(rest[c]) - i
    BY <2>3, <1>3, <1>4
  <2>5. DOMAIN rest'[c] = 1 .. Len(rest[c]) - i
    BY <2>3, <2>4, LenProperties
  <2> QED
    BY <2>3, <2>5, <1>3, <1>4
<1>9. NoRepeats(rest[c])
  BY DEF ListsOK
<1>10. NoRepeats(rest'[c])
  <2> SUFFICES ASSUME NEW j \in 1 .. Len(rest[c]) - i, NEW k \in 1 .. Len(rest[c]) - i,
                      rest'[c][j] = rest'[c][k]
               PROVE  j = k
    BY <1>8 DEF NoRepeats
  <2>1. rest[c][i + j] = rest[c][i + k] /\ i + j \in DOMAIN rest[c] /\ i + k \in DOMAIN rest[c]
    BY <1>3, <1>4, <1>8
  <2>2. i + j = i + k
    BY <2>1, <1>9 DEF NoRepeats
  <2> QED
    BY <2>2, <1>3, <1>4
<1>11. RestOf(c)' \subseteq RestOf(c) /\ p \notin RestOf(c)'
  <2>1. ASSUME NEW q \in RestOf(c)' PROVE q \in RestOf(c) /\ q # p
    <3>1. PICK j \in 1 .. Len(rest[c]) - i : q = rest[c][i + j]
      BY <1>8 DEF RestOf
    <3>2. i + j \in DOMAIN rest[c] /\ i + j # i
      BY <1>3, <1>4
    <3> QED
      BY <3>1, <3>2, <1>1, <1>3, <1>4, <1>9 DEF RestOf, NoRepeats
  <2> QED
    BY <2>1
<1>12. PagesOf(c)' = PagesOf(c)
  BY <1>2 DEF PagesOf
<1>13. \A g \in GrainsOf(p) : g \in live[p]
  BY <1>5 DEF AheadOK
<1>14. m \subseteq WordStarts(c, w) /\ \A g \in m : <<p, g, c>> \notin objs
  BY <1>1, <1>13, ObjectAt DEF FreeIn
<1>15. p \notin pool \union fresh
  BY <1>5 DEF PagesPartitioned
<1>16. ASSUME NEW q \in PagesOf(c) \ RestOf(c)', NEW g \in Starts(c),
              q = p => g \div WordGrains <= w /\ g \notin m
       PROVE  <<q, g, c>> \in objs
  <2>1. CASE q \notin RestOf(c)
    BY <2>1, <1>2, BehindPage
  <2>2. CASE q = p
    <3>1. g \in live[p]
      BY <2>2, <1>1, <1>7, <1>16, StartsInside DEF FreeIn
    <3> QED
      BY <2>2, <3>1, <1>5, ObjectAt DEF BlocksOK
  <2>3. CASE q \in RestOf(c) /\ q # p
    <3>1. PICK j \in 1 .. Len(rest[c]) : q = rest[c][j]
      BY <2>3, <1>3 DEF RestOf
    <3>2. ~ (j > i)
      <4>1. j > i => j - i \in 1 .. Len(rest[c]) - i /\ i + (j - i) = j
        BY <1>3, <1>4
      <4> QED
        BY <4>1, <3>1, <1>8, <1>16 DEF RestOf
    <3>3. Full(c, q)
      BY <3>1, <3>2, <2>3, <1>1, <1>4
    <3> QED
      BY <3>3, <2>3, FullRest
  <2> QED
    BY <2>1, <2>2, <2>3
<1>17. /\ pages' \in [Cursor -> Seq(Page)] /\ rest' \in [Cursor -> Seq(Page)]
       /\ \A d \in Cursor : d # c => pages'[d] = pages[d] /\ rest'[d] = rest[d]
  BY <1>2, <1>8 DEF TypeOK
<1>18. NoRepeats(pages'[c])
  BY <1>2 DEF ListsOK
<1>19. Serves(c, p, w, m)
  BY <1>2, <1>5, <1>7, <1>10, <1>11, <1>12, <1>13, <1>14, <1>15, <1>16, <1>17, <1>18
  DEF Serves
<1> QED
  BY <1>5, <1>7, <1>19

LEMMA RefillNewServes ==
  ASSUME Inv, NEW c \in Cursor, NEW p \in Page, RefillNew(c, p)
  PROVE  \E w \in Word : \E m : Serves(c, p, w, m)
<1> USE DEF Inv
<1>1. PICK w, m : w = Min(FreeWords(c, p)) /\ m = FreeIn(c, p, w)
  OBVIOUS
<1>2. /\ ~inCollect /\ freeMask[c] = {} /\ stash[c] = {} /\ PageUsedUp(c)
      /\ WithRoom(c) = {} /\ HandOut(c, p, w, m) /\ p \in pool \union fresh
      /\ pool' = pool \ {p} /\ fresh' = fresh \ {p}
      /\ pages' = [pages EXCEPT ![c] = <<p>> \o pages[c]]
      /\ rest' = [rest EXCEPT ![c] = <<>>]
      /\ UNCHANGED <<mark, live, liveBytes, inUseAtBegin, limitZero, inCollect>>
  BY <1>1 DEF RefillNew, Refilling, Linked
<1>3. /\ \A d \in Cursor : p \notin PagesOf(d)
      /\ GrainsOf(p) = {} /\ live[p] = {}
  <2>1. \A d \in Cursor : p \notin PagesOf(d)
    BY <1>2 DEF PagesPartitioned
  <2>2. GrainsOf(p) = {}
    BY <2>1, ObjectAt DEF GrainsOf, PagesPartitioned
  <2> QED
    BY <2>1, <2>2 DEF BlocksOK
<1>4. FreeWords(c, p) # {}
  <2>1. Header \in Starts(c)
    BY SomeStart
  <2> QED
    BY <2>1, <1>3, StartsInside DEF FreeWords, FreeIn
<1>5. /\ w \in Word /\ w \in Nat /\ m # {}
      /\ \A g \in Starts(c) : g \div WordGrains < w => g \in live[p]
  BY <1>1, <1>4, FirstWord
<1>6. m = WordStarts(c, w) /\ \A g \in m : <<p, g, c>> \notin objs
  BY <1>1, <1>3, ObjectAt DEF FreeIn
<1>7. /\ pages'[c] \in Seq(Page)
      /\ DOMAIN pages'[c] = 1 .. Len(pages[c]) + 1
      /\ pages'[c][1] = p
      /\ \A i \in 1 .. Len(pages[c]) : pages'[c][i + 1] = pages[c][i]
      /\ Len(pages[c]) \in Nat
  <2>1. pages'[c] = <<p>> \o pages[c] /\ pages[c] \in Seq(Page) /\ <<p>> \in Seq(Page)
        /\ Len(<<p>>) = 1 /\ <<p>>[1] = p
    BY <1>2 DEF TypeOK
  <2> QED
    BY <2>1, ConcatProperties, LenProperties
<1>8. PagesOf(c)' = PagesOf(c) \union {p}
  <2>1. PagesOf(c)' = {pages'[c][i] : i \in 1 .. Len(pages[c]) + 1}
    BY <1>7 DEF PagesOf
  <2>2. PagesOf(c) = {pages[c][i] : i \in 1 .. Len(pages[c])}
    BY PagesAre DEF PagesOf
  <2>3. \A i \in 1 .. Len(pages[c]) + 1 : i = 1 \/ (i - 1 \in 1 .. Len(pages[c]) /\ i = (i - 1) + 1)
    BY <1>7
  <2>4. \A q : q \in PagesOf(c)' => q \in PagesOf(c) \union {p}
    <3> SUFFICES ASSUME NEW i \in 1 .. Len(pages[c]) + 1
                 PROVE  pages'[c][i] \in PagesOf(c) \union {p}
      BY <2>1
    <3>1. CASE i = 1
      BY <3>1, <1>7
    <3>2. CASE i # 1
      <4>1. PICK k \in 1 .. Len(pages[c]) : i = k + 1
        BY <3>2, <2>3
      <4> QED
        BY <4>1, <2>2, <1>7
    <3> QED
      BY <3>1, <3>2
  <2>5. \A q : q \in PagesOf(c) => q \in PagesOf(c)'
    <3> SUFFICES ASSUME NEW i \in 1 .. Len(pages[c]) PROVE pages[c][i] \in PagesOf(c)'
      BY <2>2
    <3>1. i + 1 \in 1 .. Len(pages[c]) + 1
      BY <1>7
    <3> QED
      BY <2>1, <3>1, <1>7
  <2>6. p \in PagesOf(c)'
    <3>1. 1 \in 1 .. Len(pages[c]) + 1
      BY <1>7
    <3> QED
      BY <2>1, <3>1, <1>7
  <2> QED
    BY <2>4, <2>5, <2>6
<1>9. NoRepeats(pages'[c])
  <2>1. NoRepeats(pages[c])
    BY DEF ListsOK
  <2>2. \A i \in 1 .. Len(pages[c]) : pages[c][i] # p
    BY <1>3, PagesAre DEF PagesOf
  <2> SUFFICES ASSUME NEW i \in 1 .. Len(pages[c]) + 1, NEW j \in 1 .. Len(pages[c]) + 1,
                      pages'[c][i] = pages'[c][j]
               PROVE  i = j
    BY <1>7 DEF NoRepeats
  <2>3. \A k \in 1 .. Len(pages[c]) + 1 :
          k = 1 \/ (k - 1 \in 1 .. Len(pages[c]) /\ pages'[c][k] = pages[c][k - 1])
    <3> SUFFICES ASSUME NEW k \in 1 .. Len(pages[c]) + 1, k # 1
                 PROVE  k - 1 \in 1 .. Len(pages[c]) /\ pages'[c][k] = pages[c][k - 1]
      OBVIOUS
    <3>1. k - 1 \in 1 .. Len(pages[c]) /\ (k - 1) + 1 = k
      BY <1>7
    <3>2. pages'[c][(k - 1) + 1] = pages[c][k - 1]
      BY <3>1, <1>7
    <3> QED
      BY <3>1, <3>2
  <2>4. i # 1 /\ j # 1 => i - 1 = j - 1
    BY <2>1, <2>3, PagesAre DEF NoRepeats
  <2>5. \A k \in 1 .. Len(pages[c]) + 1 : k # 1 => pages'[c][k] # p
    BY <2>2, <2>3
  <2>6. i = 1 <=> j = 1
    BY <2>5, <1>7
  <2> QED
    BY <2>4, <2>6, <1>7
<1>10. /\ rest'[c] = <<>> /\ NoRepeats(rest'[c]) /\ RestOf(c)' = {}
  BY <1>2 DEF TypeOK, NoRepeats, RestOf
<1>11. ASSUME NEW q \in PagesOf(c) \union {p}, NEW g \in Starts(c),
              q = p => g \div WordGrains <= w /\ g \notin m
       PROVE  <<q, g, c>> \in objs
  <2>1. CASE q = p
    BY <2>1, <1>3, <1>5, <1>6, <1>11, StartsInside
  <2>2. CASE q \in RestOf(c)
    <3>1. Full(c, q)
      BY <2>2, <1>2 DEF WithRoom, RestOf
    <3> QED
      BY <3>1, <2>2, FullRest
  <2>3. CASE q \in PagesOf(c) \ RestOf(c)
    BY <2>3, <1>2, BehindPage
  <2> QED
    BY <2>1, <2>2, <2>3
<1>12. /\ pages' \in [Cursor -> Seq(Page)] /\ rest' \in [Cursor -> Seq(Page)]
       /\ \A d \in Cursor : d # c => pages'[d] = pages[d] /\ rest'[d] = rest[d]
  BY <1>2, <1>7, <1>10, EmptySeq DEF TypeOK
<1>13. Serves(c, p, w, m)
  BY <1>2, <1>3, <1>5, <1>6, <1>8, <1>9, <1>10, <1>11, <1>12 DEF Serves
<1> QED
  BY <1>5, <1>13

-----------------------------------------------------------------------------
(* The list of the pages that stay.                                         *)

LEMMA KeptList ==
  ASSUME NEW s \in Seq(Page), NoRepeats(s)
  PROVE  /\ Kept(s) \in Seq(Page) /\ NoRepeats(Kept(s)) /\ Len(Kept(s)) <= Len(s)
         /\ {Kept(s)[n] : n \in DOMAIN Kept(s)} = {s[i] : i \in DOMAIN s} \ Emptied
<1> DEFINE K == Staying(s)
           N == Cardinality(K)
           Rank == [i \in K |-> UpTo(s, i)]
           at(n) == CHOOSE i \in K : UpTo(s, i) = n
<1>1. /\ Len(s) \in Nat /\ DOMAIN s = 1 .. Len(s)
      /\ K \subseteq 1 .. Len(s) /\ IsFiniteSet(K) /\ N \in Nat /\ N <= Len(s)
  <2>1. Len(s) \in Nat /\ DOMAIN s = 1 .. Len(s) /\ K \subseteq 1 .. Len(s)
    BY DEF Staying
  <2>2. IsFiniteSet(1 .. Len(s)) /\ Cardinality(1 .. Len(s)) = Len(s)
    BY <2>1, UpToFinite
  <2> QED
    BY <2>1, <2>2, FS_Subset, FS_CardinalityType
<1>2. \A i \in K : {j \in K : j <= i} \in SUBSET K
  OBVIOUS
<1>3. ASSUME NEW i \in K
      PROVE  /\ IsFiniteSet({j \in K : j <= i}) /\ UpTo(s, i) \in 1 .. N
  <2>1. IsFiniteSet({j \in K : j <= i}) /\ UpTo(s, i) <= N /\ UpTo(s, i) \in Nat
    BY <1>1, FS_Subset, FS_CardinalityType DEF UpTo
  <2>2. i \in {j \in K : j <= i}
    BY <1>1
  <2>3. UpTo(s, i) # 0
    BY <2>1, <2>2, FS_EmptySet DEF UpTo
  <2> QED
    BY <2>1, <2>3, <1>1
<1>4. ASSUME NEW i \in K, NEW j \in K, i < j
      PROVE  UpTo(s, i) # UpTo(s, j)
  <2>1. /\ {k \in K : k <= i} \in SUBSET {k \in K : k <= j}
        /\ j \in {k \in K : k <= j} /\ j \notin {k \in K : k <= i}
    BY <1>1, <1>4
  <2> QED
    BY <2>1, <1>3, FS_Subset DEF UpTo
<1>5. Rank \in Injection(K, 1 .. N)
  <2>1. Rank \in [K -> 1 .. N]
    BY <1>3
  <2>2. \A i, j \in K : Rank[i] = Rank[j] => i = j
    <3> SUFFICES ASSUME NEW i \in K, NEW j \in K, i # j PROVE UpTo(s, i) # UpTo(s, j)
      BY Zenon
    <3>1. i < j \/ j < i
      BY <1>1
    <3> QED
      BY <3>1, <1>4
  <2> HIDE DEF Rank
  <2> QED
    BY <2>1, <2>2 DEF Injection, IsInjective
<1>6. Rank \in Surjection(K, 1 .. N)
  <2>1. IsFiniteSet(1 .. N) /\ Cardinality(1 .. N) = N
    BY <1>1, UpToFinite
  <2> HIDE DEF Rank
  <2> QED
    BY <2>1, <1>1, <1>5, FS_Injection
<1>7. ASSUME NEW n \in 1 .. N PROVE at(n) \in K /\ UpTo(s, at(n)) = n
  <2>1. \E i \in K : Rank[i] = n
    <3> HIDE DEF Rank
    <3> QED BY <1>6 DEF Surjection
  <2> QED
    BY <2>1
<1>8. ASSUME NEW i \in K PROVE at(UpTo(s, i)) = i
  <2>1. UpTo(s, i) \in 1 .. N
    BY <1>3
  <2>2. at(UpTo(s, i)) \in K /\ UpTo(s, at(UpTo(s, i))) = UpTo(s, i)
    BY <2>1, <1>7
  <2>3. \A j \in K : UpTo(s, j) = UpTo(s, i) => j = i
    <3> SUFFICES ASSUME NEW j \in K, j # i PROVE UpTo(s, j) # UpTo(s, i)
      OBVIOUS
    <3>1. i < j \/ j < i
      BY <1>1
    <3> QED
      BY <3>1, <1>4
  <2> HIDE DEF at
  <2> QED
    BY <2>2, <2>3
<1>9. Kept(s) = [n \in 1 .. N |-> s[at(n)]]
  BY DEF Kept
<1> HIDE DEF at, K, N
<1>10. \A i \in K : s[i] \in Page
  BY <1>1
<1>11. Kept(s) \in Seq(Page) /\ Len(Kept(s)) = N /\ DOMAIN Kept(s) = 1 .. N
  <2>1. Kept(s) \in [1 .. N -> Page]
    BY <1>7, <1>9, <1>10
  <2> QED
    BY <2>1, <1>1
<1>12. NoRepeats(Kept(s))
  <2> SUFFICES ASSUME NEW n \in 1 .. N, NEW m \in 1 .. N, s[at(n)] = s[at(m)]
               PROVE  n = m
    BY <1>9, <1>11 DEF NoRepeats
  <2>1. at(n) = at(m)
    BY <1>1, <1>7 DEF NoRepeats
  <2> QED
    BY <2>1, <1>7
<1>13. {Kept(s)[n] : n \in DOMAIN Kept(s)} = {s[i] : i \in K}
  <2>1. \A n \in 1 .. N : Kept(s)[n] = s[at(n)] /\ at(n) \in K
    BY <1>7, <1>9
  <2>2. \A i \in K : \E n \in 1 .. N : Kept(s)[n] = s[i]
    BY <1>3, <1>8, <1>9 DEF N
  <2> DEFINE A == {Kept(s)[n] : n \in DOMAIN Kept(s)}
             B == {s[i] : i \in K}
  <2>3. \A x : x \in A <=> \E n \in 1 .. N : x = Kept(s)[n]
    BY <1>11
  <2>4. \A x : x \in B <=> \E i \in K : x = s[i]
    OBVIOUS
  <2> HIDE DEF A, B
  <2>5. A = B
    BY <2>1, <2>2, <2>3, <2>4
  <2> QED
    BY <2>5 DEF A, B
<1>14. {s[i] : i \in K} = {s[i] : i \in DOMAIN s} \ Emptied
  BY DEF K, Staying
<1> QED
  BY <1>1, <1>11, <1>12, <1>13, <1>14

-----------------------------------------------------------------------------
(* Sums over the cursors.                                                   *)

\* Only finitely many units make up a sum.
LEMMA TotalNat ==
  ASSUME NEW f, \A c \in Cursor : f[c] \in Int
  PROVE  IsFiniteSet(Units(f)) /\ Total(f) \in Nat
<1> DEFINE F == [c \in Cursor |-> {c} \X (1 .. f[c])]
           T == {{c} \X (1 .. f[c]) : c \in Cursor}
<1>1. F \in [Cursor -> T]
  OBVIOUS
<1>2. \A t \in T : \E c \in Cursor : F[c] = t
  OBVIOUS
<1>3. IsFiniteSet(T)
  <2> HIDE DEF F, T
  <2>1. F \in Surjection(Cursor, T)
    BY <1>1, <1>2, Fun_IsSurj
  <2> QED
    BY <2>1, Constants, FS_Surjection
<1>4. ASSUME NEW c \in Cursor PROVE IsFiniteSet({c} \X (1 .. f[c]))
  <2>1. f[c] \in Int
    OBVIOUS
  <2>2. IsFiniteSet(1 .. f[c])
    BY <2>1, FS_Interval
  <2>3. IsFiniteSet({c})
    BY FS_Singleton
  <2> QED
    BY <2>2, <2>3, FS_Product
<1>5. IsFiniteSet(UNION T)
  <2>1. \A t \in T : IsFiniteSet(t)
    BY <1>4
  <2> HIDE DEF T
  <2> QED
    BY <2>1, <1>3, FS_UNION
<1> QED
  BY <1>5, FS_CardinalityType DEF Units, Total

LEMMA SharesInt ==
  ASSUME TypeOK
  PROVE  \A c \in Cursor : /\ Unpopped[c] \in Nat /\ Used[c] \in Int
                           /\ IsFiniteSet(freeMask[c]) /\ Cardinality(freeMask[c]) \in Nat
<1> SUFFICES ASSUME NEW c \in Cursor
             PROVE  /\ Unpopped[c] \in Nat /\ Used[c] \in Int
                    /\ IsFiniteSet(freeMask[c]) /\ Cardinality(freeMask[c]) \in Nat
  OBVIOUS
<1>1. IsFiniteSet(freeMask[c]) /\ Cardinality(freeMask[c]) \in Nat
  BY Constants, FS_Subset, FS_CardinalityType DEF TypeOK
<1>2. Class[c] \in Nat /\ handedOut[c] \in Nat
  BY Constants DEF TypeOK
<1>3. /\ Unpopped[c] = Cardinality(freeMask[c]) * Class[c]
      /\ Used[c] = handedOut[c] * Class[c] - Unpopped[c]
  BY DEF Unpopped, Used
<1>4. Unpopped[c] \in Nat /\ handedOut[c] * Class[c] \in Nat
  BY <1>1, <1>2, <1>3
<1> QED
  BY <1>1, <1>3, <1>4

LEMMA MarkedInFinite ==
  ASSUME TypeOK, NEW c \in Cursor
  PROVE  /\ IsFiniteSet(PagesOf(c)) /\ IsFiniteSet(MarkedIn(c))
         /\ Cardinality(MarkedIn(c)) \in Nat /\ Stay[c] \in Nat
<1>1. IsFiniteSet(PagesOf(c))
  <2> DEFINE F == [i \in 1 .. Len(pages[c]) |-> pages[c][i]]
  <2>1. PagesOf(c) = {pages[c][i] : i \in 1 .. Len(pages[c])} /\ Len(pages[c]) \in Nat
    BY PagesAre DEF PagesOf
  <2>2. F \in [1 .. Len(pages[c]) -> PagesOf(c)]
    BY <2>1
  <2>3. \A p \in PagesOf(c) : \E i \in 1 .. Len(pages[c]) : F[i] = p
    BY <2>1
  <2> HIDE DEF F
  <2>4. F \in Surjection(1 .. Len(pages[c]), PagesOf(c))
    BY <2>2, <2>3, Fun_IsSurj
  <2> QED
    BY <2>1, <2>4, UpToFinite, FS_Surjection
<1>2. IsFiniteSet(PagesOf(c) \X Grain)
  BY <1>1, Constants, FS_Product
<1>3. IsFiniteSet(MarkedIn(c)) /\ Cardinality(MarkedIn(c)) \in Nat
  BY <1>2, FS_Subset, FS_CardinalityType DEF MarkedIn
<1>4. Stay[c] = Cardinality(MarkedIn(c)) * Class[c] /\ Class[c] \in Nat
  BY Constants DEF Stay
<1> QED
  BY <1>1, <1>3, <1>4

-----------------------------------------------------------------------------
(* The other steps of the program.                                          *)

LEMMA RefillDeclinesInv ==
  ASSUME Inv, NEW c \in Cursor, RefillDeclines(c)
  PROVE  Inv'
<1> USE DEF Inv
<1>1. /\ ~inCollect /\ freeMask[c] = {} /\ stash[c] = {} /\ PageUsedUp(c)
      /\ WithRoom(c) = {}
      /\ page' = [page EXCEPT ![c] = NoPage]
      /\ rest' = [rest EXCEPT ![c] = <<>>]
      /\ UNCHANGED <<pool, fresh, pages, word, freeMask, stash, handedOut, bitmaps,
                     counts, limitZero, inCollect, objs>>
  BY DEF RefillDeclines, Refilling
<1>2. /\ page'[c] = NoPage /\ rest'[c] = <<>> /\ RestOf(c)' = {}
      /\ \A d \in Cursor : d # c =>
           page'[d] = page[d] /\ rest'[d] = rest[d] /\ RestOf(d)' = RestOf(d)
  BY <1>1 DEF TypeOK, RestOf
<1>3. /\ \A d \in Cursor : PagesOf(d)' = PagesOf(d)
      /\ \A q : GrainsOf(q)' = GrainsOf(q)
      /\ FinPages' = FinPages
  BY <1>1 DEF PagesOf, GrainsOf, FinPages
<1>4. TypeOK'
  <2>1. page' \in [Cursor -> Page \union {NoPage}] /\ rest' \in [Cursor -> Seq(Page)]
    BY <1>1, EmptySeq DEF TypeOK
  <2> QED
    BY <2>1, <1>1 DEF TypeOK, bitmaps, counts
<1>5. PagesPartitioned'
  BY <1>1, <1>3, ObjectAt DEF PagesPartitioned
<1>6. ListsOK'
  <2> SUFFICES ASSUME NEW d \in Cursor
               PROVE  /\ NoRepeats(pages[d]) /\ NoRepeats(rest'[d])
                      /\ RestOf(d)' \subseteq PagesOf(d)
                      /\ page'[d] # NoPage => page'[d] \in PagesOf(d) \ RestOf(d)'
    BY <1>1, <1>3 DEF ListsOK
  <2>1. NoRepeats(rest'[c])
    BY <1>2 DEF NoRepeats
  <2> QED
    BY <2>1, <1>2 DEF ListsOK
<1>7. PendingOK'
  <2> SUFFICES ASSUME NEW d \in Cursor
               PROVE  /\ freeMask[d] \union stash[d] \subseteq WordStarts(d, word[d])
                      /\ freeMask[d] \intersect stash[d] = {}
                      /\ freeMask[d] \union stash[d] # {} => page'[d] # NoPage
                      /\ \A h \in freeMask[d] \union stash[d] : <<page'[d], h, d>> \notin objs
    BY <1>1 DEF PendingOK, WordStarts, Starts
  <2> QED
    BY <1>1, <1>2 DEF PendingOK
<1>8. BlocksOK'
  BY <1>1, <1>3 DEF BlocksOK, bitmaps, Starts
<1>9. AheadOK'
  <2> SUFFICES ASSUME NEW d \in Cursor, NEW q
               PROVE  /\ q \in RestOf(d)' => GrainsOf(q) \subseteq live[q]
                      /\ page'[d] # NoPage /\ q = page'[d] => \A h \in GrainsOf(q) :
                           h \div WordGrains > word[d] => h \in live[q]
    BY <1>1, <1>3 DEF AheadOK, bitmaps
  <2> QED
    BY <1>2 DEF AheadOK
<1>10. BehindOK'
  <2> SUFFICES ASSUME NEW d \in Cursor, NEW q \in PagesOf(d) \ RestOf(d)',
                      NEW h \in Starts(d), Passed(d, q, h)'
               PROVE  <<q, h, d>> \in objs
    BY <1>1, <1>3 DEF BehindOK, Starts
  <2>1. CASE d = c
    <3>1. CASE q \in RestOf(c)
      <4>1. Full(c, q)
        BY <3>1, <1>1 DEF WithRoom, RestOf
      <4> QED
        BY <2>1, <3>1, <4>1, FullRest
    <3>2. CASE q \notin RestOf(c)
      BY <2>1, <3>2, <1>1, BehindPage
    <3> QED
      BY <3>1, <3>2
  <2>2. CASE d # c
    <3>1. Passed(d, q, h)
      BY <2>2, <1>1, <1>2 DEF Passed
    <3> QED
      BY <2>2, <3>1, <1>1, <1>2 DEF BehindOK
  <2> QED
    BY <2>1, <2>2
<1>11. CollectOK'
  BY <1>1 DEF CollectOK, bitmaps
<1>12. InUseOK'
  <2> SUFFICES ASSUME NEW d \in Fin, NEW q \in PagesOf(d)
               PROVE  inuse[q] = GrainsOf(q) \union (IF page'[d] = q THEN freeMask[d] ELSE {})
    BY <1>1, <1>3, PageAssumption DEF InUseOK, bitmaps
  <2>1. inuse[q] = GrainsOf(q) \union (IF page[d] = q THEN freeMask[d] ELSE {})
    BY DEF InUseOK
  <2>2. CASE d = c
    BY <2>1, <2>2, <1>1
  <2>3. CASE d # c
    BY <2>1, <2>3, <1>2, PageAssumption
  <2> QED
    BY <2>2, <2>3
<1> QED
  BY <1>4, <1>5, <1>6, <1>7, <1>8, <1>9, <1>10, <1>11, <1>12

\* What the invariant says of a state that differs in nothing it mentions.
LEMMA QuietInv ==
  ASSUME Inv, limitZero' \in BOOLEAN,
         UNCHANGED <<pool, fresh, cursors, bitmaps, counts, inCollect, objs>>
  PROVE  Inv'
<1> USE DEF Inv
<1>1. UNCHANGED <<pool, fresh, pages, rest, page, word, freeMask, stash, handedOut,
                  mark, live, inuse, heap, liveBytes, inUseAtBegin, inCollect, objs>>
  BY DEF cursors, bitmaps, counts
<1>2. /\ \A c \in Cursor : PagesOf(c)' = PagesOf(c) /\ RestOf(c)' = RestOf(c)
      /\ \A p : GrainsOf(p)' = GrainsOf(p)
      /\ FinPages' = FinPages
  BY <1>1 DEF PagesOf, RestOf, GrainsOf, FinPages
<1>3. TypeOK' /\ CollectOK'
  BY <1>1 DEF TypeOK, CollectOK
<1>4. PagesPartitioned'
  BY <1>1, <1>2, ObjectAt DEF PagesPartitioned
<1>5. ListsOK' /\ PendingOK' /\ BlocksOK'
  BY <1>1, <1>2 DEF ListsOK, PendingOK, BlocksOK, WordStarts, Starts
<1>6. AheadOK' /\ BehindOK'
  BY <1>1, <1>2 DEF AheadOK, BehindOK, Passed, Starts
<1>7. InUseOK'
  BY <1>1, <1>2, PageAssumption DEF InUseOK
<1> QED
  BY <1>3, <1>4, <1>5, <1>6, <1>7

-----------------------------------------------------------------------------
(* Collections.                                                             *)

LEMMA CollectBeginInv ==
  ASSUME Inv, CollectBegin
  PROVE  Inv'
<1> USE DEF Inv
<1>1. /\ ~inCollect /\ inCollect' /\ inuse' = TakenBack
      /\ heap' = Uncharged /\ inUseAtBegin' = liveBytes + Total(Used)
      /\ freeMask' = [c \in Cursor |-> {}] /\ stash' = [c \in Cursor |-> {}]
      /\ handedOut' = [c \in Cursor |-> 0]
      /\ UNCHANGED <<pool, fresh, pages, rest, page, word, mark, live, liveBytes,
                     limitZero, objs>>
  BY DEF CollectBegin
<1>2. /\ \A c \in Cursor : PagesOf(c)' = PagesOf(c) /\ RestOf(c)' = RestOf(c)
      /\ \A p : GrainsOf(p)' = GrainsOf(p)
      /\ FinPages' = FinPages
  BY <1>1 DEF PagesOf, RestOf, GrainsOf, FinPages
<1>3. TypeOK'
  <2>1. heap' \in Nat /\ inUseAtBegin' \in Nat
    <3>1. Total(Unpopped) \in Nat /\ Total(Used) \in Nat
      BY SharesInt, TotalNat
    <3> QED
      BY <3>1, <1>1 DEF TypeOK, Uncharged, Minus
  <2>2. inuse' \in [Page -> SUBSET Grain]
    BY <1>1 DEF TypeOK, TakenBack
  <2>3. inCollect' \in BOOLEAN
    BY DEF CollectBegin
  <2> QED
    BY <1>1, <2>1, <2>2, <2>3 DEF TypeOK
<1>4. PagesPartitioned'
  BY <1>1, <1>2, ObjectAt DEF PagesPartitioned
<1>5. ListsOK' /\ PendingOK' /\ BlocksOK'
  BY <1>1, <1>2 DEF ListsOK, PendingOK, BlocksOK, Starts
<1>6. AheadOK' /\ BehindOK' /\ CollectOK'
  BY <1>1, <1>2 DEF AheadOK, BehindOK, CollectOK
<1>7. InUseOK'
  <2> SUFFICES ASSUME NEW q \in Page
               PROVE  /\ q \notin FinPages => inuse'[q] = {}
                      /\ \A d \in Fin : q \in PagesOf(d) => inuse'[q] = GrainsOf(q)
    <3>1. \A d \in Fin : PagesOf(d) \subseteq Page /\ d \in Cursor
      BY PagesAre, PageAssumption
    <3> QED
      BY <3>1, <1>1, <1>2 DEF InUseOK
  <2>1. inuse'[q] = inuse[q] \ UNION {freeMask[c] : c \in {x \in Fin : page[x] = q}}
    BY <1>1 DEF TakenBack
  <2>2. q \notin FinPages => inuse'[q] = {}
    BY <2>1 DEF InUseOK
  <2>3. ASSUME NEW d \in Fin, q \in PagesOf(d) PROVE inuse'[q] = GrainsOf(q)
    <3>1. d \in Cursor
      BY PageAssumption
    <3>2. \A x \in Fin : page[x] = q => x = d
      BY <3>1, <2>3, PageAssumption DEF ListsOK, PagesPartitioned
    <3>3. UNION {freeMask[c] : c \in {x \in Fin : page[x] = q}}
            = IF page[d] = q THEN freeMask[d] ELSE {}
      BY <3>2
    <3>4. inuse[q] = GrainsOf(q) \union (IF page[d] = q THEN freeMask[d] ELSE {})
      BY <2>3 DEF InUseOK
    <3>5. page[d] = q => GrainsOf(q) \intersect freeMask[d] = {}
      BY <2>3, <3>1, ObjectAt DEF PendingOK
    <3> QED
      BY <2>1, <3>3, <3>4, <3>5
  <2> QED
    BY <2>2, <2>3
<1> QED
  BY <1>3, <1>4, <1>5, <1>6, <1>7

LEMMA MarkInv ==
  ASSUME Inv, NEW S \in SUBSET objs, Mark(S)
  PROVE  Inv'
<1> USE DEF Inv
<1>1. /\ inCollect /\ mark' = [p \in Page |-> {o[2] : o \in {x \in S : x[1] = p}}]
      /\ UNCHANGED <<pool, fresh, pages, rest, page, word, freeMask, stash, handedOut,
                     live, inuse, heap, liveBytes, inUseAtBegin, limitZero, inCollect, objs>>
  BY DEF Mark, cursors, counts
<1>2. /\ \A c \in Cursor : PagesOf(c)' = PagesOf(c) /\ RestOf(c)' = RestOf(c)
      /\ \A p : GrainsOf(p)' = GrainsOf(p)
      /\ FinPages' = FinPages
  BY <1>1 DEF PagesOf, RestOf, GrainsOf, FinPages
<1>3. \A p \in Page : mark'[p] \subseteq GrainsOf(p) /\ mark'[p] \subseteq Grain
  BY <1>1 DEF GrainsOf, TypeOK
<1>4. TypeOK'
  <2>1. mark' \in [Page -> SUBSET Grain]
    BY <1>1, <1>3
  <2> QED
    BY <1>1, <2>1 DEF TypeOK
<1>5. PagesPartitioned'
  BY <1>1, <1>2, ObjectAt DEF PagesPartitioned
<1>6. ListsOK' /\ PendingOK' /\ BlocksOK'
  BY <1>1, <1>2, <1>3 DEF ListsOK, PendingOK, BlocksOK, WordStarts, Starts
<1>7. AheadOK' /\ BehindOK' /\ CollectOK'
  BY <1>1, <1>2 DEF AheadOK, BehindOK, CollectOK
<1>8. InUseOK'
  BY <1>1, <1>2, PageAssumption DEF InUseOK
<1> QED
  BY <1>4, <1>5, <1>6, <1>7, <1>8

\* A class' list after a collection: its pages that hold a survivor.
LEMMA KeptPages ==
  ASSUME Inv, CollectEnd
  PROVE  /\ \A c \in Cursor : /\ pages'[c] \in Seq(Page) /\ NoRepeats(pages'[c])
                              /\ rest'[c] = pages'[c] /\ Len(pages'[c]) <= Len(pages[c])
                              /\ PagesOf(c)' = PagesOf(c) \ Emptied
                              /\ RestOf(c)' = PagesOf(c)'
         /\ pages' \in [Cursor -> Seq(Page)] /\ rest' = pages'
<1> USE DEF Inv
<1>1. pages' = [c \in Cursor |-> Kept(pages[c])] /\ rest' = pages'
  BY DEF CollectEnd, ResetCursors
<1>2. ASSUME NEW c \in Cursor
      PROVE  /\ pages'[c] \in Seq(Page) /\ NoRepeats(pages'[c])
             /\ Len(pages'[c]) <= Len(pages[c])
             /\ PagesOf(c)' = PagesOf(c) \ Emptied
  <2>1. pages[c] \in Seq(Page) /\ NoRepeats(pages[c])
    BY DEF TypeOK, ListsOK
  <2>2. PICK s : s = pages[c] /\ s \in Seq(Page) /\ NoRepeats(s)
    BY <2>1
  <2>3. /\ Kept(s) \in Seq(Page) /\ NoRepeats(Kept(s)) /\ Len(Kept(s)) <= Len(s)
        /\ {Kept(s)[n] : n \in DOMAIN Kept(s)} = {s[i] : i \in DOMAIN s} \ Emptied
    BY <2>2, KeptList
  <2>4. pages'[c] = Kept(s)
    BY <1>1, <2>2
  <2>5. PagesOf(c)' = {Kept(s)[n] : n \in DOMAIN Kept(s)}
    BY <2>4 DEF PagesOf
  <2>6. PagesOf(c) = {s[i] : i \in DOMAIN s}
    BY <2>2 DEF PagesOf
  <2> QED
    BY <2>2, <2>3, <2>4, <2>5, <2>6
<1>3. \A c \in Cursor : RestOf(c)' = PagesOf(c)'
  BY <1>1 DEF RestOf, PagesOf
<1>4. pages' \in [Cursor -> Seq(Page)]
  BY <1>1, <1>2
<1> QED
  BY <1>1, <1>2, <1>3, <1>4

\* The objects after a collection are those the marks name.
LEMMA Survivors ==
  ASSUME Inv, objs' = {o \in objs : IsMarked(o)}
  PROVE  /\ \A p : GrainsOf(p)' = GrainsOf(p) \intersect mark[p]
         /\ \A p \in Page : GrainsOf(p)' = mark[p]
         /\ \A o \in objs' : o \in objs /\ o[1] \in Page /\ mark[o[1]] # {}
<1> USE DEF Inv
<1>1. \A p : GrainsOf(p)' = GrainsOf(p) \intersect mark[p]
  BY DEF GrainsOf, IsMarked
<1>2. \A p \in Page : GrainsOf(p)' = mark[p]
  BY <1>1 DEF BlocksOK
<1>3. \A o \in objs' : o \in objs /\ o[1] \in Page /\ mark[o[1]] # {}
  BY ObjectAt DEF IsMarked
<1> QED
  BY <1>1, <1>2, <1>3

LEMMA CollectEndInv ==
  ASSUME Inv, CollectEnd
  PROVE  Inv'
<1> USE DEF Inv
<1>1. /\ inCollect /\ ~inCollect' /\ live' = mark /\ mark' = [p \in Page |-> {}]
      /\ inuse' = [p \in Page |-> IF p \in FinPages THEN mark[p] ELSE inuse[p]]
      /\ pool' = pool \union Emptied
      /\ page' = [c \in Cursor |-> NoPage] /\ word' = [c \in Cursor |-> 0]
      /\ freeMask' = [c \in Cursor |-> {}] /\ stash' = [c \in Cursor |-> {}]
      /\ handedOut' = [c \in Cursor |-> 0]
      /\ liveBytes' = Total(Stay)
      /\ heap' = Minus(heap, Minus(inUseAtBegin, Total(Stay)))
      /\ objs' = {o \in objs : IsMarked(o)}
      /\ UNCHANGED <<fresh, inUseAtBegin, limitZero>>
  BY DEF CollectEnd, ResetCursors
<1>2. /\ \A c \in Cursor : PagesOf(c)' = PagesOf(c) \ Emptied /\ RestOf(c)' = PagesOf(c)'
      /\ \A c \in Cursor : NoRepeats(pages'[c])
      /\ pages' \in [Cursor -> Seq(Page)] /\ rest' = pages'
  BY KeptPages
<1>3. /\ \A p \in Page : GrainsOf(p)' = mark[p]
      /\ \A o \in objs' : o \in objs /\ o[1] \in Page /\ mark[o[1]] # {}
  BY <1>1, Survivors
<1>4. \A p : p \in Emptied <=> mark[p] = {} /\ \E c \in Cursor : p \in PagesOf(c)
  BY DEF Emptied
<1>5. TypeOK'
  <2>1. heap' \in Nat /\ liveBytes' \in Nat
    <3>1. Total(Stay) \in Nat
      BY MarkedInFinite, TotalNat
    <3> QED
      BY <3>1, <1>1 DEF TypeOK, Minus
  <2>2. pool' \subseteq Page
    BY <1>1, <1>4, PagesAre DEF TypeOK
  <2>3. /\ live' \in [Page -> SUBSET Grain] /\ mark' \in [Page -> SUBSET Grain]
        /\ inuse' \in [Page -> SUBSET Grain]
    BY <1>1 DEF TypeOK
  <2>4. /\ page' \in [Cursor -> Page \union {NoPage}] /\ word' \in [Cursor -> Word]
        /\ freeMask' \in [Cursor -> SUBSET Grain] /\ stash' \in [Cursor -> SUBSET Grain]
        /\ handedOut' \in [Cursor -> Nat]
    BY <1>1, Constants
  <2>5. inCollect' \in BOOLEAN
    BY DEF CollectEnd
  <2> QED
    BY <1>1, <1>2, <2>1, <2>2, <2>3, <2>4, <2>5 DEF TypeOK
<1>6. PagesPartitioned'
  <2>1. \A c, d \in Cursor : c # d => PagesOf(c)' \intersect PagesOf(d)' = {}
    BY <1>2 DEF PagesPartitioned
  <2>2. \A c \in Cursor : PagesOf(c)' \intersect (pool' \union fresh') = {}
    BY <1>1, <1>2 DEF PagesPartitioned
  <2>3. pool' \intersect fresh' = {}
    BY <1>1, <1>4 DEF PagesPartitioned
  <2>4. pool' \union fresh' \union UNION {PagesOf(c)' : c \in Cursor} = Page
    <3>1. ASSUME NEW q \in Page
          PROVE  q \in pool' \union fresh' \/ \E d \in Cursor : q \in PagesOf(d)'
      <4>1. q \in pool \union fresh \/ \E d \in Cursor : q \in PagesOf(d)
        BY DEF PagesPartitioned
      <4> QED
        BY <4>1, <1>1, <1>2
    <3>2. pool' \subseteq Page /\ fresh' \subseteq Page /\ \A d \in Cursor : PagesOf(d)' \subseteq Page
      BY <1>2, <1>5, PagesAre DEF TypeOK
    <3> QED
      BY <3>1, <3>2
  <2>5. \A o \in objs' : o[1] \in PagesOf(o[3])'
    <3> SUFFICES ASSUME NEW o \in objs' PROVE o[1] \in PagesOf(o[3])'
      OBVIOUS
    <3>1. o \in objs /\ mark[o[1]] # {} /\ o[3] \in Cursor
      BY <1>3, ObjectAt
    <3>2. o[1] \in PagesOf(o[3]) \ Emptied
      BY <3>1, <1>4 DEF PagesPartitioned
    <3> QED
      BY <3>1, <3>2, <1>2
  <2> QED
    BY <2>1, <2>2, <2>3, <2>4, <2>5 DEF PagesPartitioned
<1>7. ListsOK'
  BY <1>1, <1>2 DEF ListsOK
<1>8. PendingOK'
  BY <1>1 DEF PendingOK
<1>9. BlocksOK'
  BY <1>1, <1>3 DEF BlocksOK, Starts
<1>10. AheadOK'
  <2>1. \A c \in Cursor : RestOf(c)' \subseteq Page
    BY <1>2, PagesAre
  <2> QED
    BY <2>1, <1>1, <1>3 DEF AheadOK
<1>11. BehindOK'
  BY <1>2 DEF BehindOK
<1>12. CollectOK'
  BY <1>1 DEF CollectOK
<1>13. InUseOK'
  <2>1. ASSUME NEW q \in Page, q \notin FinPages' PROVE inuse'[q] = {}
    <3>1. CASE q \in FinPages
      <4>1. PICK d \in Fin : q \in PagesOf(d)
        BY <3>1 DEF FinPages
      <4>2. q \in Emptied
        BY <2>1, <4>1, <1>2, PageAssumption DEF FinPages
      <4> QED
        BY <3>1, <4>2, <1>1, <1>4
    <3>2. CASE q \notin FinPages
      BY <3>2, <1>1 DEF InUseOK
    <3> QED
      BY <3>1, <3>2
  <2>2. ASSUME NEW d \in Fin, NEW q \in PagesOf(d)'
        PROVE  inuse'[q] = GrainsOf(q)' \union (IF page'[d] = q THEN freeMask'[d] ELSE {})
    <3>1. d \in Cursor /\ q \in PagesOf(d) /\ q \in Page
      BY <1>2, PagesAre, PageAssumption
    <3>2. q \in FinPages
      BY <3>1 DEF FinPages
    <3> QED
      BY <3>1, <3>2, <1>1, <1>3
  <2> QED
    BY <2>1, <2>2 DEF InUseOK
<1> QED
  BY <1>5, <1>6, <1>7, <1>8, <1>9, <1>10, <1>11, <1>12, <1>13

LEMMA ResetInv ==
  ASSUME Inv, Reset
  PROVE  Inv'
<1> USE DEF Inv
<1>1. /\ ~inCollect /\ live' = [p \in Page |-> {}] /\ mark' = [p \in Page |-> {}]
      /\ inuse' = [p \in Page |-> {}]
      /\ pool' = pool \union UNION {PagesOf(c) : c \in Cursor}
      /\ pages' = [c \in Cursor |-> <<>>] /\ rest' = [c \in Cursor |-> <<>>]
      /\ page' = [c \in Cursor |-> NoPage] /\ word' = [c \in Cursor |-> 0]
      /\ freeMask' = [c \in Cursor |-> {}] /\ stash' = [c \in Cursor |-> {}]
      /\ handedOut' = [c \in Cursor |-> 0]
      /\ liveBytes' = 0 /\ inUseAtBegin' = 0 /\ objs' = {}
      /\ heap' = Minus(Uncharged, liveBytes + Total(Used))
      /\ UNCHANGED <<fresh, limitZero, inCollect>>
  BY DEF Reset, ResetCursors
<1>2. /\ \A c \in Cursor : PagesOf(c)' = {} /\ RestOf(c)' = {}
      /\ \A p : GrainsOf(p)' = {}
  BY <1>1 DEF PagesOf, RestOf, GrainsOf
<1>3. TypeOK'
  <2>1. heap' \in Nat
    <3>1. Total(Unpopped) \in Nat /\ Total(Used) \in Nat
      BY SharesInt, TotalNat
    <3> QED
      BY <3>1, <1>1 DEF TypeOK, Uncharged, Minus
  <2>2. pool' \subseteq Page
    BY <1>1, PagesAre DEF TypeOK
  <2>3. /\ pages' \in [Cursor -> Seq(Page)] /\ rest' \in [Cursor -> Seq(Page)]
        /\ page' \in [Cursor -> Page \union {NoPage}] /\ word' \in [Cursor -> Word]
        /\ freeMask' \in [Cursor -> SUBSET Grain] /\ stash' \in [Cursor -> SUBSET Grain]
        /\ handedOut' \in [Cursor -> Nat]
    BY <1>1, Constants, EmptySeq
  <2> QED
    BY <1>1, <2>1, <2>2, <2>3 DEF TypeOK
<1>4. PagesPartitioned' /\ ListsOK'
  <2>1. pool' \union fresh' \union UNION {PagesOf(c)' : c \in Cursor} = Page
    BY <1>1, <1>2 DEF PagesPartitioned
  <2>2. pool' \intersect fresh' = {}
    BY <1>1 DEF PagesPartitioned
  <2>3. PagesPartitioned'
    BY <1>1, <1>2, <2>1, <2>2 DEF PagesPartitioned
  <2> QED
    BY <2>3, <1>1, <1>2 DEF ListsOK, NoRepeats
<1>5. PendingOK' /\ BlocksOK' /\ AheadOK' /\ BehindOK' /\ CollectOK'
  BY <1>1, <1>2 DEF PendingOK, BlocksOK, AheadOK, BehindOK, CollectOK
<1>6. InUseOK'
  BY <1>1, <1>2, PageAssumption DEF InUseOK
<1> QED
  BY <1>3, <1>4, <1>5, <1>6

-----------------------------------------------------------------------------
(* The theorems.                                                            *)

LEMMA NextInv == Inv /\ [Next]_vars => Inv'
<1> SUFFICES ASSUME Inv, [Next]_vars PROVE Inv'
  OBVIOUS
<1>1. ASSUME NEW c \in Cursor, Pop(c) PROVE Inv'
  BY <1>1, PopInv
<1>2. ASSUME NEW c \in Cursor, RefillStash(c) PROVE Inv'
  BY <1>2, RefillStashServes, ServesInv
<1>3. ASSUME NEW c \in Cursor, RefillPage(c) PROVE Inv'
  BY <1>3, RefillPageServes, ServesInv
<1>4. ASSUME NEW c \in Cursor, RefillNext(c) PROVE Inv'
  BY <1>4, RefillNextServes, ServesInv
<1>5. ASSUME NEW c \in Cursor, RefillDeclines(c) PROVE Inv'
  BY <1>5, RefillDeclinesInv
<1>6. ASSUME NEW c \in Cursor, NEW p \in Page, RefillNew(c, p) PROVE Inv'
  BY <1>6, RefillNewServes, ServesInv
<1>7. CASE FlipLimit
  BY <1>7, QuietInv DEF FlipLimit, Inv, TypeOK
<1>8. CASE CollectBegin
  BY <1>8, CollectBeginInv
<1>9. CASE CollectEnd
  BY <1>9, CollectEndInv
<1>10. CASE Reset
  BY <1>10, ResetInv
<1>11. ASSUME NEW S \in SUBSET objs, Mark(S) PROVE Inv'
  BY <1>11, MarkInv
<1>12. CASE UNCHANGED vars
  BY <1>12, QuietInv DEF vars, Inv, TypeOK
<1> QED
  BY <1>1, <1>2, <1>3, <1>4, <1>5, <1>6, <1>7, <1>8, <1>9, <1>10, <1>11, <1>12 DEF Next

\* The invariant behind the properties of the page space holds of every run.
THEOREM Invariant == Spec => []Inv
BY InitInv, NextInv, PTL DEF Spec

\* The state stays well typed, and every object lies inside its page.
THEOREM TypeCorrect == Spec => []TypeOK
<1>1. Inv => TypeOK
  BY DEF Inv
<1> QED
  BY <1>1, Invariant, PTL

\* Two blocks in use or about to be never share a grain, no block about to be
\* handed out holds an object, and no page has two owners.
THEOREM Separate == Spec => []NoOverlap
<1>1. Inv => NoOverlap
  <2> SUFFICES ASSUME Inv PROVE NoOverlap
    OBVIOUS
  <2> USE DEF Inv
  <2>1. ASSUME NEW a \in objs \union Pending
        PROVE  a[3] \in Cursor /\ a[1] \in PagesOf(a[3]) /\ a[2] \in Starts(a[3])
    <3>1. CASE a \in objs
      BY <3>1, ObjectAt DEF BlocksOK, PagesPartitioned
    <3>2. CASE a \in Pending
      <4>1. PICK c, g : c \in Cursor /\ g \in freeMask[c] \union stash[c] /\ a = <<page[c], g, c>>
        BY <3>2 DEF Pending
      <4>2. page[c] \in PagesOf(c)
        BY <4>1 DEF PendingOK, ListsOK
      <4>3. g \in Starts(c)
        BY <4>1 DEF PendingOK, WordStarts
      <4> QED
        BY <4>1, <4>2, <4>3
    <3> QED
      BY <3>1, <3>2
  <2>2. \A a \in objs \union Pending : a = <<a[1], a[2], a[3]>>
    BY ObjectAt DEF Pending
  <2>3. ASSUME NEW a \in objs \union Pending, NEW b \in objs \union Pending,
               a # b, a[1] = b[1]
        PROVE  Extent(a[3], a[2]) \intersect Extent(b[3], b[2]) = {}
    <3>1. a[3] = b[3]
      BY <2>1, <2>3 DEF PagesPartitioned
    <3>2. a[2] # b[2]
      BY <2>2, <2>3, <3>1
    <3> QED
      BY <2>1, <3>1, <3>2, StartsApart
  <2>4. Pending \intersect objs = {}
    BY DEF Pending, PendingOK
  <2> QED
    BY <2>3, <2>4 DEF NoOverlap
<1> QED
  BY <1>1, Invariant, PTL

\* A collection finalizes exactly the dead objects of finalizing pages.
THEOREM FinalizesDead == Spec => FinalizesTheDead
<1>1. Inv /\ CollectEnd =>
        Finalized(mark) = {<<o[1], o[2]>> : o \in {x \in objs : x[3] \in Fin /\ ~IsMarked(x)}}
  <2> SUFFICES ASSUME Inv, CollectEnd
               PROVE  Finalized(mark) =
                 {<<o[1], o[2]>> : o \in {x \in objs : x[3] \in Fin /\ ~IsMarked(x)}}
    OBVIOUS
  <2> USE DEF Inv
  <2> DEFINE Dead == {<<o[1], o[2]>> : o \in {x \in objs : x[3] \in Fin /\ ~IsMarked(x)}}
  <2>1. \A c \in Fin : \A p \in PagesOf(c) : inuse[p] = GrainsOf(p)
    <3>1. \A c \in Cursor : freeMask[c] = {}
      BY DEF CollectEnd, CollectOK
    <3> SUFFICES ASSUME NEW c \in Fin, NEW p \in PagesOf(c)
                 PROVE  inuse[p] = GrainsOf(p)
      OBVIOUS
    <3>2. inuse[p] = GrainsOf(p) \union (IF page[c] = p THEN freeMask[c] ELSE {})
      BY DEF InUseOK
    <3>3. freeMask[c] = {}
      BY <3>1, PageAssumption
    <3> QED
      BY <3>2, <3>3
  <2>2. ASSUME NEW b \in Finalized(mark) PROVE b \in Dead
    <3>1. b \in FinPages \X Grain /\ b[2] \in inuse[b[1]] /\ b[2] \notin mark[b[1]]
      BY DEF Finalized
    <3>2. PICK c \in Fin : b[1] \in PagesOf(c)
      BY <3>1 DEF FinPages
    <3>3. b[2] \in GrainsOf(b[1])
      BY <2>1, <3>1, <3>2
    <3>4. <<b[1], b[2], c>> \in objs
      BY <3>2, <3>3, ObjectAt, PageAssumption
    <3>5. PICK x \in objs : x[1] = b[1] /\ x[2] = b[2] /\ x[3] = c
      BY <3>4
    <3>6. b = <<x[1], x[2]>> /\ ~IsMarked(x)
      BY <3>1, <3>5 DEF IsMarked
    <3> QED
      BY <3>2, <3>5, <3>6
  <2>3. ASSUME NEW b \in Dead PROVE b \in Finalized(mark)
    <3>1. PICK x \in objs : b = <<x[1], x[2]>> /\ x[3] \in Fin /\ x[2] \notin mark[x[1]]
      BY DEF IsMarked
    <3>2. x[1] \in PagesOf(x[3]) /\ x[2] \in Grain
      BY <3>1, ObjectAt DEF PagesPartitioned
    <3>3. x[2] \in inuse[x[1]]
      BY <2>1, <3>1, <3>2 DEF GrainsOf
    <3>4. x[1] \in FinPages
      BY <3>1, <3>2 DEF FinPages
    <3> QED
      BY <3>1, <3>2, <3>3, <3>4 DEF Finalized
  <2> HIDE DEF Dead
  <2>4. Finalized(mark) = Dead
    BY <2>2, <2>3
  <2> QED
    BY <2>4 DEF Dead
<1> QED
  BY <1>1, Invariant, PTL DEF FinalizesTheDead

\* Only a step that takes a new page makes a list longer.
LEMMA OnlyNewGrows ==
  ASSUME Inv, [Next]_vars, NEW c \in Cursor, Len(pages'[c]) > Len(pages[c])
  PROVE  \E p \in Page : RefillNew(c, p)
<1> USE DEF Inv
<1>1. Len(pages[c]) \in Nat
  BY PagesAre
<1>2. pages' # pages
  BY <1>1
<1>3. \A d \in Cursor : ~Pop(d) /\ ~RefillStash(d) /\ ~RefillPage(d) /\ ~RefillNext(d)
                        /\ ~RefillDeclines(d)
  BY <1>2 DEF Pop, RefillStash, RefillPage, RefillNext, RefillDeclines
<1>4. ~FlipLimit /\ ~CollectBegin /\ \A S \in SUBSET objs : ~Mark(S)
  BY <1>2 DEF FlipLimit, CollectBegin, Mark, cursors
<1>5. ~CollectEnd
  <2> SUFFICES ASSUME CollectEnd PROVE FALSE
    OBVIOUS
  <2>1. Len(pages'[c]) <= Len(pages[c]) /\ Len(pages'[c]) \in Nat
    BY KeptPages
  <2> QED
    BY <1>1, <2>1
<1>6. ~Reset
  <2> SUFFICES ASSUME Reset PROVE FALSE
    OBVIOUS
  <2>1. pages'[c] = <<>>
    BY DEF Reset, ResetCursors
  <2> QED
    BY <1>1, <2>1
<1>7. pages = pages' \/ Next
  BY DEF vars, cursors
<1>8. PICK d \in Cursor, p \in Page : RefillNew(d, p)
  BY <1>2, <1>3, <1>4, <1>5, <1>6, <1>7 DEF Next
<1>9. d = c
  <2>1. d # c => pages'[c] = pages[c]
    BY <1>8 DEF RefillNew, TypeOK
  <2> QED
    BY <2>1, <1>1
<1> QED
  BY <1>8, <1>9

\* A class takes another page only when every block of the pages it has holds
\* an object.
THEOREM GrowsWhenFull == Spec => GrowsOnlyWhenFull
<1>1. Inv /\ [Next]_vars =>
        \A c \in Cursor : Len(pages'[c]) > Len(pages[c]) =>
          \A p \in PagesOf(c), g \in Starts(c) : <<p, g, c>> \in objs
  <2> SUFFICES ASSUME Inv, [Next]_vars, NEW c \in Cursor, Len(pages'[c]) > Len(pages[c]),
                      NEW q \in PagesOf(c), NEW g \in Starts(c)
               PROVE  <<q, g, c>> \in objs
    OBVIOUS
  <2> USE DEF Inv
  <2>1. PICK p \in Page : RefillNew(c, p)
    BY OnlyNewGrows
  <2>2. /\ ~inCollect /\ freeMask[c] = {} /\ stash[c] = {} /\ PageUsedUp(c)
        /\ WithRoom(c) = {}
    BY <2>1 DEF RefillNew, Refilling
  <2>3. CASE q \in RestOf(c)
    <3>1. Full(c, q)
      BY <2>3, <2>2 DEF WithRoom, RestOf
    <3> QED
      BY <3>1, <2>3, FullRest
  <2>4. CASE q \notin RestOf(c)
    BY <2>4, <2>2, BehindPage
  <2> QED
    BY <2>3, <2>4
<1> QED
  BY <1>1, Invariant, PTL DEF Spec, GrowsOnlyWhenFull

-----------------------------------------------------------------------------
(***************************************************************************)
(* The pages' share of jaiHeapBytes is exact (HeapExact).                   *)
(*                                                                          *)
(* The invariant is ChargesOK, on top of Inv: per cursor, the objects and   *)
(* the blocks handed out but not popped are the blocks live at the last     *)
(* collection and those handed out since.  A sum over the cursors is the    *)
(* number of its units, so that what an inductive proof about a sum would   *)
(* show follows from counting them.                                         *)
(***************************************************************************)

(* Sums.                                                                    *)

LEMMA Distribute ==
  ASSUME NEW a \in Int, NEW b \in Int, NEW n \in Int
  PROVE  (a + b) * n = a * n + b * n /\ (a - b) * n = a * n - b * n
OBVIOUS

LEMMA UnitIs ==
  ASSUME NEW f, NEW u
  PROVE  u \in Units(f) <=>
           u = <<u[1], u[2]>> /\ u[1] \in Cursor /\ u[2] \in 1 .. f[u[1]]
<1>1. u \in Units(f) <=> \E c \in Cursor : u \in {c} \X (1 .. f[c])
  BY DEF Units
<1>2. \A c : u \in {c} \X (1 .. f[c]) <=> u = <<u[1], u[2]>> /\ u[1] = c /\ u[2] \in 1 .. f[c]
  OBVIOUS
<1> QED
  BY <1>1, <1>2

LEMMA TotalSame ==
  ASSUME NEW f, NEW g, \A c \in Cursor : f[c] = g[c]
  PROVE  Total(f) = Total(g)
BY DEF Total, Units

LEMMA TotalZero ==
  ASSUME NEW f, \A c \in Cursor : f[c] = 0
  PROVE  Total(f) = 0
<1>1. Units(f) = {}
  BY DEF Units
<1> QED
  BY <1>1, FS_EmptySet DEF Total

LEMMA TotalOne ==
  ASSUME NEW c \in Cursor, NEW n \in Nat
  PROVE  Total([x \in Cursor |-> IF x = c THEN n ELSE 0]) = n
<1> DEFINE f == [x \in Cursor |-> IF x = c THEN n ELSE 0]
<1>1. f[c] = n /\ \A x \in Cursor : x # c => f[x] = 0
  OBVIOUS
<1> HIDE DEF f
<1>2. \A u : u \in Units(f) <=> u \in {c} \X (1 .. n)
  BY <1>1, UnitIs
<1>3. Units(f) = {c} \X (1 .. n)
  BY <1>2
<1>4. IsFiniteSet({c}) /\ Cardinality({c}) = 1
  BY FS_Singleton
<1>7. IsFiniteSet(1 .. n) /\ Cardinality(1 .. n) = n
  BY UpToFinite
<1>5. Cardinality({c} \X (1 .. n)) = Cardinality({c}) * Cardinality(1 .. n)
  BY <1>4, <1>7, FS_Product
<1>6. Total(f) = n
  BY <1>3, <1>4, <1>5, <1>7 DEF Total
<1> QED
  BY <1>6 DEF f

LEMMA TotalAtMost ==
  ASSUME NEW f, NEW g, \A c \in Cursor : f[c] \in Int /\ g[c] \in Int /\ f[c] <= g[c]
  PROVE  Total(f) <= Total(g)
<1>1. \A u : u \in Units(f) => u \in Units(g)
  BY UnitIs
<1>2. IsFiniteSet(Units(g))
  BY TotalNat
<1> QED
  BY <1>1, <1>2, FS_Subset DEF Total

LEMMA TotalAdd ==
  ASSUME NEW f, NEW g, NEW h,
         \A c \in Cursor : g[c] \in Nat /\ h[c] \in Nat /\ f[c] = g[c] + h[c]
  PROVE  Total(f) = Total(g) + Total(h)
<1> DEFINE A == Units(f) \ Units(g)
           Shift == [u \in Units(h) |-> <<u[1], u[2] + g[u[1]]>>]
<1>1. \A u : u \in A <=> /\ u = <<u[1], u[2]>> /\ u[1] \in Cursor
                         /\ u[2] \in g[u[1]] + 1 .. g[u[1]] + h[u[1]]
  BY UnitIs
<1>2. \A u \in Units(h) : Shift[u] \in A
  <2> SUFFICES ASSUME NEW u \in Units(h) PROVE <<u[1], u[2] + g[u[1]]>> \in A
    OBVIOUS
  <2>1. u[1] \in Cursor /\ u[2] \in 1 .. h[u[1]]
    BY UnitIs
  <2>2. u[2] + g[u[1]] \in g[u[1]] + 1 .. g[u[1]] + h[u[1]]
    BY <2>1
  <2> HIDE DEF A
  <2> QED
    BY <2>1, <2>2, <1>1
<1>3. ASSUME NEW u \in Units(h), NEW v \in Units(h), Shift[u] = Shift[v]
      PROVE  u = v
  <2>1. /\ u = <<u[1], u[2]>> /\ u[1] \in Cursor /\ u[2] \in 1 .. h[u[1]]
        /\ v = <<v[1], v[2]>> /\ v[1] \in Cursor /\ v[2] \in 1 .. h[v[1]]
    BY UnitIs
  <2>2. u[1] = v[1] /\ u[2] + g[u[1]] = v[2] + g[v[1]]
    BY <1>3
  <2>3. u[2] = v[2]
    BY <2>1, <2>2
  <2> QED
    BY <2>1, <2>2, <2>3
<1>4. ASSUME NEW v \in A PROVE \E u \in Units(h) : Shift[u] = v
  <2> DEFINE u == <<v[1], v[2] - g[v[1]]>>
  <2>1. v = <<v[1], v[2]>> /\ v[1] \in Cursor /\ v[2] \in g[v[1]] + 1 .. g[v[1]] + h[v[1]]
    BY <1>1
  <2>2. v[2] - g[v[1]] \in 1 .. h[v[1]] /\ (v[2] - g[v[1]]) + g[v[1]] = v[2]
    BY <2>1
  <2>3. u = <<u[1], u[2]>> /\ u[1] = v[1] /\ u[2] = v[2] - g[v[1]]
    OBVIOUS
  <2> HIDE DEF u
  <2>4. u \in Units(h)
    BY <2>1, <2>2, <2>3, UnitIs
  <2>5. Shift[u] = v
    BY <2>1, <2>2, <2>3, <2>4
  <2> QED
    BY <2>4, <2>5
<1>5. Shift \in Bijection(Units(h), A)
  <2>1. Shift \in [Units(h) -> A]
    BY <1>2
  <2> HIDE DEF A, Shift
  <2> QED
    BY <2>1, <1>3, <1>4, Fun_IsBij
<1>6. /\ IsFiniteSet(Units(g)) /\ Total(g) \in Nat
      /\ IsFiniteSet(Units(h)) /\ Total(h) \in Nat
  BY TotalNat
<1>7. IsFiniteSet(A) /\ Cardinality(A) = Total(h)
  <2> HIDE DEF A, Shift
  <2> QED
    BY <1>5, <1>6, FS_Bijection DEF ExistsBijection, Total
<1>8. Units(f) = Units(g) \union A
  <2>1. \A u : u \in Units(g) => u \in Units(f)
    BY UnitIs
  <2> QED
    BY <2>1
<1>9. Units(g) \intersect A = {}
  OBVIOUS
<1>10. Cardinality(Units(g) \union A) = Cardinality(Units(g)) + Cardinality(A) - Cardinality({})
  <2> HIDE DEF A
  <2> QED
    BY <1>6, <1>7, <1>9, FS_Union
<1> QED
  BY <1>6, <1>7, <1>8, <1>10, FS_EmptySet DEF Total

-----------------------------------------------------------------------------
(* Counting the blocks of a class.                                          *)

\* Blocks of a bitmap that only has objects are as many as the objects in it.
LEMMA Counted ==
  ASSUME Inv, IsFiniteSet(objs), NEW c \in Cursor, NEW m,
         \A p \in Page : m[p] \subseteq GrainsOf(p),
         NEW B, B = {b \in PagesOf(c) \X Grain : b[2] \in m[b[1]]},
         NEW O, O = {o \in Objs(c) : o[2] \in m[o[1]]}
  PROVE  /\ IsFiniteSet(B) /\ IsFiniteSet(O) /\ Cardinality(B) \in Nat
         /\ Cardinality(B) = Cardinality(O)
         /\ IsFiniteSet(Objs(c)) /\ Cardinality(Objs(c)) \in Nat
         /\ Cardinality(B) <= Cardinality(Objs(c))
<1> USE DEF Inv
<1> DEFINE Place == [o \in O |-> <<o[1], o[2]>>]
<1>1. IsFiniteSet(Objs(c)) /\ Cardinality(Objs(c)) \in Nat
  BY FS_Subset, FS_CardinalityType DEF Objs
<1>2. IsFiniteSet(O) /\ Cardinality(O) \in Nat /\ Cardinality(O) <= Cardinality(Objs(c))
  BY <1>1, FS_Subset, FS_CardinalityType
<1>3. \A o \in O : /\ o = <<o[1], o[2], c>> /\ o[1] \in PagesOf(c) /\ o[2] \in Grain
                   /\ o[2] \in m[o[1]]
  BY ObjectAt DEF Objs, PagesPartitioned
<1>4. Place \in [O -> B]
  BY <1>3
<1>5. \A o, x \in O : Place[o] = Place[x] => o = x
  <2> SUFFICES ASSUME NEW o \in O, NEW x \in O, Place[o] = Place[x] PROVE o = x
    OBVIOUS
  <2>1. o[1] = x[1] /\ o[2] = x[2]
    OBVIOUS
  <2>2. o = <<o[1], o[2], c>> /\ x = <<x[1], x[2], c>>
    BY <1>3
  <2> QED
    BY <2>1, <2>2
<1>6. \A b \in B : \E o \in O : Place[o] = b
  <2> SUFFICES ASSUME NEW b \in B PROVE \E o \in O : Place[o] = b
    OBVIOUS
  <2>1. /\ b = <<b[1], b[2]>> /\ b[1] \in PagesOf(c) /\ b[1] \in Page
        /\ b[2] \in m[b[1]] /\ b[2] \in GrainsOf(b[1])
    BY PagesAre
  <2>2. <<b[1], b[2], c>> \in objs
    BY <2>1, ObjectAt
  <2>3. PICK o \in objs : o[1] = b[1] /\ o[2] = b[2] /\ o[3] = c
    BY <2>2
  <2>4. o \in O
    BY <2>1, <2>3 DEF Objs
  <2> QED
    BY <2>1, <2>3, <2>4
<1>7. IsFiniteSet(B) /\ Cardinality(B) = Cardinality(O)
  <2> HIDE DEF Place
  <2>1. Place \in Bijection(O, B)
    BY <1>4, <1>5, <1>6, Fun_IsBij
  <2> QED
    BY <2>1, <1>2, FS_Bijection DEF ExistsBijection
<1> QED
  BY <1>1, <1>2, <1>7

LEMMA LiveCounted ==
  ASSUME Inv, ChargesOK, NEW c \in Cursor
  PROVE  /\ IsFiniteSet(LiveIn(c)) /\ Cardinality(LiveIn(c)) \in Nat
         /\ IsFiniteSet(Objs(c)) /\ Cardinality(Objs(c)) \in Nat
         /\ Cardinality(LiveIn(c)) <= Cardinality(Objs(c))
<1>1. PICK m : m = live
  OBVIOUS
<1>2. \A p \in Page : m[p] \subseteq GrainsOf(p)
  BY <1>1 DEF Inv, BlocksOK
<1>3. PICK B, O : /\ B = {b \in PagesOf(c) \X Grain : b[2] \in m[b[1]]}
                  /\ O = {o \in Objs(c) : o[2] \in m[o[1]]}
  OBVIOUS
<1>4. LiveIn(c) = B
  BY <1>1, <1>3 DEF LiveIn
<1>5. /\ IsFiniteSet(B) /\ Cardinality(B) \in Nat
      /\ IsFiniteSet(Objs(c)) /\ Cardinality(Objs(c)) \in Nat
      /\ Cardinality(B) <= Cardinality(Objs(c))
  <2>1. IsFiniteSet(objs)
    BY DEF ChargesOK
  <2> QED
    BY <2>1, <1>2, <1>3, Counted
<1> QED
  BY <1>4, <1>5

LEMMA MarkedCounted ==
  ASSUME Inv, ChargesOK, NEW c \in Cursor
  PROVE  /\ IsFiniteSet(MarkedIn(c)) /\ Cardinality(MarkedIn(c)) \in Nat
         /\ Cardinality(MarkedIn(c)) <= Cardinality(Objs(c))
         /\ Cardinality(MarkedIn(c)) = Cardinality({o \in Objs(c) : IsMarked(o)})
<1>1. PICK m : m = mark
  OBVIOUS
<1>2. \A p \in Page : m[p] \subseteq GrainsOf(p)
  BY <1>1 DEF Inv, BlocksOK
<1>3. PICK B, O : /\ B = {b \in PagesOf(c) \X Grain : b[2] \in m[b[1]]}
                  /\ O = {o \in Objs(c) : o[2] \in m[o[1]]}
  OBVIOUS
<1>4. MarkedIn(c) = B /\ {o \in Objs(c) : IsMarked(o)} = O
  BY <1>1, <1>3 DEF MarkedIn, IsMarked
<1> QED
  BY <1>2, <1>3, <1>4, Counted DEF ChargesOK

\* What each share is worth, cursor by cursor.
LEMMA Shares ==
  ASSUME Inv, ChargesOK, ~inCollect, NEW c \in Cursor
  PROVE  /\ Unpopped[c] \in Nat /\ Occupied[c] \in Nat /\ LiveShare[c] \in Nat
         /\ HandedShare[c] \in Nat /\ Used[c] \in Nat
         /\ LiveShare[c] + HandedShare[c] = Occupied[c] + Unpopped[c]
         /\ Used[c] + Unpopped[c] = HandedShare[c]
<1> DEFINE C == Class[c]
           nf == Cardinality(freeMask[c])
           no == Cardinality(Objs(c))
           nl == Cardinality(LiveIn(c))
           nh == handedOut[c]
<1>1. /\ nf \in Nat /\ no \in Nat /\ nl \in Nat /\ nh \in Nat /\ C \in Nat
      /\ no + nf = nl + nh /\ nl <= no
  BY LiveCounted, SharesInt, Constants DEF Inv, ChargesOK, TypeOK
<1>2. /\ Unpopped[c] = nf * C /\ Occupied[c] = no * C /\ LiveShare[c] = nl * C
      /\ HandedShare[c] = nh * C /\ Used[c] = nh * C - Unpopped[c]
  BY DEF Unpopped, Occupied, LiveShare, HandedShare, Used
<1> HIDE DEF C, nf, no, nl, nh
<1>3. nf * C \in Nat /\ no * C \in Nat /\ nl * C \in Nat /\ nh * C \in Nat
  BY <1>1
<1>4. (no + nf) * C = no * C + nf * C /\ (nl + nh) * C = nl * C + nh * C
  BY <1>1, Distribute
<1>5. nl * C <= no * C
  <2>1. (no - nl) * C = no * C - nl * C /\ no - nl \in Nat
    BY <1>1, Distribute
  <2>2. (no - nl) * C >= 0
    BY <2>1, <1>1
  <2> QED
    BY <2>1, <2>2, <1>3
<1> QED
  BY <1>1, <1>2, <1>3, <1>4, <1>5

\* Between collections the charges are the objects and what waits to be popped.
LEMMA ChargesExact ==
  ASSUME Inv, ChargesOK, ~inCollect
  PROVE  /\ heap = Total(Occupied) + Total(Unpopped)
         /\ liveBytes + Total(Used) = Total(Occupied)
         /\ Total(Occupied) \in Nat /\ Total(Unpopped) \in Nat
<1>1. PICK un, oc, lv, hd, us :
        un = Unpopped /\ oc = Occupied /\ lv = LiveShare /\ hd = HandedShare /\ us = Used
  OBVIOUS
<1>2. \A c \in Cursor : /\ un[c] \in Nat /\ oc[c] \in Nat /\ lv[c] \in Nat
                        /\ hd[c] \in Nat /\ us[c] \in Nat
                        /\ lv[c] + hd[c] = oc[c] + un[c] /\ us[c] + un[c] = hd[c]
  BY <1>1, Shares
<1> DEFINE all == [c \in Cursor |-> oc[c] + un[c]]
<1>3. Total(all) = Total(oc) + Total(un)
  <2>1. \A c \in Cursor : all[c] = oc[c] + un[c]
    OBVIOUS
  <2> HIDE DEF all
  <2> QED
    BY <2>1, <1>2, TotalAdd
<1>4. Total(all) = Total(lv) + Total(hd)
  <2>1. \A c \in Cursor : all[c] = lv[c] + hd[c]
    BY <1>2
  <2> HIDE DEF all
  <2> QED
    BY <2>1, <1>2, TotalAdd
<1>5. Total(oc) = Total(lv) + Total(us)
  <2>1. \A c \in Cursor : oc[c] = lv[c] + us[c]
    BY <1>2
  <2> QED
    BY <2>1, <1>2, TotalAdd
<1>6. Total(oc) \in Nat /\ Total(un) \in Nat
  BY <1>2, TotalNat
<1>7. liveBytes = Total(lv) /\ heap = liveBytes + Total(hd)
  BY <1>1 DEF ChargesOK
<1> HIDE DEF all
<1> QED
  BY <1>1, <1>3, <1>4, <1>5, <1>6, <1>7

-----------------------------------------------------------------------------
(* The steps.                                                               *)

LEMMA InitCharges == Init => ChargesOK
<1> SUFFICES ASSUME Init PROVE ChargesOK
  OBVIOUS
<1>1. \A c \in Cursor : Objs(c) = {} /\ LiveIn(c) = {} /\ freeMask[c] = {} /\ handedOut[c] = 0
  BY DEF Init, Objs, LiveIn, PagesOf
<1>2. /\ \A c \in Cursor : LiveShare[c] = 0 /\ HandedShare[c] = 0
  <2> SUFFICES ASSUME NEW c \in Cursor PROVE LiveShare[c] = 0 /\ HandedShare[c] = 0
    OBVIOUS
  <2>1. Class[c] \in Nat
    BY Constants
  <2> QED
    BY <2>1, <1>1, FS_EmptySet DEF LiveShare, HandedShare
<1>3. Total(LiveShare) = 0 /\ Total(HandedShare) = 0
  BY <1>2, TotalZero
<1>4. /\ ~inCollect /\ liveBytes = 0 /\ heap = 0 /\ IsFiniteSet(objs)
  BY FS_EmptySet DEF Init
<1>5. \A c \in Cursor : Cardinality(Objs(c)) + Cardinality(freeMask[c])
                         = Cardinality(LiveIn(c)) + handedOut[c]
  BY <1>1, FS_EmptySet
<1> QED
  BY <1>3, <1>4, <1>5 DEF ChargesOK

\* A step that leaves the counted sets and the counters alone.
LEMMA QuietCharges ==
  ASSUME Inv, ChargesOK,
         UNCHANGED <<pages, freeMask, handedOut, live, heap, liveBytes, inUseAtBegin,
                     inCollect, objs>>
  PROVE  ChargesOK'
<1>1. \A c \in Cursor : Objs(c)' = Objs(c) /\ LiveIn(c)' = LiveIn(c)
  BY DEF Objs, LiveIn, PagesOf
<1>2. /\ LiveShare' = LiveShare /\ HandedShare' = HandedShare /\ Occupied' = Occupied
  BY <1>1 DEF LiveShare, HandedShare, Occupied
<1>3. /\ Total(LiveShare)' = Total(LiveShare) /\ Total(HandedShare)' = Total(HandedShare)
      /\ Total(Occupied)' = Total(Occupied)
  BY <1>2 DEF Total, Units
<1> QED
  BY <1>1, <1>3 DEF ChargesOK

LEMMA PopCharges ==
  ASSUME Inv, ChargesOK, NEW c \in Cursor, Pop(c)
  PROVE  ChargesOK'
<1> USE DEF Inv
<1>1. PICK g, p : g = Min(freeMask[c]) /\ p = page[c]
  OBVIOUS
<1>2. g \in freeMask[c]
  <2>1. freeMask[c] \in SUBSET Nat /\ freeMask[c] # {}
    BY Constants DEF TypeOK, Pop
  <2> QED
    BY <2>1, <1>1, MinIn
<1>3. /\ freeMask' = [freeMask EXCEPT ![c] = @ \ {g}]
      /\ objs' = objs \union {<<p, g, c>>} /\ <<p, g, c>> \notin objs
      /\ UNCHANGED <<pages, handedOut, live, heap, liveBytes, inCollect>> /\ ~inCollect
  BY <1>1, <1>2 DEF Pop, PendingOK, bitmaps, counts
<1>4. \A d \in Cursor : LiveIn(d)' = LiveIn(d)
  BY <1>3 DEF LiveIn, PagesOf
<1>5. /\ Total(LiveShare)' = Total(LiveShare) /\ Total(HandedShare)' = Total(HandedShare)
  <2>1. LiveShare' = LiveShare /\ HandedShare' = HandedShare
    BY <1>3, <1>4 DEF LiveShare, HandedShare
  <2> QED
    BY <2>1 DEF Total, Units
<1>6. IsFiniteSet(objs')
  BY <1>3, FS_AddElement DEF ChargesOK
<1>7. ASSUME NEW d \in Cursor
      PROVE  Cardinality(Objs(d)') + Cardinality(freeMask'[d])
               = Cardinality(LiveIn(d)) + handedOut[d]
  <2>1. Cardinality(Objs(d)) + Cardinality(freeMask[d]) = Cardinality(LiveIn(d)) + handedOut[d]
    BY <1>3 DEF ChargesOK
  <2>2. CASE d # c
    <3>1. Objs(d)' = Objs(d) /\ freeMask'[d] = freeMask[d]
      BY <2>2, <1>3 DEF Objs, TypeOK
    <3> QED
      BY <2>1, <3>1
  <2>3. CASE d = c
    <3>1. Objs(c)' = Objs(c) \union {<<p, g, c>>} /\ <<p, g, c>> \notin Objs(c)
      BY <1>3 DEF Objs
    <3>2. Cardinality(Objs(c)') = Cardinality(Objs(c)) + 1
      BY <3>1, LiveCounted, FS_AddElement
    <3>3. freeMask'[c] = freeMask[c] \ {g}
      BY <1>3 DEF TypeOK
    <3>4. Cardinality(freeMask'[c]) = Cardinality(freeMask[c]) - 1
      BY <3>3, <1>2, SharesInt, FS_RemoveElement
    <3>5. Cardinality(Objs(c)) \in Nat /\ Cardinality(freeMask[c]) \in Nat
      BY LiveCounted, SharesInt
    <3> QED
      BY <2>1, <2>3, <3>2, <3>4, <3>5
  <2> QED
    BY <2>2, <2>3
<1> QED
  BY <1>3, <1>4, <1>5, <1>6, <1>7 DEF ChargesOK

LEMMA ServesCharges ==
  ASSUME Inv, ChargesOK, NEW c \in Cursor, NEW p \in Page, NEW w \in Word, NEW m,
         Serves(c, p, w, m)
  PROVE  ChargesOK'
<1> USE DEF Inv
<1>1. PICK g, take : g = Min(m) /\ take = m \ HeldBack(m)
  OBVIOUS
<1>2. m \subseteq Grain /\ IsFiniteSet(m) /\ m # {}
  <2>1. m \subseteq Grain /\ m # {}
    BY DEF Serves, WordStarts, Starts
  <2> QED
    BY <2>1, Constants, FS_Subset
<1>3. g \in m
  BY <1>1, <1>2, MinIn, Constants
<1>4. take \subseteq m /\ g \in take
  BY <1>1, <1>3 DEF HeldBack
<1>5. PICK n : n = Cardinality(take) /\ n \in Nat /\ IsFiniteSet(take)
  BY <1>2, <1>4, FS_Subset, FS_CardinalityType
<1>6. /\ handedOut' = [handedOut EXCEPT ![c] = @ + n]
      /\ heap' = heap + n * Class[c]
      /\ freeMask' = [freeMask EXCEPT ![c] = take \ {g}] /\ freeMask[c] = {}
      /\ objs' = objs \union {<<p, g, c>>} /\ <<p, g, c>> \notin objs
      /\ UNCHANGED <<live, liveBytes, inCollect>> /\ ~inCollect
  BY <1>1, <1>3, <1>5 DEF Serves, HandOut
<1>7. \A d \in Cursor : LiveIn(d)' = LiveIn(d)
  <2>1. \A d \in Cursor : d # c => PagesOf(d)' = PagesOf(d)
    BY DEF Serves, PagesOf
  <2>2. \A d \in Cursor : d # c => LiveIn(d)' = LiveIn(d)
    BY <2>1, <1>6 DEF LiveIn
  <2>3. PagesOf(c)' = PagesOf(c) \union {p}
    BY DEF Serves
  <2>4. p \notin PagesOf(c) => live[p] = {}
    <3> SUFFICES ASSUME p \notin PagesOf(c) PROVE live[p] = {}
      OBVIOUS
    <3>1. p \in pool \union fresh
      BY DEF Serves
    <3>2. \A d \in Cursor : p \notin PagesOf(d)
      BY <3>1 DEF PagesPartitioned
    <3>3. GrainsOf(p) = {}
      BY <3>2, ObjectAt DEF GrainsOf, PagesPartitioned
    <3> QED
      BY <3>3 DEF BlocksOK
  <2>5. LiveIn(c)' = LiveIn(c)
    BY <2>3, <2>4, <1>6 DEF LiveIn
  <2> QED
    BY <2>2, <2>5
<1>8. Total(LiveShare)' = Total(LiveShare)
  <2>1. LiveShare' = LiveShare
    BY <1>7 DEF LiveShare
  <2> QED
    BY <2>1 DEF Total, Units
<1>9. Total(HandedShare)' = Total(HandedShare) + n * Class[c]
  <2>1. PICK old, new : old = HandedShare /\ new = HandedShare'
    OBVIOUS
  <2> DEFINE d == [x \in Cursor |-> IF x = c THEN n * Class[c] ELSE 0]
  <2>2. n * Class[c] \in Nat
    BY <1>5, Constants
  <2>3. Total(d) = n * Class[c]
    BY <2>2, TotalOne
  <2>4. ASSUME NEW x \in Cursor
        PROVE  old[x] \in Nat /\ d[x] \in Nat /\ new[x] = old[x] + d[x]
    <3>1. handedOut[x] \in Nat /\ Class[x] \in Nat
      BY Constants DEF TypeOK
    <3>2. old[x] = handedOut[x] * Class[x] /\ new[x] = handedOut'[x] * Class[x]
      BY <2>1 DEF HandedShare
    <3>3. handedOut[x] * Class[x] \in Nat
      BY <3>1
    <3>4. (handedOut[x] + n) * Class[x] = handedOut[x] * Class[x] + n * Class[x]
      BY <3>1, <1>5, Distribute
    <3>5. handedOut'[x] = IF x = c THEN handedOut[x] + n ELSE handedOut[x]
      BY <1>6 DEF TypeOK
    <3>6. d[x] = IF x = c THEN n * Class[c] ELSE 0
      OBVIOUS
    <3> HIDE DEF d
    <3>7. CASE x = c
      BY <3>2, <3>3, <3>4, <3>5, <3>6, <3>7, <2>2
    <3>8. CASE x # c
      BY <3>2, <3>3, <3>5, <3>6, <3>8
    <3> QED
      BY <3>7, <3>8
  <2> HIDE DEF d
  <2>5. Total(new) = Total(old) + Total(d)
    BY <2>4, TotalAdd
  <2>6. Total(HandedShare)' = Total(new)
    BY <2>1 DEF Total, Units
  <2> QED
    BY <2>1, <2>3, <2>5, <2>6
<1>10. heap' = liveBytes' + Total(HandedShare)'
  <2>1. heap = liveBytes + Total(HandedShare) /\ liveBytes \in Nat
    BY <1>6 DEF ChargesOK, TypeOK
  <2>2. n * Class[c] \in Nat
    BY <1>5, Constants
  <2>3. Total(HandedShare) \in Nat
    BY Shares, <1>6, TotalNat
  <2> QED
    BY <2>1, <2>2, <2>3, <1>6, <1>9
<1>11. IsFiniteSet(objs')
  BY <1>6, FS_AddElement DEF ChargesOK
<1>12. ASSUME NEW d \in Cursor
       PROVE  Cardinality(Objs(d)') + Cardinality(freeMask'[d])
                = Cardinality(LiveIn(d)) + handedOut'[d]
  <2>1. Cardinality(Objs(d)) + Cardinality(freeMask[d]) = Cardinality(LiveIn(d)) + handedOut[d]
    BY <1>6 DEF ChargesOK
  <2>2. CASE d # c
    <3>1. Objs(d)' = Objs(d) /\ freeMask'[d] = freeMask[d] /\ handedOut'[d] = handedOut[d]
      BY <2>2, <1>6 DEF Objs, TypeOK
    <3> QED
      BY <2>1, <3>1
  <2>3. CASE d = c
    <3>1. Objs(c)' = Objs(c) \union {<<p, g, c>>} /\ <<p, g, c>> \notin Objs(c)
      BY <1>6 DEF Objs
    <3>2. Cardinality(Objs(c)') = Cardinality(Objs(c)) + 1
      BY <3>1, LiveCounted, FS_AddElement
    <3>3. freeMask'[c] = take \ {g} /\ handedOut'[c] = handedOut[c] + n
      BY <1>6 DEF TypeOK
    <3>4. Cardinality(freeMask'[c]) = n - 1
      BY <3>3, <1>4, <1>5, FS_RemoveElement
    <3>5. /\ Cardinality(Objs(c)) \in Nat /\ Cardinality(freeMask[c]) = 0
          /\ Cardinality(LiveIn(c)) \in Nat /\ handedOut[c] \in Nat
      BY <1>6, LiveCounted, FS_EmptySet DEF TypeOK
    <3> QED
      BY <2>1, <2>3, <3>2, <3>3, <3>4, <3>5, <1>5
  <2> QED
    BY <2>2, <2>3
<1> QED
  BY <1>6, <1>7, <1>8, <1>10, <1>11, <1>12 DEF ChargesOK

\* What was charged ahead and never popped is taken back.
LEMMA CollectBeginCharges ==
  ASSUME Inv, ChargesOK, CollectBegin
  PROVE  ChargesOK'
<1>1. PICK oc, un : oc = Total(Occupied) /\ un = Total(Unpopped)
  OBVIOUS
<1>2. /\ ~inCollect /\ inCollect' /\ objs' = objs
      /\ heap' = Minus(heap, un) /\ inUseAtBegin' = liveBytes + Total(Used)
  BY <1>1 DEF CollectBegin, Uncharged
<1>3. heap = oc + un /\ liveBytes + Total(Used) = oc /\ oc \in Nat /\ un \in Nat
  BY <1>1, <1>2, ChargesExact
<1>4. heap' = oc /\ inUseAtBegin' = oc
  BY <1>2, <1>3 DEF Minus
<1>5. Total(Occupied)' = oc
  BY <1>1, <1>2 DEF Total, Units, Occupied, Objs
<1> QED
  BY <1>2, <1>4, <1>5 DEF ChargesOK


\* After a collection nothing is charged ahead, and the objects are the blocks
\* that are live in their pages.
LEMMA NothingAhead ==
  ASSUME \A c \in Cursor : freeMask'[c] = {} /\ handedOut'[c] = 0,
         \A c \in Cursor : Cardinality(Objs(c)') = Cardinality(LiveIn(c)'),
         IsFiniteSet(objs'), ~inCollect',
         liveBytes' = Total(LiveShare)', heap' = liveBytes', liveBytes' \in Nat
  PROVE  ChargesOK'
<1>1. \A c \in Cursor : HandedShare'[c] = 0
  BY Constants DEF HandedShare
<1>2. Total(HandedShare)' = 0
  <2>1. PICK f : f = HandedShare'
    OBVIOUS
  <2>2. Total(f) = 0
    BY <1>1, <2>1, TotalZero
  <2> QED
    BY <2>1, <2>2 DEF Total, Units
<1>3. \A c \in Cursor : Cardinality(freeMask'[c]) = 0
  BY FS_EmptySet
<1>4. \A c \in Cursor : Cardinality(Objs(c)') \in Nat
  BY FS_Subset, FS_CardinalityType DEF Objs
<1>5. heap' = liveBytes' + Total(HandedShare)'
  BY <1>2
<1>6. \A c \in Cursor : Cardinality(Objs(c)') + Cardinality(freeMask'[c])
                          = Cardinality(LiveIn(c)') + handedOut'[c]
  BY <1>3, <1>4
<1> QED
  BY <1>5, <1>6 DEF ChargesOK

\* The charge falls to what survives, and what survives is what is marked.
LEMMA CollectEndCharges ==
  ASSUME Inv, ChargesOK, CollectEnd
  PROVE  ChargesOK'
<1>1. /\ inCollect /\ ~inCollect' /\ live' = mark
      /\ freeMask' = [c \in Cursor |-> {}] /\ handedOut' = [c \in Cursor |-> 0]
      /\ liveBytes' = Total(Stay)
      /\ heap' = Minus(heap, Minus(inUseAtBegin, Total(Stay)))
      /\ objs' = {o \in objs : IsMarked(o)}
  BY DEF CollectEnd, ResetCursors
<1>2. PICK oc, st : oc = Occupied /\ st = Stay
  OBVIOUS
<1>3. \A c \in Cursor : oc[c] \in Nat /\ st[c] \in Nat /\ st[c] <= oc[c]
  <2> SUFFICES ASSUME NEW c \in Cursor
               PROVE  oc[c] \in Nat /\ st[c] \in Nat /\ st[c] <= oc[c]
    OBVIOUS
  <2>1. PICK a, b, k : a = Cardinality(MarkedIn(c)) /\ b = Cardinality(Objs(c)) /\ k = Class[c]
    OBVIOUS
  <2>2. a \in Nat /\ b \in Nat /\ k \in Nat /\ a <= b
    BY <2>1, MarkedCounted, LiveCounted, Constants
  <2>3. st[c] = a * k /\ oc[c] = b * k
    BY <1>2, <2>1 DEF Stay, Occupied
  <2>4. a * k \in Nat /\ b * k \in Nat /\ (b - a) * k = b * k - a * k /\ (b - a) * k >= 0
    BY <2>2, Distribute
  <2> QED
    BY <2>3, <2>4
<1>4. Total(oc) \in Nat /\ Total(st) \in Nat /\ Total(st) <= Total(oc)
  BY <1>3, TotalNat, TotalAtMost
<1>5. heap = Total(oc) /\ inUseAtBegin = Total(oc)
  BY <1>1, <1>2 DEF ChargesOK
<1>6. liveBytes' = Total(st) /\ heap' = Total(st)
  <2>1. heap' = Minus(Total(oc), Minus(Total(oc), Total(st)))
    BY <1>1, <1>2, <1>5
  <2> QED
    BY <1>1, <1>2, <1>4, <2>1 DEF Minus
<1>7. \A c \in Cursor : LiveIn(c)' = MarkedIn(c)
  <2> SUFFICES ASSUME NEW c \in Cursor PROVE LiveIn(c)' = MarkedIn(c)
    OBVIOUS
  <2>1. PagesOf(c)' = PagesOf(c) \ Emptied
    BY KeptPages
  <2>2. \A p : p \in Emptied => mark[p] = {}
    BY DEF Emptied
  <2>3. PICK P, Q, E, m : P = PagesOf(c) /\ Q = PagesOf(c)' /\ E = Emptied /\ m = mark
    OBVIOUS
  <2>4. LiveIn(c)' = {b \in Q \X Grain : b[2] \in m[b[1]]}
    BY <1>1, <2>3 DEF LiveIn
  <2>5. MarkedIn(c) = {b \in P \X Grain : b[2] \in m[b[1]]}
    BY <2>3 DEF MarkedIn
  <2>6. Q = P \ E /\ \A p : p \in E => m[p] = {}
    BY <2>1, <2>2, <2>3
  <2> QED
    BY <2>4, <2>5, <2>6
<1>8. \A c \in Cursor : Objs(c)' = {o \in Objs(c) : IsMarked(o)}
  BY <1>1 DEF Objs
<1>9. \A c \in Cursor : Cardinality(Objs(c)') = Cardinality(LiveIn(c)')
  BY <1>7, <1>8, MarkedCounted
<1>10. IsFiniteSet(objs')
  BY <1>1, FS_Subset DEF ChargesOK
<1>11. Total(LiveShare)' = Total(st)
  <2>1. PICK lv : lv = LiveShare'
    OBVIOUS
  <2>2. \A c \in Cursor : lv[c] = st[c]
    BY <1>2, <1>7, <2>1 DEF LiveShare, Stay
  <2>3. Total(lv) = Total(st)
    BY <2>2, TotalSame
  <2> QED
    BY <2>1, <2>3 DEF Total, Units
<1>12. \A c \in Cursor : freeMask'[c] = {} /\ handedOut'[c] = 0
  BY <1>1
<1> QED
  BY <1>1, <1>4, <1>6, <1>9, <1>10, <1>11, <1>12, NothingAhead

LEMMA ResetCharges ==
  ASSUME Inv, ChargesOK, Reset
  PROVE  ChargesOK'
<1>1. PICK oc, un : oc = Total(Occupied) /\ un = Total(Unpopped)
  OBVIOUS
<1>2. /\ ~inCollect /\ ~inCollect' /\ objs' = {} /\ liveBytes' = 0
      /\ heap' = Minus(Minus(heap, un), liveBytes + Total(Used))
      /\ pages' = [c \in Cursor |-> <<>>]
      /\ freeMask' = [c \in Cursor |-> {}] /\ handedOut' = [c \in Cursor |-> 0]
  BY <1>1 DEF Reset, ResetCursors, Uncharged
<1>3. heap = oc + un /\ liveBytes + Total(Used) = oc /\ oc \in Nat /\ un \in Nat
  BY <1>1, <1>2, ChargesExact
<1>4. heap' = 0
  BY <1>2, <1>3 DEF Minus
<1>5. \A c \in Cursor : Objs(c)' = {} /\ LiveIn(c)' = {}
  BY <1>2 DEF Objs, LiveIn, PagesOf
<1>6. Total(LiveShare)' = 0
  <2>1. PICK lv : lv = LiveShare'
    OBVIOUS
  <2>2. \A c \in Cursor : lv[c] = 0
    <3> SUFFICES ASSUME NEW c \in Cursor PROVE lv[c] = 0
      OBVIOUS
    <3>1. lv[c] = Cardinality(LiveIn(c)') * Class[c]
      BY <2>1 DEF LiveShare
    <3>2. PICK B : B = LiveIn(c)'
      OBVIOUS
    <3>3. B = {}
      BY <3>2, <1>5
    <3>4. Cardinality(B) = 0 /\ Class[c] \in Nat
      BY <3>3, FS_EmptySet, Constants
    <3> QED
      BY <3>1, <3>2, <3>4
  <2>3. Total(lv) = 0
    BY <2>2, TotalZero
  <2> QED
    BY <2>1, <2>3 DEF Total, Units
<1>7. IsFiniteSet(objs')
  BY <1>2, FS_EmptySet
<1>8. \A c \in Cursor : freeMask'[c] = {} /\ handedOut'[c] = 0
  BY <1>2
<1> QED
  BY <1>2, <1>4, <1>5, <1>6, <1>7, <1>8, NothingAhead

LEMMA NextCharges == Inv /\ ChargesOK /\ [Next]_vars => ChargesOK'
<1> SUFFICES ASSUME Inv, ChargesOK, [Next]_vars PROVE ChargesOK'
  OBVIOUS
<1>1. ASSUME NEW c \in Cursor, Pop(c) PROVE ChargesOK'
  BY <1>1, PopCharges
<1>2. ASSUME NEW c \in Cursor, RefillStash(c) PROVE ChargesOK'
  BY <1>2, RefillStashServes, ServesCharges
<1>3. ASSUME NEW c \in Cursor, RefillPage(c) PROVE ChargesOK'
  BY <1>3, RefillPageServes, ServesCharges
<1>4. ASSUME NEW c \in Cursor, RefillNext(c) PROVE ChargesOK'
  BY <1>4, RefillNextServes, ServesCharges
<1>5. ASSUME NEW c \in Cursor, RefillDeclines(c) PROVE ChargesOK'
  BY <1>5, QuietCharges DEF RefillDeclines, bitmaps, counts
<1>6. ASSUME NEW c \in Cursor, NEW p \in Page, RefillNew(c, p) PROVE ChargesOK'
  BY <1>6, RefillNewServes, ServesCharges
<1>7. CASE FlipLimit
  BY <1>7, QuietCharges DEF FlipLimit, cursors, bitmaps, counts
<1>8. CASE CollectBegin
  BY <1>8, CollectBeginCharges
<1>9. CASE CollectEnd
  BY <1>9, CollectEndCharges
<1>10. CASE Reset
  BY <1>10, ResetCharges
<1>11. ASSUME NEW S \in SUBSET objs, Mark(S) PROVE ChargesOK'
  BY <1>11, QuietCharges DEF Mark, cursors, counts
<1>12. CASE UNCHANGED vars
  BY <1>12, QuietCharges DEF vars, cursors, bitmaps, counts
<1> QED
  BY <1>1, <1>2, <1>3, <1>4, <1>5, <1>6, <1>7, <1>8, <1>9, <1>10, <1>11, <1>12 DEF Next

\* Between collections the pages' share of jaiHeapBytes is what the objects and
\* the blocks handed out but not yet popped occupy, after any run of refills,
\* collections and resets: nothing is charged twice or never given back.
THEOREM HeapIsExact == Spec => []HeapExact
<1>1. Inv /\ ChargesOK => HeapExact
  <2> SUFFICES ASSUME Inv, ChargesOK, ~inCollect
               PROVE  heap = Total(Occupied) + Total(Unpopped)
    BY DEF HeapExact
  <2> QED
    BY ChargesExact
<1>2. Spec => []ChargesOK
  BY Invariant, InitCharges, NextCharges, PTL DEF Spec
<1> QED
  BY <1>1, <1>2, Invariant, PTL
=============================================================================
