----------------------------- MODULE PageSpace -----------------------------
(***************************************************************************)
(* The page space of src/src/vm/gc_page.c: where small objects live.        *)
(*                                                                          *)
(* A page serves one size class (a cursor); it keeps a mark, a live and, if *)
(* finalizing, an in-use bitmap over its grains.  The allocator pops block  *)
(* starts from the free mask of the cursor's current word, and Refill finds *)
(* the next word of a page with a block that was not live at the last       *)
(* collection.  A collection takes back what was handed out and never       *)
(* popped, turns the mark bitmap into the live bitmap and sends emptied     *)
(* pages to a pool any class may draw from.                                 *)
(*                                                                          *)
(* Bitmaps are sets of grains, a page list is a sequence in list order, the *)
(* pool a set (its order is for the cache only).  Which objects the marker  *)
(* reaches is the subject of Gc; here any subset of the objects.            *)
(***************************************************************************)
EXTENDS Naturals, FiniteSets, Sequences, FiniteSetsExt

CONSTANTS
  Page,        \* the pages of the reserved range
  NoPage,
  Class,       \* Class[c]: grains per block of cursor c
  Fin,         \* the cursors of jaiPageCursorFin
  Words,       \* JAI_PAGE_WORDS
  WordGrains,  \* grains one bitmap word covers
  Header       \* JAI_PAGE_HEADER_GRAINS

Cursor == DOMAIN Class
Grain  == 0 .. Words * WordGrains - 1
Word   == 0 .. Words - 1

ASSUME PageAssumption ==
  /\ NoPage \notin Page
  /\ Words \in Nat \ {0} /\ WordGrains \in Nat \ {0} /\ Header \in Nat
  /\ Class \in Seq(Nat \ {0})
  /\ Fin \subseteq Cursor
  /\ \A c \in Cursor : Header + Class[c] <= Words * WordGrains

VARIABLES
  pool,         \* gPool: empty pages of no class
  fresh,        \* the pages gCarve has not come to
  pages,        \* [Cursor -> Seq(Page)]: JaiPageCursor.pages
  rest,         \* [Cursor -> Seq(Page)]: the part of it from nextPage on
  page,         \* [Cursor -> Page or NoPage]: the page of the current word
  word,         \* [Cursor -> Word]: the current word
  freeMask,     \* [Cursor -> SUBSET Grain]
  stash,        \* [Cursor -> SUBSET Grain]
  handedOut,    \* [Cursor -> Nat]
  mark, live, inuse,  \* [Page -> SUBSET Grain]
  heap,         \* jaiHeapBytes, the pages' share, in grains
  liveBytes,    \* gLiveBytes
  inUseAtBegin, \* gInUseAtBegin
  limitZero,    \* jaiGCLimit = 0: stress mode or a disabled collector
  inCollect,    \* jaiGCInCollect
  objs          \* history: <<page, grain, cursor>> of every object

cursors == <<pages, rest, page, word, freeMask, stash, handedOut>>
bitmaps == <<mark, live, inuse>>
counts  == <<heap, liveBytes, inUseAtBegin>>
vars == <<pool, fresh, cursors, bitmaps, counts, limitZero, inCollect, objs>>

\* (slip: the last block may stick out of the page)
StartsTooFar(c) == {g \in Grain : g >= Header /\ (g - Header) % Class[c] = 0}
\* buildPattern
Starts(c) == {g \in Grain : /\ g >= Header /\ g + Class[c] <= Words * WordGrains
                            /\ (g - Header) % Class[c] = 0}
WordStarts(c, w) == {g \in Starts(c) : g \div WordGrains = w}
Capacity(c) == Cardinality(Starts(c))

\* The grains a block covers.
Extent(c, g) == g .. g + Class[c] - 1

FreeIn(c, p, w) == WordStarts(c, w) \ live[p]
FreeWords(c, p) == {w \in Word : FreeIn(c, p, w) # {}}
Full(c, p) == Cardinality(live[p]) >= Capacity(c)

PagesOf(c) == {pages[c][i] : i \in DOMAIN pages[c]}

Init ==
  /\ pool = {} /\ fresh = Page
  /\ pages = [c \in Cursor |-> <<>>] /\ rest = [c \in Cursor |-> <<>>]
  /\ page = [c \in Cursor |-> NoPage] /\ word = [c \in Cursor |-> 0]
  /\ freeMask = [c \in Cursor |-> {}] /\ stash = [c \in Cursor |-> {}]
  /\ handedOut = [c \in Cursor |-> 0]
  /\ mark = [p \in Page |-> {}] /\ live = [p \in Page |-> {}]
  /\ inuse = [p \in Page |-> {}]
  /\ heap = 0 /\ liveBytes = 0 /\ inUseAtBegin = 0
  /\ limitZero = FALSE /\ inCollect = FALSE
  /\ objs = {}

-----------------------------------------------------------------------------
\* jaiPageNewAt with a free block left in the current word.
Pop(c) ==
  /\ ~inCollect
  /\ freeMask[c] # {}
  /\ LET g == Min(freeMask[c])
     IN /\ freeMask' = [freeMask EXCEPT ![c] = @ \ {g}]
        /\ objs' = objs \union {<<page[c], g, c>>}
  /\ UNCHANGED <<pool, fresh, pages, rest, page, word, stash, handedOut,
                 bitmaps, counts, limitZero, inCollect>>

\* (slip: only the popped block is entered as in use)
EnteredPopped(p, c, take) ==
  IF c \in Fin THEN [inuse EXCEPT ![p] = @ \union {Min(take)}] ELSE inuse
\* A finalizing page enters everything handed out as in use.
Entered(p, c, take) == IF c \in Fin THEN [inuse EXCEPT ![p] = @ \union take] ELSE inuse

\* What handOut keeps for later calls while jaiGCLimit is 0.
HeldBack(m) == IF limitZero THEN m \ {Min(m)} ELSE {}

\* handOut: the free blocks m of word w of page p, of which the first is
\* popped for the caller.
HandOut(c, p, w, m) ==
  LET take == m \ HeldBack(m)
  IN /\ page' = [page EXCEPT ![c] = p]
     /\ word' = [word EXCEPT ![c] = w]
     /\ stash' = [stash EXCEPT ![c] = HeldBack(m)]
     /\ inuse' = Entered(p, c, take)
     /\ handedOut' = [handedOut EXCEPT ![c] = @ + Cardinality(take)]
     /\ heap' = heap + Cardinality(take) * Class[c]
     /\ freeMask' = [freeMask EXCEPT ![c] = take \ {Min(m)}]
     /\ objs' = objs \union {<<p, Min(m), c>>}

Refilling(c) == ~inCollect /\ freeMask[c] = {}

\* jaiPageRefill: what was stashed comes first.
RefillStash(c) ==
  /\ Refilling(c) /\ stash[c] # {}
  /\ HandOut(c, page[c], word[c], stash[c])
  /\ UNCHANGED <<pool, fresh, pages, rest, mark, live, liveBytes,
                 inUseAtBegin, limitZero, inCollect>>

\* (slip: the scan starts over at the current word)
WordsAheadAgain(c) ==
  IF page[c] = NoPage THEN {} ELSE {w \in FreeWords(c, page[c]) : w >= word[c]}
\* The words of the current page still to come that have a free block.
WordsAhead(c) ==
  IF page[c] = NoPage THEN {} ELSE {w \in FreeWords(c, page[c]) : w > word[c]}
PageUsedUp(c) == WordsAhead(c) = {}

RefillPage(c) ==
  /\ Refilling(c) /\ stash[c] = {}
  /\ ~PageUsedUp(c)
  /\ LET w == Min(WordsAhead(c)) IN HandOut(c, page[c], w, FreeIn(c, page[c], w))
  /\ UNCHANGED <<pool, fresh, pages, rest, mark, live, liveBytes,
                 inUseAtBegin, limitZero, inCollect>>

\* (slip: the page after the one taken is passed over)
AfterNext(s, i) == SubSeq(s, i + 2, Len(s))
\* nextPage moves past the page taken and the full ones before it.
After(s, i) == SubSeq(s, i + 1, Len(s))

\* The pages from nextPage on with a free block, by position.
WithRoom(c) == {i \in DOMAIN rest[c] : ~Full(c, rest[c][i])}

RefillNext(c) ==
  /\ Refilling(c) /\ stash[c] = {} /\ PageUsedUp(c)
  /\ WithRoom(c) # {}
  /\ LET i == Min(WithRoom(c))
         p == rest[c][i]
         w == Min(FreeWords(c, p))
     IN /\ rest' = [rest EXCEPT ![c] = After(@, i)]
        /\ HandOut(c, p, w, FreeIn(c, p, w))
  /\ UNCHANGED <<pool, fresh, pages, mark, live, liveBytes,
                 inUseAtBegin, limitZero, inCollect>>

\* (slip: the new page replaces the list)
LinkedAlone(c, p) == <<p>>
\* newPage links at the head, behind the cursor.
Linked(c, p) == <<p>> \o pages[c]

RefillNew(c, p) ==
  /\ Refilling(c) /\ stash[c] = {} /\ PageUsedUp(c) /\ WithRoom(c) = {}
  /\ IF pool # {} THEN p \in pool ELSE p \in fresh
  /\ pool' = pool \ {p} /\ fresh' = fresh \ {p}
  /\ pages' = [pages EXCEPT ![c] = Linked(c, p)]
  /\ rest' = [rest EXCEPT ![c] = <<>>]
  /\ LET w == Min(FreeWords(c, p)) IN HandOut(c, p, w, FreeIn(c, p, w))
  /\ UNCHANGED <<mark, live, liveBytes, inUseAtBegin, limitZero, inCollect>>

\* The range is used up: the object goes down the list path instead.
RefillDeclines(c) ==
  /\ Refilling(c) /\ stash[c] = {} /\ PageUsedUp(c) /\ WithRoom(c) = {}
  /\ pool = {} /\ fresh = {}
  /\ page' = [page EXCEPT ![c] = NoPage]
  /\ rest' = [rest EXCEPT ![c] = <<>>]
  /\ UNCHANGED <<pool, fresh, pages, word, freeMask, stash, handedOut, bitmaps,
                 counts, limitZero, inCollect, objs>>

\* The collector is disabled or enabled, and jaiGCLimit with it.
FlipLimit ==
  /\ ~inCollect
  /\ limitZero' = ~limitZero
  /\ UNCHANGED <<pool, fresh, cursors, bitmaps, counts, inCollect, objs>>

-----------------------------------------------------------------------------
\* The sum of f[c] over the cursors, as the number of its units.
Units(f) == UNION {{c} \X (1 .. f[c]) : c \in Cursor}
Total(f) == Cardinality(Units(f))

Minus(a, b) == IF a > b THEN a - b ELSE 0   \* jaiHeapAccountFreed stops at 0

Unpopped == [c \in Cursor |-> Cardinality(freeMask[c]) * Class[c]]
Used == [c \in Cursor |-> handedOut[c] * Class[c] - Unpopped[c]]

\* jaiPageCollectBegin removes the unpopped blocks from the in-use sets.
TakenBack == [p \in Page |->
  inuse[p] \ UNION {freeMask[c] : c \in {x \in Fin : page[x] = p}}]

\* (slip: the unpopped blocks stay charged)
UnchargedNever == heap
\* ... and from what jaiHeapBytes was charged for.
Uncharged == Minus(heap, Total(Unpopped))

CollectBegin ==
  /\ ~inCollect
  /\ inCollect' = TRUE
  /\ inuse' = TakenBack
  /\ heap' = Uncharged
  /\ inUseAtBegin' = liveBytes + Total(Used)
  /\ freeMask' = [c \in Cursor |-> {}]
  /\ stash' = [c \in Cursor |-> {}]
  /\ handedOut' = [c \in Cursor |-> 0]
  /\ UNCHANGED <<pool, fresh, pages, rest, page, word, mark, live, liveBytes,
                 limitZero, objs>>

\* jaiPageMark on every object the marker reaches.
Mark(S) ==
  /\ inCollect /\ \A p \in Page : mark[p] = {}
  /\ S \subseteq objs
  /\ mark' = [p \in Page |-> {o[2] : o \in {x \in S : x[1] = p}}]
  /\ UNCHANGED <<pool, fresh, cursors, live, inuse, counts, limitZero, inCollect, objs>>

\* resetCursor for every cursor over the lists l.
ResetCursors(l) ==
  /\ pages' = l /\ rest' = l
  /\ page' = [c \in Cursor |-> NoPage] /\ word' = [c \in Cursor |-> 0]
  /\ freeMask' = [c \in Cursor |-> {}] /\ stash' = [c \in Cursor |-> {}]
  /\ handedOut' = [c \in Cursor |-> 0]

IsMarked(o) == o[2] \in mark[o[1]]
FinPages == UNION {PagesOf(c) : c \in Fin}

\* The blocks finalizeDead hands to jaiObjFinalize, given the marks m.
Finalized(m) == {b \in FinPages \X Grain : b[2] \in inuse[b[1]] \ m[b[1]]}

Emptied == {p \in UNION {PagesOf(c) : c \in Cursor} : mark[p] = {}}

\* The list s without the pages that were emptied: the n-th page that stays is
\* the one with n of them up to it.
Staying(s) == {i \in DOMAIN s : s[i] \notin Emptied}
UpTo(s, i) == Cardinality({j \in Staying(s) : j <= i})
Kept(s) == [n \in 1 .. Cardinality(Staying(s)) |->
              s[CHOOSE i \in Staying(s) : UpTo(s, i) = n]]

MarkedIn(c) == {b \in PagesOf(c) \X Grain : b[2] \in mark[b[1]]}
Stay == [c \in Cursor |-> Cardinality(MarkedIn(c)) * Class[c]]

CollectEnd ==
  /\ inCollect
  /\ live' = mark
  /\ inuse' = [p \in Page |-> IF p \in FinPages THEN mark[p] ELSE inuse[p]]
  /\ mark' = [p \in Page |-> {}]
  /\ pool' = pool \union Emptied
  /\ ResetCursors([c \in Cursor |-> Kept(pages[c])])
  /\ liveBytes' = Total(Stay)
  /\ heap' = Minus(heap, Minus(inUseAtBegin, Total(Stay)))
  /\ inCollect' = FALSE
  /\ objs' = {o \in objs : IsMarked(o)}
  /\ UNCHANGED <<fresh, inUseAtBegin, limitZero>>

\* jaiPageSpaceReset, at teardown: the begin of a collection and the end of
\* one that marked nothing, every page to the pool.
Reset ==
  /\ ~inCollect
  /\ heap' = Minus(Uncharged, liveBytes + Total(Used))
  /\ mark' = [p \in Page |-> {}] /\ live' = [p \in Page |-> {}]
  /\ inuse' = [p \in Page |-> {}]
  /\ pool' = pool \union UNION {PagesOf(c) : c \in Cursor}
  /\ ResetCursors([c \in Cursor |-> <<>>])
  /\ liveBytes' = 0 /\ inUseAtBegin' = 0
  /\ objs' = {}
  /\ UNCHANGED <<fresh, limitZero, inCollect>>

Next ==
  \/ \E c \in Cursor : \/ Pop(c) \/ RefillStash(c) \/ RefillPage(c) \/ RefillNext(c)
                       \/ RefillDeclines(c)
                       \/ \E p \in Page : RefillNew(c, p)
  \/ FlipLimit
  \/ CollectBegin \/ CollectEnd \/ Reset
  \/ \E S \in SUBSET objs : Mark(S)

Spec == Init /\ [][Next]_vars

-----------------------------------------------------------------------------
TypeOK ==
  /\ pool \subseteq Page /\ fresh \subseteq Page
  /\ pages \in [Cursor -> Seq(Page)] /\ rest \in [Cursor -> Seq(Page)]
  /\ page \in [Cursor -> Page \union {NoPage}]
  /\ word \in [Cursor -> Word]
  /\ freeMask \in [Cursor -> SUBSET Grain] /\ stash \in [Cursor -> SUBSET Grain]
  /\ handedOut \in [Cursor -> Nat]
  /\ {mark, live, inuse} \subseteq [Page -> SUBSET Grain]
  /\ heap \in Nat /\ liveBytes \in Nat /\ inUseAtBegin \in Nat
  /\ limitZero \in BOOLEAN /\ inCollect \in BOOLEAN
  /\ objs \subseteq Page \X Grain \X Cursor
  /\ \A o \in objs : Extent(o[3], o[2]) \subseteq Grain

\* The blocks the allocator is about to hand out, beside the objects.
Pending == UNION {{<<page[c], g, c>> : g \in freeMask[c] \union stash[c]} : c \in Cursor}

\* A page belongs to one class at a time, or to the pool, or has never been
\* carved; an object sits in a page of its own class.
PagesPartitioned ==
  /\ \A c, d \in Cursor : c # d => PagesOf(c) \intersect PagesOf(d) = {}
  /\ \A c \in Cursor : PagesOf(c) \intersect (pool \union fresh) = {}
  /\ pool \intersect fresh = {}
  /\ pool \union fresh \union UNION {PagesOf(c) : c \in Cursor} = Page
  /\ \A o \in objs : o[1] \in PagesOf(o[3])

\* No two blocks in use or about to be share a grain, and none that is about to
\* be handed out still holds an object; no two owners share a page.
NoOverlap ==
  /\ PagesPartitioned
  /\ Pending \intersect objs = {}
  /\ \A a, b \in objs \union Pending :
       a # b /\ a[1] = b[1] => Extent(a[3], a[2]) \intersect Extent(b[3], b[2]) = {}

\* The objects of class c, and the grains they occupy.
Objs(c) == {o \in objs : o[3] = c}
Occupied == [c \in Cursor |-> Cardinality(Objs(c)) * Class[c]]

\* Between collections the pages' share of jaiHeapBytes is what the objects
\* and the blocks handed out but not yet popped occupy, however often words
\* were charged ahead and taken back.
HeapExact == ~inCollect => heap = Total(Occupied) + Total(Unpopped)

\* A collection finalizes each dead object of a finalizing page, once, and
\* nothing else: no survivor, and no block that never became an object.
FinalizesTheDead ==
  [][CollectEnd => Finalized(mark) =
       {<<o[1], o[2]>> : o \in {x \in objs : x[3] \in Fin /\ ~IsMarked(x)}}]_vars

\* A class takes another page only when every block of the pages it has holds
\* an object: the cursor passes no free block by.
GrowsOnlyWhenFull ==
  [][\A c \in Cursor : Len(pages'[c]) > Len(pages[c]) =>
       \A p \in PagesOf(c), g \in Starts(c) : <<p, g, c>> \in objs]_vars

-----------------------------------------------------------------------------
(* What makes the properties above inductive.                              *)

GrainsOf(p) == {o[2] : o \in {x \in objs : x[1] = p}}
RestOf(c) == {rest[c][i] : i \in DOMAIN rest[c]}
NoRepeats(s) == \A i, j \in DOMAIN s : s[i] = s[j] => i = j

\* The lists of a cursor hold a page once; the page of the current word is no
\* longer among those to come.
ListsOK == \A c \in Cursor :
  /\ NoRepeats(pages[c]) /\ NoRepeats(rest[c])
  /\ RestOf(c) \subseteq PagesOf(c)
  /\ page[c] # NoPage => page[c] \in PagesOf(c) \ RestOf(c)

\* What is about to be handed out are blocks of the current word that hold no
\* object.
PendingOK == \A c \in Cursor :
  /\ freeMask[c] \union stash[c] \subseteq WordStarts(c, word[c])
  /\ freeMask[c] \intersect stash[c] = {}
  /\ freeMask[c] \union stash[c] # {} => page[c] # NoPage
  /\ \A g \in freeMask[c] \union stash[c] : <<page[c], g, c>> \notin objs

\* Objects start where blocks of their class do; marked and live blocks are
\* objects.
BlocksOK ==
  /\ \A o \in objs : o[2] \in Starts(o[3])
  /\ \A p \in Page : mark[p] \subseteq GrainsOf(p) /\ live[p] \subseteq GrainsOf(p)

\* Where the cursor has not come yet, only what survived the last collection
\* is an object.
AheadOK == \A c \in Cursor :
  /\ \A p \in RestOf(c) : GrainsOf(p) \subseteq live[p]
  /\ page[c] # NoPage =>
       \A g \in GrainsOf(page[c]) : g \div WordGrains > word[c] => g \in live[page[c]]

\* Where it has been, every block is an object or about to become one.
Passed(c, p, g) ==
  p = page[c] => /\ g \div WordGrains <= word[c]
                 /\ g \notin freeMask[c] \union stash[c]
BehindOK == ~inCollect =>
  \A c \in Cursor : \A p \in PagesOf(c) \ RestOf(c), g \in Starts(c) :
    Passed(c, p, g) => <<p, g, c>> \in objs

CollectOK ==
  IF inCollect
  THEN \A c \in Cursor : freeMask[c] = {} /\ stash[c] = {} /\ handedOut[c] = 0
  ELSE \A p \in Page : mark[p] = {}

\* A finalizing page has its objects in use, and what was handed out of its
\* current word.
InUseOK ==
  /\ \A p \in Page \ FinPages : inuse[p] = {}
  /\ \A c \in Fin : \A p \in PagesOf(c) :
       inuse[p] = GrainsOf(p) \union (IF page[c] = p THEN freeMask[c] ELSE {})

Inv == /\ TypeOK /\ PagesPartitioned /\ ListsOK /\ PendingOK /\ BlocksOK
       /\ AheadOK /\ BehindOK /\ CollectOK /\ InUseOK

\* What the charges stand for: between collections the blocks live at the last
\* one and those handed out since.
LiveIn(c) == {b \in PagesOf(c) \X Grain : b[2] \in live[b[1]]}
LiveShare == [c \in Cursor |-> Cardinality(LiveIn(c)) * Class[c]]
HandedShare == [c \in Cursor |-> handedOut[c] * Class[c]]
ChargesOK ==
  /\ IsFiniteSet(objs)
  /\ ~inCollect =>
       /\ \A c \in Cursor : Cardinality(Objs(c)) + Cardinality(freeMask[c])
                              = Cardinality(LiveIn(c)) + handedOut[c]
       /\ liveBytes = Total(LiveShare)
       /\ heap = liveBytes + Total(HandedShare)
  /\ inCollect => heap = Total(Occupied) /\ inUseAtBegin = heap
=============================================================================
