------------------------------- MODULE StrBuf -------------------------------
(***************************************************************************)
(* The shared append buffers of src/src/vm/object/object_string.c.          *)
(*                                                                          *)
(* a + b longer than JAI_INTERN_MAX is a view of the first bytes of a        *)
(* buffer (ObjStrBuf).  When a is a view that ends where the buffer's bytes  *)
(* end and there is room, b is written behind it in place and the result is  *)
(* a longer view of the same buffer; otherwise a new buffer is started with  *)
(* room to double.  Writing behind a overwrites the NUL that made a's bytes  *)
(* a C string, so a is flagged UNTERMINATED.                                 *)
(*                                                                          *)
(* Byte arrays are functions on Pos; a string that owns its bytes has an     *)
(* array of its own.                                                        *)
(***************************************************************************)
EXTENDS Naturals, FiniteSets

CONSTANTS
  Str,        \* the blocks a string header can occupy
  Buf, NoBuf, \* the blocks a buffer can occupy; the NULL owner
  Byte,       \* the bytes of strings
  Nul, Junk,  \* the terminator; what malloc leaves in a block
  Given,      \* the byte strings that come from outside: [n, bytes]
  InternMax,  \* JAI_INTERN_MAX
  MaxLength   \* UINT32_MAX

Pos   == 0 .. MaxLength      \* one past the longest string: its NUL
Cell  == Byte \union {Nul, Junk}
Array == [Pos -> Cell]

ASSUME StrBufAssumption ==
  /\ NoBuf \notin Buf
  /\ Nul \notin Byte /\ Junk \notin Byte /\ Nul # Junk
  /\ InternMax \in Nat
  /\ MaxLength \in Nat
  /\ Given \subseteq [n : Pos, bytes : [Pos -> Byte]]

VARIABLES
  strings,       \* the strings that exist
  length,        \* [Str -> Pos]: ObjString.length
  owner,         \* [Str -> Buf or NoBuf]: ObjString.owner
  own,           \* [Str -> Array]: the bytes behind the header, if owner is NULL
  unterminated,  \* [Str -> BOOLEAN]: JAI_STR_UNTERMINATED
  capacity,      \* [Buf -> Pos]: ObjStrBuf.capacity
  used,          \* [Buf -> Pos]: ObjStrBuf.used
  data,          \* [Buf -> Array]: ObjStrBuf.data
  value          \* history, [Str -> Array]: the bytes the string was made of

views   == <<length, owner, own, unterminated>>
buffers == <<capacity, used, data>>
vars    == <<strings, views, buffers, value>>

\* What s->chars points at.
Chars(s) == IF owner[s] = NoBuf THEN own[s] ELSE data[owner[s]]

Blank == [i \in Pos |-> Nul]

Init ==
  /\ strings = {}
  /\ length = [s \in Str |-> 0] /\ owner = [s \in Str |-> NoBuf]
  /\ own = [s \in Str |-> Blank] /\ unterminated = [s \in Str |-> FALSE]
  /\ capacity = [b \in Buf |-> 0] /\ used = [b \in Buf |-> 0]
  /\ data = [b \in Buf |-> Blank]
  /\ value = [s \in Str |-> Blank]

\* The array d with n bytes of e copied to position at and a NUL behind them.
Written(d, at, e, n) ==
  [i \in Pos |-> IF i < at THEN d[i]
                 ELSE IF i < at + n THEN e[i - at]
                 ELSE IF i = at + n THEN Nul ELSE d[i]]

\* What jaiStringConcat leaves in the buffer: the bytes of b behind n others.
Appended(d, n, b) == Written(d, n, Chars(b), length[b])

\* A new header for n bytes, not flagged.
Header(s, n, b, v) ==
  /\ strings' = strings \union {s}
  /\ length' = [length EXCEPT ![s] = n]
  /\ owner' = [owner EXCEPT ![s] = b]
  /\ value' = [value EXCEPT ![s] = v]

\* A string that owns a copy of n bytes of d (jaiStringNew).
Owned(s, d, n, v) ==
  /\ Header(s, n, NoBuf, v)
  /\ own' = [own EXCEPT ![s] = Written([i \in Pos |-> Junk], 0, d, n)]
  /\ unterminated' = [unterminated EXCEPT ![s] = FALSE]
  /\ UNCHANGED buffers

\* jaiStringNew on bytes from outside: a literal or input.
New(s, g) ==
  /\ s \notin strings
  /\ Owned(s, g.bytes, g.n, Written(Blank, 0, g.bytes, g.n))

\* The bytes of a + b.
Joined(a, b) == Written(Written(Blank, 0, value[a], length[a]), length[a], value[b], length[b])

Total(a, b) == length[a] + length[b]

Operands(s, a, b) ==
  /\ s \notin strings /\ a \in strings /\ b \in strings
  /\ Total(a, b) <= MaxLength

\* jaiStringConcat, a short result: staged and copied, whatever a's buffer has.
ConcatShort(s, a, b) ==
  /\ Operands(s, a, b)
  /\ Total(a, b) <= InternMax
  /\ Owned(s, Appended(Written(Blank, 0, Chars(a), length[a]), length[a], b),
           Total(a, b), Joined(a, b))

\* (slip: a need not be the newest view)
FitsAnyView(a, n) == owner[a] # NoBuf /\ capacity[owner[a]] >= n
\* `a` is the newest view of its buffer and there is room.
Fits(a, n) ==
  /\ owner[a] # NoBuf
  /\ used[owner[a]] = length[a] /\ capacity[owner[a]] >= n

\* ... a long one written behind a in a's buffer.
ConcatInPlace(s, a, b) ==
  LET buf == owner[a] n == Total(a, b)
  IN /\ Operands(s, a, b)
     /\ n > InternMax /\ Fits(a, n)
     /\ data' = [data EXCEPT ![buf] = Appended(@, length[a], b)]
     /\ used' = [used EXCEPT ![buf] = n]
     /\ unterminated' = [unterminated EXCEPT ![a] = TRUE, ![s] = FALSE]
     /\ Header(s, n, buf, Joined(a, b))
     /\ UNCHANGED <<own, capacity>>

\* The buffers no string is a view of, which the collector frees.
FreeBufs == {b \in Buf : \A x \in strings : owner[x] # b}

\* (slip: the doubling is not capped)
RoomDoubled(n) == 2 * n
\* The capacity a buffer of n bytes starts with.
Room(n) == IF n <= MaxLength \div 2 THEN 2 * n ELSE n

\* ... and one that starts a buffer of its own (strBufNew, strSliceOver).
ConcatFresh(s, a, b, buf) ==
  LET n == Total(a, b)
  IN /\ Operands(s, a, b)
     /\ n > InternMax /\ ~Fits(a, n)
     /\ buf \in FreeBufs
     /\ data' = [data EXCEPT ![buf] =
          Appended(Written([i \in Pos |-> Junk], 0, Chars(a), length[a]), length[a], b)]
     /\ used' = [used EXCEPT ![buf] = n]
     /\ capacity' = [capacity EXCEPT ![buf] = Room(n)]
     /\ Header(s, n, buf, Joined(a, b))
     /\ UNCHANGED <<own, unterminated>>

\* jaiStringTerminated: a flagged string is copied, any other is itself.
Terminated(s, a) ==
  /\ s \notin strings /\ a \in strings
  /\ unterminated[a]
  /\ Owned(s, Chars(a), length[a], value[a])

\* The collector frees a string nothing names, and with its last view the
\* buffer.  A free block reads as in Init.
Collected(s) ==
  LET lone == {b \in Buf : owner[s] = b /\ \A x \in strings \ {s} : owner[x] # b}
  IN /\ s \in strings
     /\ strings' = strings \ {s}
     /\ length' = [length EXCEPT ![s] = 0] /\ owner' = [owner EXCEPT ![s] = NoBuf]
     /\ own' = [own EXCEPT ![s] = Blank]
     /\ unterminated' = [unterminated EXCEPT ![s] = FALSE]
     /\ value' = [value EXCEPT ![s] = Blank]
     /\ capacity' = [b \in Buf |-> IF b \in lone THEN 0 ELSE capacity[b]]
     /\ used' = [b \in Buf |-> IF b \in lone THEN 0 ELSE used[b]]
     /\ data' = [b \in Buf |-> IF b \in lone THEN Blank ELSE data[b]]

Next ==
  \/ \E s \in Str, g \in Given : New(s, g)
  \/ \E s, a, b \in Str : ConcatShort(s, a, b) \/ ConcatInPlace(s, a, b)
  \/ \E s, a, b \in Str, buf \in Buf : ConcatFresh(s, a, b, buf)
  \/ \E s, a \in Str : Terminated(s, a)
  \/ \E s \in Str : Collected(s)

Spec == Init /\ [][Next]_vars

-----------------------------------------------------------------------------
TypeOK ==
  /\ strings \subseteq Str
  /\ length \in [Str -> Pos] /\ owner \in [Str -> Buf \union {NoBuf}]
  /\ own \in [Str -> Array] /\ unterminated \in [Str -> BOOLEAN]
  /\ capacity \in [Buf -> Pos] /\ used \in [Buf -> Pos] /\ data \in [Buf -> Array]
  /\ value \in [Str -> Array]

\* object.h at ObjString.owner: an append only ever writes past every existing
\* string's end, so no string's bytes ever change under it, however views,
\* appends and collections follow each other.
BytesStable ==
  \A s \in strings : \A i \in Pos : i < length[s] => Chars(s)[i] = value[s][i]

\* A buffer in use is written within its capacity, every view ends within what
\* is written, and its written bytes end in a NUL: data[used] is the live NUL.
ViewsWithin ==
  \A s \in strings : owner[s] # NoBuf =>
    /\ length[s] <= used[owner[s]] /\ used[owner[s]] <= capacity[owner[s]]
    /\ data[owner[s]][used[owner[s]]] = Nul
=============================================================================
