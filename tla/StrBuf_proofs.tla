--------------------------- MODULE StrBuf_proofs ---------------------------
(***************************************************************************)
(* Proofs about StrBuf for any strings, buffers, bytes and bounds.          *)
(*                                                                          *)
(* The invariant is the type invariant, BytesStable and ViewsWithin: an     *)
(* append in place needs the newest view to end where the buffer's bytes    *)
(* end, and then every other view ends before the first byte it writes.     *)
(***************************************************************************)
EXTENDS StrBuf, TLAPS

SInv == TypeOK /\ BytesStable /\ ViewsWithin

-----------------------------------------------------------------------------
(* Arrays.                                                                 *)

LEMMA PosFact == MaxLength \in Nat /\ \A i : i \in Pos <=> i \in Nat /\ i <= MaxLength
BY StrBufAssumption DEF Pos

LEMMA WrittenArray ==
  ASSUME NEW d \in Array, NEW e \in Array, NEW at \in Pos, NEW n \in Pos
  PROVE  Written(d, at, e, n) \in Array
<1>1. ASSUME NEW i \in Pos
      PROVE  (IF i < at THEN d[i]
              ELSE IF i < at + n THEN e[i - at]
              ELSE IF i = at + n THEN Nul ELSE d[i]) \in Cell
  <2>1. i \in Nat
    BY PosFact
  <2>2. CASE at <= i /\ i < at + n
    <3>1. i - at \in Pos
      BY <2>1, <2>2, PosFact
    <3> QED
      BY <2>1, <2>2, <3>1 DEF Array
  <2> QED
    BY <2>1, <2>2 DEF Array, Cell
<1> QED
  BY <1>1 DEF Written, Array

LEMMA Arrays == Blank \in Array /\ [i \in Pos |-> Junk] \in Array
BY DEF Blank, Array, Cell

LEMMA CharsArray == TypeOK => \A s \in Str : Chars(s) \in Array
BY DEF TypeOK, Chars

\* The bytes of a string are the ones it was made of.
Sound(s) == \A i \in Pos : i < length[s] => Chars(s)[i] = value[s][i]

\* Copying two strings one behind the other gives the bytes of the two values.
LEMMA AppendedBytes ==
  ASSUME SInv, NEW a \in strings, NEW b \in strings, Total(a, b) <= MaxLength,
         NEW d \in Array, \A i \in Pos : i < length[a] => d[i] = Chars(a)[i]
  PROVE  /\ Appended(d, length[a], b) \in Array
         /\ Joined(a, b) \in Array
         /\ Total(a, b) \in Pos
         /\ \A i \in Pos : i < length[a] => Appended(d, length[a], b)[i] = d[i]
         /\ \A i \in Pos : i < Total(a, b) => Appended(d, length[a], b)[i] = Joined(a, b)[i]
         /\ Appended(d, length[a], b)[Total(a, b)] = Nul
<1>1. /\ a \in Str /\ b \in Str
      /\ length[a] \in Pos /\ length[b] \in Pos
      /\ length[a] \in Nat /\ length[b] \in Nat
      /\ value[a] \in Array /\ value[b] \in Array
      /\ Chars(a) \in Array /\ Chars(b) \in Array
  BY CharsArray, PosFact DEF SInv, TypeOK
<1>2. length[a] + length[b] \in Pos
  BY <1>1, PosFact DEF Total
<1>3. Total(a, b) \in Pos
  BY <1>1, <1>2, PosFact DEF Total
<1> DEFINE v == Written(Blank, 0, value[a], length[a])
<1>4. v \in Array
  <2>1. 0 \in Pos /\ length[a] \in Pos /\ Blank \in Array /\ value[a] \in Array
    BY <1>1, Arrays, PosFact
  <2> QED
    BY <2>1, WrittenArray
<1>5. \A i \in Pos : i < length[a] => v[i] = value[a][i]
  BY <1>1, PosFact DEF Written
<1> HIDE DEF v
<1>6. /\ Joined(a, b) = Written(v, length[a], value[b], length[b])
      /\ Appended(d, length[a], b) = Written(d, length[a], Chars(b), length[b])
  BY DEF Joined, Appended, v
<1>7. /\ Joined(a, b) \in Array
      /\ \A i \in Pos : i < length[a] => Joined(a, b)[i] = v[i]
      /\ \A i \in Pos : length[a] <= i /\ i < length[a] + length[b]
                        => Joined(a, b)[i] = value[b][i - length[a]]
  <2>1. Joined(a, b) \in Array
    BY <1>1, <1>4, <1>6, WrittenArray
  <2> QED
    BY <1>1, <1>6, <2>1, PosFact DEF Written
<1>8. /\ Appended(d, length[a], b) \in Array
      /\ \A i \in Pos : i < length[a] => Appended(d, length[a], b)[i] = d[i]
      /\ \A i \in Pos : length[a] <= i /\ i < length[a] + length[b]
                        => Appended(d, length[a], b)[i] = Chars(b)[i - length[a]]
      /\ Appended(d, length[a], b)[length[a] + length[b]] = Nul
  <2>1. Appended(d, length[a], b) \in Array
    BY <1>1, <1>6, WrittenArray
  <2> QED
    BY <1>1, <1>2, <1>6, <2>1, PosFact DEF Written
<1>9. ASSUME NEW i \in Pos, i < Total(a, b)
      PROVE  Appended(d, length[a], b)[i] = Joined(a, b)[i]
  <2>1. CASE i < length[a]
    BY <2>1, <1>1, <1>5, <1>7, <1>8 DEF SInv, BytesStable
  <2>2. CASE ~(i < length[a])
    <3>1. /\ i \in Nat /\ length[a] <= i /\ i < length[a] + length[b]
          /\ i - length[a] \in Pos /\ i - length[a] < length[b]
      BY <2>2, <1>1, <1>9, PosFact DEF Total, Pos
    <3> QED
      BY <3>1, <1>1, <1>7, <1>8 DEF SInv, BytesStable
  <2> QED
    BY <2>1, <2>2
<1> QED
  BY <1>3, <1>7, <1>8, <1>9 DEF Total

-----------------------------------------------------------------------------
(* The steps.                                                              *)

LEMMA InitSInv == Init => SInv
<1> SUFFICES ASSUME Init PROVE SInv
  OBVIOUS
<1>1. Blank \in Array /\ 0 \in Pos
  BY Arrays, PosFact
<1>2. TypeOK
  BY <1>1 DEF Init, TypeOK
<1>3. BytesStable /\ ViewsWithin
  BY DEF Init, BytesStable, ViewsWithin
<1> QED
  BY <1>2, <1>3 DEF SInv

\* A new string that owns its bytes leaves every other as it is.
LEMMA OwnedInv ==
  ASSUME SInv, NEW s \in Str \ strings, NEW d \in Array, NEW n \in Pos, NEW v \in Array,
         Owned(s, d, n, v), \A i \in Pos : i < n => d[i] = v[i]
  PROVE  SInv'
<1> DEFINE w == Written([i \in Pos |-> Junk], 0, d, n)
<1>1. w \in Array
  <2>1. 0 \in Pos /\ [i \in Pos |-> Junk] \in Array
    BY Arrays, PosFact
  <2> QED
    BY <2>1, WrittenArray
<1>2. \A i \in Pos : i < n => w[i] = v[i]
  BY PosFact DEF Written
<1> HIDE DEF w
<1>3. own' = [own EXCEPT ![s] = w]
  BY DEF Owned, w
<1>4. TypeOK'
  BY <1>1, <1>3 DEF SInv, TypeOK, Owned, Header, buffers
<1>5. /\ \A x \in strings : /\ length'[x] = length[x] /\ owner'[x] = owner[x]
                             /\ value'[x] = value[x] /\ Chars(x)' = Chars(x)
      /\ length'[s] = n /\ owner'[s] = NoBuf /\ value'[s] = v /\ Chars(s)' = w
      /\ strings' = strings \union {s}
  BY <1>3 DEF SInv, TypeOK, Owned, Header, buffers, Chars
<1>6. BytesStable'
  BY <1>2, <1>5 DEF SInv, BytesStable
<1>7. ViewsWithin'
  BY <1>5 DEF SInv, ViewsWithin, Owned, buffers
<1> QED
  BY <1>4, <1>6, <1>7 DEF SInv

LEMMA NewInv == ASSUME NEW s \in Str, NEW g \in Given PROVE SInv /\ New(s, g) => SInv'
<1> SUFFICES ASSUME SInv, New(s, g) PROVE SInv'
  OBVIOUS
<1>1. g.n \in Pos /\ g.bytes \in Array
  BY StrBufAssumption DEF Array, Cell
<1> DEFINE v == Written(Blank, 0, g.bytes, g.n)
<1>2. v \in Array
  <2>1. 0 \in Pos /\ Blank \in Array
    BY Arrays, PosFact
  <2> QED
    BY <1>1, <2>1, WrittenArray
<1>3. \A i \in Pos : i < g.n => g.bytes[i] = v[i]
  BY <1>1, PosFact DEF Written
<1> HIDE DEF v
<1>4. Owned(s, g.bytes, g.n, v) /\ s \in Str \ strings
  BY DEF New, v
<1> QED
  BY <1>1, <1>2, <1>3, <1>4, OwnedInv

LEMMA ConcatShortInv ==
  ASSUME NEW s \in Str, NEW a \in Str, NEW b \in Str
  PROVE  SInv /\ ConcatShort(s, a, b) => SInv'
<1> SUFFICES ASSUME SInv, ConcatShort(s, a, b) PROVE SInv'
  OBVIOUS
<1>1. a \in strings /\ b \in strings /\ s \in Str \ strings /\ Total(a, b) <= MaxLength
  BY DEF ConcatShort, Operands
<1> DEFINE d == Written(Blank, 0, Chars(a), length[a])
<1>2. length[a] \in Pos /\ Chars(a) \in Array
  BY CharsArray DEF SInv, TypeOK
<1>3. d \in Array
  <2>1. 0 \in Pos /\ Blank \in Array
    BY Arrays, PosFact
  <2> QED
    BY <1>2, <2>1, WrittenArray
<1>4. \A i \in Pos : i < length[a] => d[i] = Chars(a)[i]
  BY <1>2, PosFact DEF Written
<1> HIDE DEF d
<1>5. /\ Appended(d, length[a], b) \in Array
      /\ Joined(a, b) \in Array
      /\ Total(a, b) \in Pos
      /\ \A i \in Pos : i < Total(a, b) => Appended(d, length[a], b)[i] = Joined(a, b)[i]
  BY <1>1, <1>3, <1>4, AppendedBytes
<1>6. Owned(s, Appended(d, length[a], b), Total(a, b), Joined(a, b))
  BY DEF ConcatShort, d
<1> QED
  BY <1>1, <1>5, <1>6, OwnedInv

\* The append in place: every other view of the buffer ends where the bytes
\* written begin, or before.
LEMMA ConcatInPlaceInv ==
  ASSUME NEW s \in Str, NEW a \in Str, NEW b \in Str
  PROVE  SInv /\ ConcatInPlace(s, a, b) => SInv'
<1> SUFFICES ASSUME SInv, ConcatInPlace(s, a, b) PROVE SInv'
  OBVIOUS
<1> DEFINE buf == owner[a]
           n == Total(a, b)
           d == Appended(data[buf], length[a], b)
<1>1. /\ a \in strings /\ b \in strings /\ s \in Str \ strings /\ n <= MaxLength
      /\ buf # NoBuf /\ used[buf] = length[a] /\ n <= capacity[buf]
  BY PosFact DEF ConcatInPlace, Operands, Fits, SInv, TypeOK
<1>2. buf \in Buf /\ data[buf] \in Array /\ Chars(a) = data[buf]
  BY <1>1 DEF SInv, TypeOK, Chars
<1>3. /\ d \in Array /\ Joined(a, b) \in Array /\ n \in Pos
      /\ \A i \in Pos : i < length[a] => d[i] = data[buf][i]
      /\ \A i \in Pos : i < n => d[i] = Joined(a, b)[i]
      /\ d[n] = Nul
  BY <1>1, <1>2, AppendedBytes
<1>4. length[a] <= n /\ length[a] \in Nat
  BY PosFact DEF Total, SInv, TypeOK
<1>5. /\ data' = [data EXCEPT ![buf] = d] /\ used' = [used EXCEPT ![buf] = n]
      /\ unterminated' = [unterminated EXCEPT ![a] = TRUE, ![s] = FALSE]
      /\ Header(s, n, buf, Joined(a, b)) /\ UNCHANGED <<own, capacity>>
  BY DEF ConcatInPlace
<1> HIDE DEF d, n, buf
<1>6. TypeOK'
  BY <1>2, <1>3, <1>5 DEF SInv, TypeOK, Header
<1>7. /\ strings' = strings \union {s}
      /\ length'[s] = n /\ owner'[s] = buf /\ value'[s] = Joined(a, b)
      /\ data'[buf] = d /\ used'[buf] = n /\ capacity' = capacity
      /\ \A x \in strings : length'[x] = length[x] /\ owner'[x] = owner[x]
                             /\ value'[x] = value[x] /\ own'[x] = own[x]
      /\ \A c \in Buf \ {buf} : data'[c] = data[c] /\ used'[c] = used[c]
  BY <1>1, <1>2, <1>5 DEF SInv, TypeOK, Header
<1>8. ASSUME NEW x \in strings, owner[x] = buf PROVE length[x] <= length[a]
  BY <1>1, <1>8 DEF SInv, ViewsWithin, buf
<1>9. BytesStable'
  <2>1. ASSUME NEW x \in strings, NEW i \in Pos, i < length[x]
        PROVE  Chars(x)'[i] = value[x][i]
    <3>1. Chars(x)[i] = value[x][i] /\ length[x] \in Nat /\ i \in Nat
      BY <2>1, PosFact DEF SInv, BytesStable, TypeOK
    <3>2. CASE owner[x] = buf
      <4>1. i < length[a]
        BY <2>1, <3>1, <3>2, <1>4, <1>8
      <4> QED
        BY <3>1, <3>2, <4>1, <1>1, <1>3, <1>7 DEF Chars
    <3>3. CASE owner[x] # buf
      <4>1. owner[x] \in Buf \union {NoBuf}
        BY DEF SInv, TypeOK
      <4> QED
        BY <3>1, <3>3, <4>1, <1>7 DEF Chars
    <3> QED
      BY <3>2, <3>3
  <2>2. \A i \in Pos : i < n => Chars(s)'[i] = value'[s][i]
    BY <1>1, <1>3, <1>7 DEF Chars
  <2> QED
    BY <2>1, <2>2, <1>7 DEF BytesStable
<1>10. ViewsWithin'
  <2>1. n <= capacity[buf]
    BY <1>1
  <2>2. ASSUME NEW x \in strings, owner[x] # NoBuf
        PROVE  /\ length[x] <= used'[owner[x]] /\ used'[owner[x]] <= capacity[owner[x]]
               /\ data'[owner[x]][used'[owner[x]]] = Nul
    <3>1. CASE owner[x] = buf
      <4>1. length[x] \in Nat /\ length[x] <= length[a] /\ n \in Nat
        BY <1>3, <1>8, <3>1, PosFact DEF SInv, TypeOK
      <4> QED
        BY <2>1, <3>1, <4>1, <1>3, <1>4, <1>7
    <3>2. CASE owner[x] # buf
      <4>1. owner[x] \in Buf \ {buf}
        BY <2>2, <3>2 DEF SInv, TypeOK
      <4> QED
        BY <2>2, <4>1, <1>7 DEF SInv, ViewsWithin
    <3> QED
      BY <3>1, <3>2
  <2>3. /\ length'[s] <= used'[owner'[s]] /\ used'[owner'[s]] <= capacity'[owner'[s]]
        /\ data'[owner'[s]][used'[owner'[s]]] = Nul
    BY <2>1, <1>3, <1>7, PosFact
  <2> QED
    BY <2>2, <2>3, <1>7 DEF ViewsWithin
<1> QED
  BY <1>6, <1>9, <1>10 DEF SInv

\* A buffer of its own: no string is a view of it yet.
LEMMA ConcatFreshInv ==
  ASSUME NEW s \in Str, NEW a \in Str, NEW b \in Str, NEW buf \in Buf
  PROVE  SInv /\ ConcatFresh(s, a, b, buf) => SInv'
<1> SUFFICES ASSUME SInv, ConcatFresh(s, a, b, buf) PROVE SInv'
  OBVIOUS
<1> DEFINE n == Total(a, b)
           e == Written([i \in Pos |-> Junk], 0, Chars(a), length[a])
           d == Appended(e, length[a], b)
<1>1. /\ a \in strings /\ b \in strings /\ s \in Str \ strings /\ n <= MaxLength
      /\ \A x \in strings : owner[x] # buf
      /\ buf # NoBuf
  BY StrBufAssumption DEF ConcatFresh, Operands, FreeBufs
<1>2. length[a] \in Pos /\ Chars(a) \in Array
  BY CharsArray DEF SInv, TypeOK
<1>3. e \in Array
  <2>1. 0 \in Pos /\ [i \in Pos |-> Junk] \in Array
    BY Arrays, PosFact
  <2> QED
    BY <1>2, <2>1, WrittenArray
<1>4. \A i \in Pos : i < length[a] => e[i] = Chars(a)[i]
  BY <1>2, PosFact DEF Written
<1> HIDE DEF e
<1>5. /\ d \in Array /\ Joined(a, b) \in Array /\ n \in Pos
      /\ \A i \in Pos : i < n => d[i] = Joined(a, b)[i]
      /\ d[n] = Nul
  BY <1>1, <1>3, <1>4, AppendedBytes
<1>6. Room(n) \in Pos /\ n <= Room(n)
  <2>1. n \in Nat /\ MaxLength \in Nat /\ n <= MaxLength
    BY <1>5, PosFact
  <2> HIDE DEF n
  <2>2. Room(n) \in Nat /\ Room(n) <= MaxLength /\ n <= Room(n)
    BY <2>1 DEF Room
  <2> QED
    BY <2>2, PosFact
<1>7. /\ data' = [data EXCEPT ![buf] = d] /\ used' = [used EXCEPT ![buf] = n]
      /\ capacity' = [capacity EXCEPT ![buf] = Room(n)]
      /\ Header(s, n, buf, Joined(a, b)) /\ UNCHANGED <<own, unterminated>>
  BY DEF ConcatFresh, e
<1> HIDE DEF d, n
<1>8. TypeOK'
  BY <1>5, <1>6, <1>7 DEF SInv, TypeOK, Header
<1>9. /\ strings' = strings \union {s}
      /\ length'[s] = n /\ owner'[s] = buf /\ value'[s] = Joined(a, b)
      /\ data'[buf] = d /\ used'[buf] = n /\ capacity'[buf] = Room(n)
      /\ \A x \in strings : length'[x] = length[x] /\ owner'[x] = owner[x]
                             /\ value'[x] = value[x] /\ own'[x] = own[x]
      /\ \A c \in Buf \ {buf} : data'[c] = data[c] /\ used'[c] = used[c]
                                /\ capacity'[c] = capacity[c]
  BY <1>1, <1>7 DEF SInv, TypeOK, Header
<1>10. \A x \in strings : owner[x] \in (Buf \ {buf}) \union {NoBuf}
  BY <1>1 DEF SInv, TypeOK
<1>11. BytesStable'
  <2>1. \A x \in strings : Chars(x)' = Chars(x)
    BY <1>9, <1>10 DEF Chars
  <2>2. Chars(s)' = d
    BY <1>1, <1>9 DEF Chars
  <2> QED
    BY <2>1, <2>2, <1>5, <1>9 DEF SInv, BytesStable
<1>12. ViewsWithin'
  <2>1. /\ length'[s] <= used'[owner'[s]] /\ used'[owner'[s]] <= capacity'[owner'[s]]
        /\ data'[owner'[s]][used'[owner'[s]]] = Nul
    BY <1>5, <1>6, <1>9, PosFact
  <2> QED
    BY <2>1, <1>9, <1>10 DEF SInv, ViewsWithin
<1> QED
  BY <1>8, <1>11, <1>12 DEF SInv

LEMMA TerminatedInv ==
  ASSUME NEW s \in Str, NEW a \in Str PROVE SInv /\ Terminated(s, a) => SInv'
<1> SUFFICES ASSUME SInv, Terminated(s, a) PROVE SInv'
  OBVIOUS
<1>1. /\ s \in Str \ strings /\ Chars(a) \in Array /\ length[a] \in Pos /\ value[a] \in Array
      /\ Owned(s, Chars(a), length[a], value[a])
      /\ \A i \in Pos : i < length[a] => Chars(a)[i] = value[a][i]
  BY CharsArray DEF Terminated, SInv, TypeOK, BytesStable
<1> QED
  BY <1>1, OwnedInv

\* A buffer goes with its last view, so the views that stay keep theirs.
LEMMA CollectedInv == ASSUME NEW s \in Str PROVE SInv /\ Collected(s) => SInv'
<1> SUFFICES ASSUME SInv, Collected(s) PROVE SInv'
  OBVIOUS
<1>1. 0 \in Pos /\ Blank \in Array
  BY Arrays, PosFact
<1>2. TypeOK'
  BY <1>1 DEF SInv, TypeOK, Collected
<1>3. strings' = strings \ {s}
  BY DEF Collected
<1>4. ASSUME NEW x \in strings'
      PROVE  /\ length'[x] = length[x] /\ owner'[x] = owner[x] /\ own'[x] = own[x]
             /\ value'[x] = value[x]
             /\ owner[x] # NoBuf => /\ data'[owner[x]] = data[owner[x]]
                                    /\ used'[owner[x]] = used[owner[x]]
                                    /\ capacity'[owner[x]] = capacity[owner[x]]
  BY <1>3, <1>4 DEF SInv, TypeOK, Collected
<1>5. BytesStable'
  BY <1>3, <1>4 DEF SInv, BytesStable, Chars
<1>6. ViewsWithin'
  BY <1>3, <1>4 DEF SInv, ViewsWithin
<1> QED
  BY <1>2, <1>5, <1>6 DEF SInv

LEMMA NextSInv == SInv /\ [Next]_vars => SInv'
<1>1. SInv /\ UNCHANGED vars => SInv'
  BY DEF SInv, vars, views, buffers, TypeOK, BytesStable, ViewsWithin, Chars
<1> QED
  BY <1>1, NewInv, ConcatShortInv, ConcatInPlaceInv, ConcatFreshInv, TerminatedInv,
     CollectedInv DEF Next

LEMMA StrBufInvariance == Spec => []SInv
BY InitSInv, NextSInv, PTL DEF Spec

\* Every variable keeps its type: no buffer is written or sized past the
\* longest string there can be.
THEOREM StrBufTyped == Spec => []TypeOK
<1>1. SInv => TypeOK
  BY DEF SInv
<1> QED
  BY <1>1, StrBufInvariance, PTL

\* No append ever changes a string that exists, however many views share a
\* buffer and in whatever order they are appended to and freed.
THEOREM StringsImmutable == Spec => []BytesStable
<1>1. SInv => BytesStable
  BY DEF SInv
<1> QED
  BY <1>1, StrBufInvariance, PTL

\* Every view ends within the bytes written, and those within the buffer.
THEOREM AppendsInBounds == Spec => []ViewsWithin
<1>1. SInv => ViewsWithin
  BY DEF SInv
<1> QED
  BY <1>1, StrBufInvariance, PTL
=============================================================================
