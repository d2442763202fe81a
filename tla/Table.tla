------------------------------- MODULE Table -------------------------------
(***************************************************************************)
(* The hash table of src/src/vm/table.c, behind dicts, sets, the globals of  *)
(* modules, the members of classes and the intern table.                    *)
(*                                                                          *)
(* `entries` is an open-addressed array probed linearly from the hash; a    *)
(* deleted slot becomes a tombstone that keeps probes going.  `order` lists *)
(* the slots in insertion order, with a hole where an entry was deleted.    *)
(* `version` counts every write and `keyVersion` the ones after which a     *)
(* slot may hold another key: a traversal compares the first, compiled code *)
(* that has baked a slot's address compares the second.                     *)
(*                                                                          *)
(* The operations are operators on a table value.  A key's hash is a        *)
(* constant, equality of keys is identity.  Capacities are scaled down.     *)
(***************************************************************************)
EXTENDS Integers, Picks, FiniteSetsExt

CONSTANTS
  Key, Value,
  Hash,        \* [Key -> Nat]
  MinCapacity, \* what JAI_GROW_CAP makes of an empty table: 8
  SmallFit,    \* capacityFor gives MinCapacity up to here: 6
  MaxCapacity, \* bound: slots, 2^30
  VersionMod,  \* what version and keyVersion wrap at: 2^32
  Others,      \* the tables AddAll is given, as sequences of pairs
  Whites       \* the sets of keys a collection may find white

\* Nothing odd divides c but 1.
PowerOfTwo(c) == \A p \in 2 .. c : c % p = 0 => p % 2 = 0

ASSUME TableAssumption ==
  /\ Hash \in [Key -> Nat]
  /\ MinCapacity \in Nat /\ SmallFit \in 1 .. MinCapacity - 1
  /\ PowerOfTwo(MinCapacity)
  /\ MaxCapacity \in Nat /\ VersionMod \in Nat /\ VersionMod > MaxCapacity
  /\ \A p \in Others : p \in Seq(Key \X Value) /\ Len(p) > 0
  /\ \A S \in Whites : S \subseteq Key

EMPTY == -2
TOMBSTONE == -1
NoKey == "no key"
NoValue == 99

VARIABLE table   \* JaiTable

Slots(t) == 0 .. t.capacity - 1
Live(t, s) == t.entries[s].order >= 0
EmptyEntry == [key |-> NoKey, value |-> NoValue, order |-> EMPTY]

\* jaiTableInit
NewTable == [entries |-> [s \in {} |-> EmptyEntry], order |-> <<>>, count |-> 0,
             tombstones |-> 0, capacity |-> 0, version |-> 0, keyVersion |-> 0]

-----------------------------------------------------------------------------
(* Probing.                                                                *)

\* The slot d steps from where k hashes to.
At(t, k, d) == (Hash[k] + d) % t.capacity

\* The first slot of S from k's hash on; a probe that meets no slot of S never
\* ends, which TLC reports.
Probe(t, k, S) == At(t, k, Min({d \in Slots(t) : At(t, k, d) \in S}))

LiveSlots(t)  == {s \in Slots(t) : Live(t, s)}
EmptySlots(t) == {s \in Slots(t) : t.entries[s].order = EMPTY}

Holds(t, s, k) == Live(t, s) /\ t.entries[s].key = k
Holding(t, k) == {s \in Slots(t) : Holds(t, s, k)}

\* (slip: a tombstone ends the probe)
StopAtHole(t, k) == Probe(t, k, (Slots(t) \ LiveSlots(t)) \union Holding(t, k))
\* Where findExisting stops: at k, or at a slot that was never used.
Stop(t, k) == Probe(t, k, EmptySlots(t) \union Holding(t, k))
Found(t, k) == t.count > 0 /\ Holds(t, Stop(t, k), k)

\* (slip: the first free slot is taken without looking for k behind it)
EntryFirstFree(t, k) == Probe(t, k, (Slots(t) \ LiveSlots(t)) \union Holding(t, k))
\* findEntry: k's slot, or else the first one that is free.
EntryFor(t, k) ==
  IF Holds(t, Stop(t, k), k) THEN Stop(t, k)
  ELSE Probe(t, k, Slots(t) \ LiveSlots(t))

-----------------------------------------------------------------------------
(* Capacity.                                                               *)

\* (slip: a growth factor that leaves the powers of two)
GrowCapByHalf(c) == IF c < MinCapacity THEN MinCapacity ELSE c + c \div 2
\* JAI_GROW_CAP
GrowCap(c) == IF c < MinCapacity THEN MinCapacity ELSE c * 2

\* capacityFor: the power of two that leaves n entries at most half of it.
CapacityFor(n) ==
  IF n <= SmallFit THEN MinCapacity
  ELSE Min({c \in 2 * n .. 4 * n : PowerOfTwo(c)})

\* The slots in insertion order, the holes passed over.
LiveOrder(t) == Picked(t.order, {i \in DOMAIN t.order : t.order[i] >= 0})

Later(v, n) == (v + n) % VersionMod
Bumped(t) == [t EXCEPT !.version = Later(@, 1), !.keyVersion = Later(@, 1)]

\* A table of c slots, all of them empty.
Bare(t, c) ==
  [t EXCEPT !.entries = [s \in 0 .. c - 1 |-> EmptyEntry],
            !.order = <<>>, !.count = 0, !.tombstones = 0, !.capacity = c]

\* The table with one more entry, in the slot findEmptySlot gives it.
Moved(t, e) ==
  LET to == Probe(t, e.key, EmptySlots(t))
  IN [t EXCEPT !.entries[to] = [e EXCEPT !.order = t.count],
               !.order = Append(@, to), !.count = @ + 1]

\* The new array with each number of t's live entries moved to it.
Moves(t, c) ==
  LET o == LiveOrder(t)
      moved[n \in 0 .. Len(o)] ==
        IF n = 0 THEN Bare(t, c) ELSE Moved(moved[n - 1], t.entries[o[n]])
  IN moved

\* adjustCapacity: every live entry into a new array, in order.
Adjusted(t, c) == Bumped(Moves(t, c)[Len(LiveOrder(t))])

\* What fits without a rehash: at most half of the slots used.
HasRoom(t, n) == t.count + t.tombstones + n <= t.capacity - t.capacity \div 2

Roomy(t) == HasRoom(t, 1)

\* ensureRoom: grow, or just drop the tombstones.
WithRoom(t) ==
  IF Roomy(t) THEN t
  ELSE Adjusted(t, IF t.count + 1 > t.capacity \div 2 THEN GrowCap(t.capacity) ELSE t.capacity)

-----------------------------------------------------------------------------
(* Writing.                                                                *)

\* compactOrder
Compacted(t) ==
  LET o == LiveOrder(t)
  IN [t EXCEPT !.order = o,
        !.entries = [s \in Slots(t) |->
          IF Live(t, s) THEN [t.entries[s] EXCEPT !.order = (CHOOSE i \in DOMAIN o : o[i] = s) - 1]
                        ELSE t.entries[s]]]

\* insertAt, the slot e holding another key or none.
Inserted(t, e, k, v) ==
  LET c == IF Len(t.order) >= t.capacity THEN Compacted(t) ELSE t
  IN Bumped([c EXCEPT
       !.tombstones = IF t.entries[e].order = TOMBSTONE THEN @ - 1 ELSE @,
       !.count = @ + 1,
       !.entries[e] = [key |-> k, value |-> v, order |-> Len(c.order)],
       !.order = Append(@, e)])

\* insertAt, the slot e holding the key already.
Overwritten(t, e, v) ==
  [t EXCEPT !.entries[e].value = v, !.version = Later(@, 1)]

Put(t, k, v) ==
  LET e == EntryFor(t, k)
  IN IF Holds(t, e, k) THEN Overwritten(t, e, v) ELSE Inserted(t, e, k, v)

\* tableSetHashed: an existing key never makes room.
SetTo(t, k, v) ==
  IF Roomy(t) THEN Put(t, k, v)
  ELSE IF Found(t, k) THEN Overwritten(t, Stop(t, k), v)
  ELSE Put(WithRoom(t), k, v)

\* removeEntry, of the entry in each slot of W: it leaves a tombstone, and its
\* place in `order` a hole.
Removed(t, W) ==
  LET n == Cardinality(W)
      Place(i) == \E s \in W : t.entries[s].order = i - 1
  IN [t EXCEPT
       !.order = [i \in DOMAIN t.order |-> IF Place(i) THEN -1 ELSE t.order[i]],
       !.entries = [s \in Slots(t) |->
         IF s \in W THEN [EmptyEntry EXCEPT !.order = TOMBSTONE] ELSE t.entries[s]],
       !.count = @ - n, !.tombstones = @ + n,
       !.version = Later(@, n), !.keyVersion = Later(@, n)]

\* (slip: emptying the slots is counted as a write of values only)
ClearedQuietly(t) ==
  [t EXCEPT !.entries = [s \in Slots(t) |-> EmptyEntry], !.order = <<>>,
            !.count = 0, !.tombstones = 0, !.version = Later(@, 1)]
\* jaiTableClear: the array stays.
Cleared(t) == Bumped(Bare(t, t.capacity))

\* jaiTableAddAll makes room for all of the other table at once ...
RoomForAll(t, n) ==
  LET needed == CapacityFor(t.count + n)
  IN IF needed > t.capacity THEN Adjusted(t, needed)
     ELSE IF ~HasRoom(t, n) THEN Adjusted(t, t.capacity)
     ELSE t
\* ... and inserts with no further look at the load: t after each number of the
\* pairs.
Puts(t, pairs) ==
  LET put[n \in 0 .. Len(pairs)] ==
        IF n = 0 THEN t ELSE Put(put[n - 1], pairs[n][1], pairs[n][2])
  IN put
Joined(t, pairs) == Puts(RoomForAll(t, Len(pairs)), pairs)[Len(pairs)]

\* jaiTableRemoveWhite: the keys of S go and a table left under a quarter full
\* shrinks.
Whitened(t, S) ==
  LET gone == Removed(t, {s \in LiveSlots(t) : t.entries[s].key \in S})
      wanted == CapacityFor(gone.count * 2 + 1)
  IN IF gone.count < gone.capacity \div 4 /\ wanted < gone.capacity
     THEN Adjusted(gone, wanted) ELSE gone

-----------------------------------------------------------------------------
Becomes(t) == t.capacity <= MaxCapacity /\ table' = t

Init == table = NewTable

Set(k, v) == Becomes(SetTo(table, k, v))
Delete(k) == Found(table, k) /\ Becomes(Removed(table, {Stop(table, k)}))
Clear     == Becomes(Cleared(table))
Reserve(n) ==
  /\ CapacityFor(n) > table.capacity
  /\ Becomes(Adjusted(table, CapacityFor(n)))
AddAll(pairs) == Becomes(Joined(table, pairs))
RemoveWhite(S) == table.capacity > 0 /\ Becomes(Whitened(table, S))

\* The map as a reader of `order` sees it.
Pair(t, s) == <<t.entries[s].key, t.entries[s].value>>
Listing(t) == LET o == LiveOrder(t) IN [i \in DOMAIN o |-> Pair(t, o[i])]

Next ==
  \/ \E k \in Key : Delete(k) \/ \E v \in Value : Set(k, v)
  \/ Clear
  \/ \E n \in 1 .. Cardinality(Key) : Reserve(n)
  \/ \E p \in Others : AddAll(p)
  \/ \E S \in Whites : RemoveWhite(S)

Spec == Init /\ [][Next]_table

-----------------------------------------------------------------------------
Abs == INSTANCE OrderedMap WITH map <- Listing(table)

Entry == [key : Key \union {NoKey}, value : Value \union {NoValue}, order : {EMPTY, TOMBSTONE} \union Nat]
TableOf(c) ==
  [entries : [0 .. c - 1 -> Entry], order : Seq(0 .. c - 1 \union {-1}),
   count : Nat, tombstones : Nat, capacity : {c},
   version : 0 .. VersionMod - 1, keyVersion : 0 .. VersionMod - 1]

\* The types; a capacity is a power of two, which masking a hash relies on.
TypeOK ==
  /\ table.capacity \in 0 .. MaxCapacity
  /\ table.capacity > 0 => PowerOfTwo(table.capacity)
  /\ table \in TableOf(table.capacity)

\* The table is a map in insertion order, whatever growing, rehashing,
\* compacting, shrinking and reuse of tombstones went on.
RefinesMap == Abs!Spec

\* Every key that is listed is found by probing, and no other is.
GetAgrees == \A k \in Key : table.capacity > 0 => Found(table, k) = (k \in Abs!KeysOf(Listing(table)))

\* The counters are what the array says, a live entry and its place in `order`
\* name each other, a slot is left that ends every probe, and probing finds what
\* is listed.
Consistent ==
  /\ table.count = Cardinality(LiveSlots(table))
  /\ table.count = Len(LiveOrder(table))
  /\ table.tombstones = Cardinality({s \in Slots(table) : table.entries[s].order = TOMBSTONE})
  /\ \A s \in Slots(table) : Live(table, s) => table.order[table.entries[s].order + 1] = s
  /\ Len(table.order) <= table.capacity
  /\ table.capacity > 0 => table.count + table.tombstones < table.capacity
  /\ GetAgrees

\* jit_global.c: while keyVersion stands a baked slot address stands, and so
\* does a key's absence.
SlotsPinned ==
  [][table'.keyVersion = table.keyVersion =>
       /\ table'.capacity = table.capacity
       /\ \A s \in Slots(table) : /\ Live(table, s)' = Live(table, s)
                                  /\ table'.entries[s].key = table.entries[s].key]_table
=============================================================================
