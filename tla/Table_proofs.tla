---------------------------- MODULE Table_proofs ----------------------------
(***************************************************************************)
(* Proofs about the hash table and its traversal, for any keys and values,  *)
(* any hash, any initial capacity that is a power of two and any bound on   *)
(* the capacity.                                                            *)
(*                                                                          *)
(* The invariant is Sound: an entry and its place in `order` name each      *)
(* other (Placed), a key has one entry (Keyed), every slot on the way from  *)
(* a key's hash to its entry was used (Reached), and the counters are what  *)
(* the array says and leave a slot that was never used (Counted).  Each     *)
(* operator of Table.tla is shown to keep it, with what it does to the      *)
(* listing, which is the map, to keyVersion and to version.                 *)
(*                                                                          *)
(* Of a traversal (Going): until a write counts `version` up, what came is  *)
(* the listing as far as the position; and no operation counts it up by so  *)
(* much that it comes round.                                                *)
(*                                                                          *)
(* The loops of the code are recursive functions; that one defines what it  *)
(* says (MovesIs, PutsIs, MergesIs) and what holds after it (InductiveTo)   *)
(* is proved by taking the least number for which it would fail.            *)
(***************************************************************************)
EXTENDS TableIter, FiniteSetTheorems, FunctionTheorems, SequenceTheorems, WellFoundedInduction, TLAPS

-----------------------------------------------------------------------------
(* Numbers.                                                                *)

\* Every set of natural numbers has a least one.
LEMMA LeastNumber ==
  ASSUME NEW T \in SUBSET Nat, T # {}
  PROVE  \E m \in T : \A n \in T : m <= n
<1> DEFINE U(n) == 1 .. n
<1> DEFINE C == {U(n) : n \in T}
<1>1. C \subseteq FiniteSubsetsOf(Nat) /\ C # {}
  <2>1. \A n \in T : IsFiniteSet(U(n)) /\ U(n) \subseteq Nat
    BY FS_Interval
  <2> QED
    BY <2>1 DEF FiniteSubsetsOf
<1>2. PICK x \in C : \A y \in C : <<y, x>> \notin StrictSubsetOrdering(Nat)
  <2> HIDE DEF C
  <2> QED
    BY <1>1, WFMin, FS_StrictSubsetOrderingWellFounded
<1>3. PICK m \in T : x = U(m)
  BY <1>2
<1>4. ASSUME NEW n \in T, n < m
      PROVE  FALSE
  <2>1. U(n) \subseteq U(m) /\ m \in U(m) /\ m \notin U(n) /\ U(n) \in C /\ U(m) \in SUBSET Nat
    BY <1>4
  <2>2. <<U(n), x>> \notin StrictSubsetOrdering(Nat)
    BY <1>2, <2>1
  <2> HIDE DEF U
  <2> QED
    BY <1>3, <2>1, <2>2 DEF StrictSubsetOrdering
<1> QED
  BY <1>4

\* A set of natural numbers that holds 0 and goes on is all of them.
LEMMA Inductive ==
  ASSUME NEW S \in SUBSET Nat, 0 \in S, \A n \in S : n + 1 \in S
  PROVE  S = Nat
<1> SUFFICES ASSUME S # Nat PROVE FALSE
  OBVIOUS
<1>1. PICK m \in Nat \ S : \A n \in Nat \ S : m <= n
  BY LeastNumber
<1>2. m - 1 \in Nat /\ m - 1 \in S
  BY <1>1
<1> QED
  BY <1>1, <1>2

\* The same up to N.
LEMMA InductiveTo ==
  ASSUME NEW N \in Nat, NEW S, 0 \in S, \A n \in 0 .. N - 1 : n \in S => n + 1 \in S
  PROVE  0 .. N \subseteq S
<1> DEFINE T == {n \in Nat : n <= N => n \in S}
<1>1. 0 \in T /\ \A n \in T : n + 1 \in T
  OBVIOUS
<1>2. T = Nat
  <2> HIDE DEF T
  <2>1. T \in SUBSET Nat
    BY DEF T
  <2> QED
    BY <1>1, <2>1, Inductive
<1> QED
  BY <1>2

\* Min picks the least number of a set.
LEMMA MinIs ==
  ASSUME NEW T \in SUBSET Nat, T # {}
  PROVE  Min(T) \in T /\ \A n \in T : Min(T) <= n
<1>1. PICK m \in T : \A n \in T : m <= n
  BY LeastNumber
<1> QED
  BY <1>1, Zenon DEF Min

\* Division with remainder.
LEMMA DivMod ==
  ASSUME NEW c \in Nat, c > 0, NEW n \in Nat
  PROVE  n % c \in 0 .. c - 1 /\ n \div c \in Nat /\ n = c * (n \div c) + (n % c)
OBVIOUS

\* One more time a.
LEMMA MulNext ==
  ASSUME NEW a \in Int, NEW b \in Int
  PROVE  a * (b + 1) = a * b + a
OBVIOUS

\* A multiple of a is no less than a.
LEMMA MulAtLeast ==
  ASSUME NEW a \in Nat, NEW b \in Int, b >= 1
  PROVE  a * b >= a
<1>1. b - 1 \in Nat /\ a * (b - 1) \in Nat
  OBVIOUS
<1>2. a * b = a * (b - 1) + a
  OBVIOUS
<1> QED
  BY <1>1, <1>2

\* Two multiples of c less than c apart are the same.
LEMMA SameMultiple ==
  ASSUME NEW c \in Nat, c > 0, NEW p \in Int, NEW q \in Int,
         c * p - c * q < c, c * q - c * p < c
  PROVE  p = q
<1>1. c * (q - p) = c * q - c * p /\ c * (p - q) = c * p - c * q
  OBVIOUS
<1>2. ~ q - p >= 1
  BY <1>1, MulAtLeast
<1>3. ~ p - q >= 1
  BY <1>1, MulAtLeast
<1> QED
  BY <1>2, <1>3

\* A remainder is known by any quotient that goes with it.
LEMMA ModUnique ==
  ASSUME NEW c \in Nat, c > 0, NEW q \in Int, NEW r \in 0 .. c - 1, NEW n \in Nat, n = c * q + r
  PROVE  n % c = r
<1> PICK p, m : p = n \div c /\ m = n % c
  OBVIOUS
<1>1. m \in 0 .. c - 1 /\ p \in Nat /\ n = c * p + m
  BY DivMod
<1> PICK x, y : x = c * q /\ y = c * p /\ x \in Int /\ y \in Int
  BY <1>1
<1>2. x + r = y + m
  BY <1>1
<1>3. p = q
  <2>1. x - y < c /\ y - x < c
    BY <1>1, <1>2
  <2>2. c * q - c * p < c /\ c * p - c * q < c
    BY <2>1
  <2> QED
    BY <2>2, <1>1, SameMultiple
<1>4. x = y
  BY <1>3
<1> QED
  BY <1>1, <1>2, <1>4

\* A number below c is its own remainder.
LEMMA ModSmall ==
  ASSUME NEW c \in Nat, c > 0, NEW n \in 0 .. c - 1
  PROVE  n % c = n
<1>1. n = c * 0 + n
  OBVIOUS
<1> QED
  BY <1>1, ModUnique

\* Every slot is some steps on from h ...
LEMMA Reach ==
  ASSUME NEW c \in Nat, c > 0, NEW h \in Nat, NEW s \in 0 .. c - 1
  PROVE  \E d \in 0 .. c - 1 : (h + d) % c = s
<1> PICK p, m : p = h \div c /\ m = h % c
  OBVIOUS
<1>1. m \in 0 .. c - 1 /\ p \in Nat /\ h = c * p + m
  BY DivMod
<1>4. PICK x \in Int : x = c * p
  BY <1>1
<1>2. CASE s >= m
  <2> PICK d : d = s - m
    OBVIOUS
  <2>1. d \in 0 .. c - 1
    BY <1>1, <1>2
  <2>2. h + d \in Nat /\ h + d = c * p + s
    <3>1. h = x + m /\ m \in Int /\ s \in Int /\ c \in Int
      BY <1>1, <1>4
    <3> QED
      BY <1>4, <2>1, <3>1
  <2>3. (h + d) % c = s
    BY <2>2, <1>1, ModUnique
  <2> QED
    BY <2>1, <2>3
<1>3. CASE s < m
  <2> PICK d : d = s - m + c
    OBVIOUS
  <2>1. d \in 0 .. c - 1
    BY <1>1, <1>3
  <2>2. h + d \in Nat /\ p + 1 \in Int /\ h + d = c * (p + 1) + s
    <3>1. h = x + m /\ m \in Int /\ s \in Int /\ c \in Int
      BY <1>1, <1>4
    <3>2. c * (p + 1) = x + c
      BY <1>1, <1>4, MulNext
    <3> QED
      BY <1>1, <1>4, <2>1, <3>1, <3>2
  <2>3. PICK n, q : n = h + d /\ q = p + 1
    OBVIOUS
  <2>4. n \in Nat /\ q \in Int /\ n = c * q + s
    BY <2>2, <2>3
  <2>5. n % c = s
    BY <2>4, ModUnique
  <2> QED
    BY <2>1, <2>3, <2>5
<1> QED
  BY <1>1, <1>2, <1>3

\* ... and only one number of steps below c leads there.
LEMMA ReachOnce ==
  ASSUME NEW c \in Nat, c > 0, NEW h \in Nat, NEW d \in 0 .. c - 1, NEW e \in 0 .. c - 1,
         (h + d) % c = (h + e) % c
  PROVE  d = e
<1> PICK p, q, m : p = (h + d) \div c /\ q = (h + e) \div c /\ m = (h + d) % c
  OBVIOUS
<1>1. m \in 0 .. c - 1 /\ p \in Nat /\ h + d = c * p + m
  <2>1. h + d \in Nat
    OBVIOUS
  <2> QED
    BY <2>1, DivMod
<1>2. q \in Nat /\ h + e = c * q + m
  <2>1. h + e \in Nat
    OBVIOUS
  <2> QED
    BY <2>1, DivMod
<1> PICK x, y : x = c * q /\ y = c * p /\ x \in Int /\ y \in Int
  BY <1>1, <1>2
<1>3. p = q
  <2>1. x - y = e - d
    BY <1>1, <1>2
  <2>2. c * q - c * p < c /\ c * p - c * q < c
    BY <2>1
  <2> QED
    BY <2>2, <1>1, <1>2, SameMultiple
<1>4. x = y
  BY <1>3
<1> QED
  BY <1>1, <1>2, <1>4

\* A version stays below the number it wraps at.
LEMMA LaterType ==
  ASSUME NEW v \in 0 .. VersionMod - 1, NEW n \in Nat
  PROVE  Later(v, n) \in 0 .. VersionMod - 1
<1>1. VersionMod \in Nat /\ VersionMod > 0 /\ v + n \in Nat
  BY TableAssumption
<1> QED
  BY <1>1, DivMod DEF Later

\* Counting no write leaves a version alone.
LEMMA LaterNone ==
  ASSUME NEW v \in 0 .. VersionMod - 1
  PROVE  Later(v, 0) = v
<1>1. VersionMod \in Nat /\ VersionMod > 0 /\ v + 0 = v
  BY TableAssumption
<1> QED
  BY <1>1, ModSmall DEF Later

\* A counter that has not gone round shows that it was counted up.
LEMMA LaterDiffers ==
  ASSUME NEW v \in 0 .. VersionMod - 1, NEW n \in Nat, n > 0, n <= MaxCapacity
  PROVE  Later(v, n) # v
<1>1. VersionMod \in Nat /\ VersionMod > 0 /\ n \in 0 .. VersionMod - 1 /\ v \in Nat
  BY TableAssumption
<1>2. 0 \in 0 .. VersionMod - 1
  BY <1>1
<1>3. (v + 0) % VersionMod = v
  BY LaterNone DEF Later
<1> SUFFICES ASSUME (v + n) % VersionMod = v PROVE FALSE
  BY DEF Later
<1>4. (v + n) % VersionMod = (v + 0) % VersionMod
  BY <1>3
<1>5. n = 0
  BY <1>1, <1>2, <1>4, ReachOnce
<1> QED
  BY <1>5

\* Counting m writes and then n is counting m + n.
LEMMA LaterLater ==
  ASSUME NEW v \in 0 .. VersionMod - 1, NEW m \in Nat, NEW n \in Nat
  PROVE  Later(Later(v, m), n) = Later(v, m + n)
<1> PICK c : c = VersionMod
  OBVIOUS
<1>1. c \in Nat /\ c > 0 /\ v \in Nat
  BY TableAssumption
<1> PICK a, p : a = (v + m) % c /\ p = (v + m) \div c
  OBVIOUS
<1>2. a \in 0 .. c - 1 /\ p \in Nat /\ v + m = c * p + a
  <2>1. v + m \in Nat
    BY <1>1
  <2> QED
    BY <2>1, <1>1, DivMod
<1> PICK b, q : b = (a + n) % c /\ q = (a + n) \div c
  OBVIOUS
<1>3. b \in 0 .. c - 1 /\ q \in Nat /\ a + n = c * q + b
  <2>1. a + n \in Nat
    BY <1>1, <1>2
  <2> QED
    BY <2>1, <1>1, DivMod
<1>4. c * (p + q) = c * p + c * q
  BY <1>1, <1>2, <1>3
<1> PICK x, y, z : x = c * p /\ y = c * q /\ z = c * (p + q) /\ x \in Int /\ y \in Int /\ z \in Int
  BY <1>1, <1>2, <1>3
<1>5. v + (m + n) = z + b
  <2>1. v + m = x + a /\ a + n = y + b /\ z = x + y
    BY <1>2, <1>3, <1>4
  <2> QED
    BY <2>1, <1>1, <1>2, <1>3
<1>6. (v + (m + n)) % c = b
  <2>1. PICK w, r : w = v + (m + n) /\ r = p + q
    OBVIOUS
  <2>2. w \in Nat /\ r \in Int /\ w = c * r + b
    BY <1>1, <1>2, <1>3, <1>5, <2>1
  <2>3. w % c = b
    BY <2>2, <1>1, <1>3, ModUnique
  <2> QED
    BY <2>1, <2>3
<1>7. Later(v, m) = a /\ Later(a, n) = b /\ Later(v, m + n) = b
  BY <1>1, <1>2, <1>3, <1>6 DEF Later
<1> QED
  BY <1>7

\* The same, read off two steps.
LEMMA TwoLaters ==
  ASSUME NEW v \in 0 .. VersionMod - 1, NEW m \in Nat, NEW n \in Nat,
         NEW x, x = Later(v, m), NEW y, y = Later(x, n)
  PROVE  y = Later(v, m + n)
  BY ONLY LaterLater, v \in 0 .. VersionMod - 1, m \in Nat, n \in Nat, x = Later(v, m), y = Later(x, n)

\* The first n numbers are n.
LEMMA UpToFinite ==
  ASSUME NEW n \in Nat
  PROVE  /\ IsFiniteSet(1 .. n) /\ Cardinality(1 .. n) = n
         /\ IsFiniteSet(0 .. n - 1) /\ Cardinality(0 .. n - 1) = n
BY FS_Interval

-----------------------------------------------------------------------------
(* Capacities.                                                             *)

\* Doubling stays within the powers of two.
LEMMA TwiceAPower ==
  ASSUME NEW c \in Nat, c > 0, PowerOfTwo(c)
  PROVE  PowerOfTwo(2 * c)
<1> SUFFICES ASSUME NEW p \in 2 .. 2 * c, (2 * c) % p = 0, p % 2 # 0
             PROVE  FALSE
  BY DEF PowerOfTwo
<1>1. PICK a \in Nat : p = 2 * a + 1
  <2>1. p % 2 \in 0 .. 1 /\ p = 2 * (p \div 2) + (p % 2) /\ p \div 2 \in Nat
    OBVIOUS
  <2> QED
    BY <2>1
<1>2. PICK q \in Nat : 2 * c = p * q
  <2>1. PICK n : n = 2 * c
    OBVIOUS
  <2>2. n \in Nat /\ p \in Nat /\ p > 0 /\ n % p = 0
    BY <2>1
  <2>3. n \div p \in Nat /\ n = p * (n \div p) + (n % p)
    BY <2>2, DivMod
  <2>4. n = p * (n \div p)
    BY <2>2, <2>3
  <2> QED
    BY <2>1, <2>3, <2>4
<1>3. p * q = 2 * (a * q) + q
  <2>1. (2 * a + 1) * q = 2 * (a * q) + q
    OBVIOUS
  <2> QED
    BY <1>1, <2>1
<1>4. PICK b \in Int : q = 2 * b
  <2>1. PICK x \in Int : x = a * q
    OBVIOUS
  <2>2. PICK b \in Int : b = c - x
    BY <2>1
  <2>3. q = 2 * b
    BY <1>2, <1>3, <2>1, <2>2
  <2> QED
    BY <2>3
<1>5. c = p * b
  <2>1. p * q = 2 * (p * b)
    BY <1>4
  <2>2. PICK x \in Int : x = p * b
    OBVIOUS
  <2> QED
    BY <1>2, <2>1, <2>2
<1>6. b >= 1
  <2>1. CASE b <= 0
    <3>1. 0 - b \in Nat /\ p * (0 - b) \in Nat
      BY <2>1
    <3>2. p * (0 - b) = 0 - (p * b)
      OBVIOUS
    <3> QED
      BY <1>5, <3>1, <3>2
  <2> QED
    BY <2>1
<1>7. p <= c
  BY <1>5, <1>6, MulAtLeast
<1>8. c % p = 0
  <2>1. p \in Nat /\ p > 0 /\ 0 \in 0 .. p - 1 /\ c = p * b + 0
    BY <1>5
  <2> QED
    BY <2>1, ModUnique
<1> QED
  BY <1>7, <1>8 DEF PowerOfTwo

\* There is a power of two between 2 n and 4 n: capacityFor ends.
LEMMA PowerBetween ==
  ASSUME NEW n \in Nat, n > 0
  PROVE  \E c \in 2 * n .. 4 * n - 1 : PowerOfTwo(c)
<1> DEFINE S == {m \in Nat : m = 0 \/ \E c \in 2 * m .. 4 * m - 1 : PowerOfTwo(c)}
<1>1. 0 \in S
  OBVIOUS
<1>2. ASSUME NEW m \in S PROVE m + 1 \in S
  <2>1. CASE m = 0
    <3>1. PowerOfTwo(2)
      BY DEF PowerOfTwo
    <3> QED
      BY <2>1, <3>1
  <2>2. CASE m > 0
    <3>1. PICK c \in 2 * m .. 4 * m - 1 : PowerOfTwo(c)
      BY <2>2
    <3>2. CASE c >= 2 * m + 2
      BY <2>2, <3>1, <3>2
    <3>3. CASE c < 2 * m + 2
      <4>1. PICK d : d = 2 * c
        OBVIOUS
      <4>2. PowerOfTwo(d)
        BY <2>2, <3>1, <4>1, TwiceAPower
      <4>3. d \in 2 * (m + 1) .. 4 * (m + 1) - 1
        BY <2>2, <3>3, <4>1
      <4> QED
        BY <4>2, <4>3
    <3> QED
      BY <3>2, <3>3
  <2> QED
    BY <2>1, <2>2
<1>3. S = Nat
  <2> HIDE DEF S
  <2>1. S \in SUBSET Nat
    BY DEF S
  <2> QED
    BY <1>1, <1>2, <2>1, Inductive
<1>4. n \in S
  BY <1>3
<1> QED
  BY <1>4

\* capacityFor leaves room for n entries and one slot more.
LEMMA CapacityForFits ==
  ASSUME NEW n \in Nat
  PROVE  /\ CapacityFor(n) \in Nat /\ CapacityFor(n) >= 2 /\ CapacityFor(n) > n
         /\ PowerOfTwo(CapacityFor(n))
<1>1. CASE n <= SmallFit
  BY <1>1, TableAssumption DEF CapacityFor
<1>2. CASE n > SmallFit
  <2> DEFINE T == {c \in 2 * n .. 4 * n : PowerOfTwo(c)}
  <2>1. n > 0
    BY <1>2, TableAssumption
  <2>2. T \in SUBSET Nat /\ T # {}
    BY <2>1, PowerBetween
  <2>3. Min(T) \in T
    <3> HIDE DEF T
    <3> QED
      BY <2>2, MinIs
  <2>4. CapacityFor(n) = Min(T)
    BY <1>2, TableAssumption DEF CapacityFor
  <2>5. CapacityFor(n) \in T
    BY <2>3, <2>4
  <2> QED
    BY <2>1, <2>5
<1> QED
  BY <1>1, <1>2, TableAssumption

-----------------------------------------------------------------------------
(* Parts of sequences.                                                     *)

\* Nth counts through S, from the least of it on.
LEMMA Counts ==
  ASSUME NEW S \in SUBSET Nat, IsFiniteSet(S)
  PROVE  /\ Cardinality(S) \in Nat
         /\ \A n \in 1 .. Cardinality(S) : Nth(S, n) \in S
         /\ \A i \in S : \E n \in 1 .. Cardinality(S) : Nth(S, n) = i
         /\ \A m, n \in 1 .. Cardinality(S) : m < n => Nth(S, m) < Nth(S, n)
         /\ \A i \in S : Nth(S, Cardinality({j \in S : j <= i})) = i
<1> DEFINE N == Cardinality(S)
           Upto(i) == {j \in S : j <= i}
           Rank == [i \in S |-> Cardinality(Upto(i))]
<1>1. N \in Nat
  BY FS_CardinalityType
<1>2. ASSUME NEW i \in S
      PROVE  /\ IsFiniteSet(Upto(i)) /\ Cardinality(Upto(i)) \in 1 .. N
  <2>1. Upto(i) \in SUBSET S
    OBVIOUS
  <2>2. IsFiniteSet(Upto(i)) /\ Cardinality(Upto(i)) <= N /\ Cardinality(Upto(i)) \in Nat
    BY <2>1, FS_Subset, FS_CardinalityType
  <2>3. i \in Upto(i)
    OBVIOUS
  <2>4. Cardinality(Upto(i)) # 0
    <3> HIDE DEF Upto
    <3> QED
      BY <2>2, <2>3, FS_EmptySet
  <2> QED
    BY <1>1, <2>2, <2>4
<1>3. ASSUME NEW i \in S, NEW j \in S, i < j
      PROVE  Cardinality(Upto(i)) < Cardinality(Upto(j))
  <2>1. Upto(i) \in SUBSET Upto(j) /\ j \in Upto(j) /\ j \notin Upto(i)
    <3>1. \A x \in S : x <= i => x <= j
      BY <1>3
    <3>2. j <= j /\ ~ j <= i
      BY <1>3
    <3> QED
      BY <3>1, <3>2
  <2>2. /\ Cardinality(Upto(i)) <= Cardinality(Upto(j))
        /\ Cardinality(Upto(i)) # Cardinality(Upto(j))
    <3> HIDE DEF Upto
    <3> QED
      BY <1>2, <2>1, FS_Subset
  <2> QED
    BY <1>1, <1>2, <2>2
<1>4. ASSUME NEW i \in S, NEW j \in S, Cardinality(Upto(i)) = Cardinality(Upto(j))
      PROVE  i = j
  <2>1. i < j \/ j < i \/ i = j
    OBVIOUS
  <2>2. ~ Cardinality(Upto(i)) < Cardinality(Upto(j)) /\ ~ Cardinality(Upto(j)) < Cardinality(Upto(i))
    BY <1>1, <1>2, <1>4
  <2> HIDE DEF Upto
  <2> QED
    BY <2>1, <2>2, <1>3
<1>5. Rank \in Surjection(S, 1 .. N)
  <2>1. Rank \in [S -> 1 .. N]
    BY <1>2
  <2>2. \A i, j \in S : Rank[i] = Rank[j] => i = j
    BY <1>4
  <2>3. IsFiniteSet(1 .. N) /\ Cardinality(1 .. N) = N
    BY <1>1, UpToFinite
  <2> HIDE DEF Rank
  <2>4. Rank \in Injection(S, 1 .. N)
    BY <2>1, <2>2 DEF Injection, IsInjective
  <2> QED
    BY <2>3, <2>4, <1>1, FS_Injection
<1>6. ASSUME NEW n \in 1 .. N
      PROVE  Nth(S, n) \in S /\ Cardinality(Upto(Nth(S, n))) = n
  <2>1. \E i \in S : Rank[i] = n
    <3> HIDE DEF Rank
    <3> QED
      BY <1>5 DEF Surjection
  <2>2. \E i \in S : Cardinality(Upto(i)) = n
    BY <2>1
  <2> QED
    BY <2>2 DEF Nth
<1>7. ASSUME NEW i \in S
      PROVE  Nth(S, Cardinality(Upto(i))) = i
  <2>1. Cardinality(Upto(i)) \in 1 .. N
    BY <1>2
  <2>2. PICK k : k = Nth(S, Cardinality(Upto(i)))
    OBVIOUS
  <2> HIDE DEF Upto
  <2>3. k \in S /\ Cardinality(Upto(k)) = Cardinality(Upto(i))
    BY <2>1, <2>2, <1>6
  <2> QED
    BY <2>2, <2>3, <1>4
<1>8. ASSUME NEW m \in 1 .. N, NEW n \in 1 .. N, m < n
      PROVE  Nth(S, m) < Nth(S, n)
  <2>1. PICK i \in S, j \in S : i = Nth(S, m) /\ j = Nth(S, n) /\ Cardinality(Upto(i)) = m /\ Cardinality(Upto(j)) = n
    BY <1>6
  <2>2. i < j \/ j < i \/ i = j
    OBVIOUS
  <2>3. ~ j < i
    <3> HIDE DEF Upto
    <3> SUFFICES ASSUME j < i PROVE FALSE
      OBVIOUS
    <3>1. Cardinality(Upto(j)) < Cardinality(Upto(i))
      BY <1>3
    <3> QED
      BY <2>1, <1>8, <3>1
  <2> QED
    BY <2>1, <2>2, <2>3, <1>8
<1>9. \A i \in S : \E n \in 1 .. N : Nth(S, n) = i
  <2> HIDE DEF Upto
  <2> QED
    BY <1>2, <1>7
<1> QED
  BY <1>1, <1>6, <1>7, <1>8, <1>9

\* It is the only way to count through S.
LEMMA CountsOnly ==
  ASSUME NEW S \in SUBSET Nat, NEW M \in Nat, NEW f \in [1 .. M -> S],
         \A m, n \in 1 .. M : m < n => f[m] < f[n],
         \A i \in S : \E n \in 1 .. M : f[n] = i
  PROVE  /\ IsFiniteSet(S) /\ Cardinality(S) = M
         /\ \A n \in 1 .. M : Nth(S, n) = f[n]
<1>1. ASSUME NEW m \in 1 .. M, NEW n \in 1 .. M, f[m] = f[n]
      PROVE  m = n
  <2>1. f[m] \in Nat /\ f[n] \in Nat
    OBVIOUS
  <2>2. ~ m < n /\ ~ n < m
    BY <2>1, <1>1
  <2> QED
    BY <2>2
<1>2. f \in Bijection(1 .. M, S)
  BY <1>1 DEF Bijection, Injection, Surjection, IsInjective
<1>3. IsFiniteSet(S) /\ Cardinality(S) = M
  <2>1. ExistsBijection(1 .. M, S)
    BY <1>2 DEF ExistsBijection
  <2> QED
    BY <2>1, UpToFinite, FS_Bijection
<1>4. ASSUME NEW n \in 1 .. M
      PROVE  Nth(S, n) = f[n]
  <2> DEFINE U == {j \in S : j <= f[n]}
             g == [m \in 1 .. n |-> f[m]]
  <2>1. \A m \in 1 .. n : m \in 1 .. M /\ f[m] \in U
    <3> TAKE m \in 1 .. n
    <3>1. m \in 1 .. M /\ (m < n \/ m = n)
      OBVIOUS
    <3>2. f[m] \in Nat /\ f[n] \in Nat
      BY <3>1
    <3>3. f[m] <= f[n]
      BY <3>1, <3>2
    <3> QED
      BY <3>1, <3>3
  <2>2. \A i \in U : \E m \in 1 .. n : f[m] = i
    <3> TAKE i \in U
    <3>1. PICK m \in 1 .. M : f[m] = i
      OBVIOUS
    <3>2. f[m] \in Nat /\ f[n] \in Nat
      OBVIOUS
    <3>3. ~ n < m
      BY <3>1, <3>2
    <3> QED
      BY <3>1, <3>3
  <2> HIDE DEF U
  <2>3. g \in Bijection(1 .. n, U)
    <3>1. g \in [1 .. n -> U]
      BY <2>1
    <3>2. \A a, b \in 1 .. n : g[a] = g[b] => a = b
      BY <2>1, <1>1
    <3>3. \A i \in U : \E m \in 1 .. n : g[m] = i
      BY <2>2
    <3> HIDE DEF g
    <3> QED
      BY <3>1, <3>2, <3>3 DEF Bijection, Injection, Surjection, IsInjective
  <2>4. Cardinality(U) = n
    <3>1. ExistsBijection(1 .. n, U)
      BY <2>3 DEF ExistsBijection
    <3>2. n \in Nat
      OBVIOUS
    <3> QED
      BY <3>1, <3>2, UpToFinite, FS_Bijection
  <2>5. f[n] \in S
    OBVIOUS
  <2>6. Nth(S, Cardinality({j \in S : j <= f[n]})) = f[n]
    BY <1>3, <2>5, Counts
  <2> QED
    BY <2>4, <2>6 DEF U
<1> QED
  BY <1>3, <1>4

-----------------------------------------------------------------------------
(* What holds of every table the operations make.                          *)

Tombs(t) == {s \in Slots(t) : t.entries[s].order = TOMBSTONE}

\* The fields have their types, and there is never exactly one slot.
Sized(t) == t.capacity \in Nat /\ t.capacity # 1 /\ t \in TableOf(t.capacity)

\* An entry and its place in `order` name each other.
Placed(t) ==
  /\ Len(t.order) <= t.capacity
  /\ \A s \in LiveSlots(t) : /\ t.entries[s].order + 1 \in DOMAIN t.order
                             /\ t.order[t.entries[s].order + 1] = s
  /\ \A i \in DOMAIN t.order : t.order[i] >= 0 => t.entries[t.order[i]].order = i - 1

\* A key has one entry.
Keyed(t) ==
  /\ \A s \in LiveSlots(t) : t.entries[s].key \in Key /\ t.entries[s].value \in Value
  /\ \A r, s \in LiveSlots(t) : t.entries[r].key = t.entries[s].key => r = s

\* Every slot on the way from where a key hashes to where it is was used.
Reached(t) ==
  \A s \in LiveSlots(t), d \in Slots(t) :
    At(t, t.entries[s].key, d) = s =>
      \A e \in 0 .. d - 1 : At(t, t.entries[s].key, e) \notin EmptySlots(t)

\* The counters are what the array says, and leave a slot that was never used.
Counted(t) ==
  /\ t.count = Cardinality(LiveSlots(t)) /\ t.tombstones = Cardinality(Tombs(t))
  /\ t.capacity > 0 => t.count + t.tombstones < t.capacity

Sound(t) == Sized(t) /\ Placed(t) /\ Keyed(t) /\ Reached(t) /\ Counted(t)

\* The types of the fields of a table.
LEMMA FieldTypes ==
  ASSUME NEW t, Sized(t)
  PROVE  /\ t.capacity \in Nat /\ t.count \in Nat /\ t.tombstones \in Nat
         /\ t.entries \in [Slots(t) -> Entry]
         /\ t.order \in Seq(Slots(t) \union {-1})
         /\ Len(t.order) \in Nat /\ DOMAIN t.order = 1 .. Len(t.order)
         /\ \A i \in DOMAIN t.order : t.order[i] \in Slots(t) \union {-1}
         /\ t.version \in 0 .. VersionMod - 1 /\ t.keyVersion \in 0 .. VersionMod - 1
<1>1. /\ t.capacity \in Nat /\ t.count \in Nat /\ t.tombstones \in Nat
      /\ t.entries \in [Slots(t) -> Entry]
      /\ t.order \in Seq(Slots(t) \union {-1})
      /\ t.version \in 0 .. VersionMod - 1 /\ t.keyVersion \in 0 .. VersionMod - 1
  BY DEF Sized, TableOf, Slots
<1>2. /\ Len(t.order) \in Nat /\ DOMAIN t.order = 1 .. Len(t.order)
      /\ \A i \in DOMAIN t.order : t.order[i] \in Slots(t) \union {-1}
  BY <1>1, LenProperties
<1> QED
  BY <1>1, <1>2

\* A slot is live, a tombstone or was never used.
LEMMA SlotKinds ==
  ASSUME NEW t, Sized(t)
  PROVE  /\ \A s \in Slots(t) : /\ t.entries[s] \in Entry
                                /\ t.entries[s].order \in {EMPTY, TOMBSTONE} \union Nat
                                /\ s \in LiveSlots(t) <=> t.entries[s].order \in Nat
                                /\ s \in Tombs(t) <=> t.entries[s].order = TOMBSTONE
                                /\ s \in EmptySlots(t) <=> t.entries[s].order = EMPTY
         /\ LiveSlots(t) \subseteq Slots(t) /\ Tombs(t) \subseteq Slots(t) /\ EmptySlots(t) \subseteq Slots(t)
         /\ Slots(t) = LiveSlots(t) \union Tombs(t) \union EmptySlots(t)
         /\ LiveSlots(t) \cap Tombs(t) = {} /\ LiveSlots(t) \cap EmptySlots(t) = {}
         /\ Tombs(t) \cap EmptySlots(t) = {}
<1>1. \A s \in Slots(t) : /\ t.entries[s] \in Entry
                          /\ t.entries[s].order \in {EMPTY, TOMBSTONE} \union Nat
  BY FieldTypes DEF Entry
<1>2. \A s \in Slots(t) : /\ s \in LiveSlots(t) <=> t.entries[s].order \in Nat
                          /\ s \in Tombs(t) <=> t.entries[s].order = TOMBSTONE
                          /\ s \in EmptySlots(t) <=> t.entries[s].order = EMPTY
  BY <1>1 DEF LiveSlots, Live, Tombs, EmptySlots, EMPTY, TOMBSTONE
<1>3. LiveSlots(t) \subseteq Slots(t) /\ Tombs(t) \subseteq Slots(t) /\ EmptySlots(t) \subseteq Slots(t)
  BY DEF LiveSlots, Tombs, EmptySlots
<1>4. EMPTY \notin Nat /\ TOMBSTONE \notin Nat /\ EMPTY # TOMBSTONE
  BY DEF EMPTY, TOMBSTONE
<1>5. Slots(t) = LiveSlots(t) \union Tombs(t) \union EmptySlots(t)
  BY <1>1, <1>2, <1>3
<1>6. /\ LiveSlots(t) \cap Tombs(t) = {} /\ LiveSlots(t) \cap EmptySlots(t) = {}
      /\ Tombs(t) \cap EmptySlots(t) = {}
  BY <1>2, <1>3, <1>4
<1> QED
  BY <1>1, <1>2, <1>3, <1>5, <1>6

\* There are `capacity` slots.
LEMMA SlotsFinite ==
  ASSUME NEW t, Sized(t)
  PROVE  /\ IsFiniteSet(Slots(t)) /\ Cardinality(Slots(t)) = t.capacity
         /\ \A S \in SUBSET Slots(t) : IsFiniteSet(S) /\ Cardinality(S) \in 0 .. t.capacity
<1>1. t.capacity \in Nat
  BY DEF Sized
<1>2. IsFiniteSet(Slots(t)) /\ Cardinality(Slots(t)) = t.capacity
  BY <1>1, UpToFinite DEF Slots
<1> QED
  BY <1>1, <1>2, FS_Subset, FS_CardinalityType

-----------------------------------------------------------------------------
(* Probing.                                                                *)

\* Every step of a probe is at a slot.
LEMMA SlotAt ==
  ASSUME NEW t, t.capacity \in Nat, t.capacity > 0, NEW k \in Key, NEW d \in Nat
  PROVE  At(t, k, d) \in Slots(t)
<1> PICK c, n : c = t.capacity /\ n = Hash[k] + d
  OBVIOUS
<1>1. c \in Nat /\ c > 0 /\ n \in Nat
  BY TableAssumption
<1>2. n % c \in 0 .. c - 1
  BY <1>1, DivMod
<1> QED
  BY <1>2 DEF At, Slots

\* A probe gets to every slot ...
LEMMA SlotReached ==
  ASSUME NEW t, t.capacity \in Nat, t.capacity > 0, NEW k \in Key, NEW s \in Slots(t)
  PROVE  \E d \in Slots(t) : At(t, k, d) = s
<1> PICK c, h : c = t.capacity /\ h = Hash[k]
  OBVIOUS
<1>1. c \in Nat /\ c > 0 /\ h \in Nat /\ s \in 0 .. c - 1
  BY TableAssumption DEF Slots
<1>2. \E d \in 0 .. c - 1 : (h + d) % c = s
  BY <1>1, Reach
<1> QED
  BY <1>2 DEF At, Slots

\* ... and to each at one distance only.
LEMMA SlotReachedOnce ==
  ASSUME NEW t, t.capacity \in Nat, t.capacity > 0, NEW k \in Key, NEW d \in Slots(t), NEW e \in Slots(t),
         At(t, k, d) = At(t, k, e)
  PROVE  d = e
<1> PICK c, h : c = t.capacity /\ h = Hash[k]
  OBVIOUS
<1>1. c \in Nat /\ c > 0 /\ h \in Nat /\ d \in 0 .. c - 1 /\ e \in 0 .. c - 1
  BY TableAssumption DEF Slots
<1>2. (h + d) % c = (h + e) % c
  BY DEF At
<1> QED
  BY <1>1, <1>2, ReachOnce

\* A probe stops at the first slot of S on its way.
LEMMA ProbeStops ==
  ASSUME NEW t, t.capacity \in Nat, t.capacity > 0, NEW k \in Key,
         NEW S, NEW s \in Slots(t) \cap S
  PROVE  /\ Probe(t, k, S) \in Slots(t) \cap S
         /\ \E d \in Slots(t) : /\ Probe(t, k, S) = At(t, k, d)
                                /\ \A e \in 0 .. d - 1 : At(t, k, e) \in Slots(t) \ S
<1> DEFINE D == {d \in Slots(t) : At(t, k, d) \in S}
<1>1. \A d \in Slots(t) : d \in Nat
  BY DEF Slots
<1>2. D \in SUBSET Nat /\ D # {}
  BY <1>1, SlotReached
<1>3. PICK m : m = Min(D)
  OBVIOUS
<1>4. m \in D /\ \A n \in D : m <= n
  <2> HIDE DEF D
  <2> QED
    BY <1>2, <1>3, MinIs
<1>5. Probe(t, k, S) = At(t, k, m)
  BY <1>3 DEF Probe
<1>6. ASSUME NEW e \in 0 .. m - 1
      PROVE  At(t, k, e) \in Slots(t) \ S
  <2>1. e \in Nat /\ e \in Slots(t) /\ ~ m <= e
    BY <1>4 DEF Slots
  <2>2. At(t, k, e) \in Slots(t)
    BY <2>1, SlotAt
  <2> QED
    BY <2>1, <2>2, <1>4
<1>7. At(t, k, m) \in Slots(t)
  BY <1>1, <1>4, SlotAt
<1> QED
  BY <1>4, <1>5, <1>6, <1>7

\* A probe always ends.
LEMMA SomeEmpty ==
  ASSUME NEW t, Sized(t), Counted(t), t.capacity > 0
  PROVE  EmptySlots(t) # {}
<1> SUFFICES ASSUME EmptySlots(t) = {} PROVE FALSE
  OBVIOUS
<1> PICK L, T : L = LiveSlots(t) /\ T = Tombs(t)
  OBVIOUS
<1>1. Slots(t) = L \union T /\ L \in SUBSET Slots(t) /\ T \in SUBSET Slots(t) /\ L \cap T = {}
  BY SlotKinds
<1>2. IsFiniteSet(L) /\ IsFiniteSet(T) /\ Cardinality(Slots(t)) = t.capacity
  BY <1>1, SlotsFinite
<1>3. Cardinality(L \union T) = Cardinality(L) + Cardinality(T) - Cardinality(L \cap T)
  BY <1>2, FS_Union
<1>4. Cardinality(L \cap T) = 0
  BY <1>1, FS_EmptySet
<1>5. Cardinality(L) = t.count /\ Cardinality(T) = t.tombstones
  BY DEF Counted
<1>6. t.count \in Nat /\ t.tombstones \in Nat /\ t.count + t.tombstones < t.capacity
  BY FieldTypes DEF Counted
<1>7. Cardinality(Slots(t)) = t.count + t.tombstones - 0
  BY <1>1, <1>3, <1>4, <1>5
<1> QED
  BY <1>2, <1>6, <1>7

\* The slots that hold k are the live ones with the key k.
LEMMA HoldingIs ==
  ASSUME NEW t, NEW k
  PROVE  /\ \A s \in Slots(t) : s \in Holding(t, k) <=> Holds(t, s, k)
         /\ \A s : s \in Holding(t, k) <=> s \in LiveSlots(t) /\ t.entries[s].key = k
BY DEF Holding, Holds, LiveSlots

\* findExisting finds a key if and only if it is there.
LEMMA StopFinds ==
  ASSUME NEW t, Sound(t), t.capacity > 0, NEW k \in Key
  PROVE  /\ Stop(t, k) \in Slots(t)
         /\ Holds(t, Stop(t, k), k) <=> Holding(t, k) # {}
         /\ \A s \in Holding(t, k) : s = Stop(t, k)
<1> DEFINE S == EmptySlots(t) \union Holding(t, k)
<1>1. Sized(t) /\ Counted(t) /\ Keyed(t) /\ Reached(t) /\ t.capacity \in Nat
  BY DEF Sound, Sized
<1>2. PICK x \in EmptySlots(t) : TRUE
  BY <1>1, SomeEmpty
<1>3. x \in Slots(t) \cap S
  BY <1>1, <1>2, SlotKinds
<1>4. PICK p : p = Stop(t, k)
  OBVIOUS
<1>5. p = Probe(t, k, S)
  BY <1>4 DEF Stop
<1>6. /\ p \in Slots(t) \cap S
      /\ \E d \in Slots(t) : /\ p = At(t, k, d)
                             /\ \A e \in 0 .. d - 1 : At(t, k, e) \in Slots(t) \ S
  <2> HIDE DEF S
  <2> QED
    BY <1>1, <1>3, <1>5, ProbeStops
<1>7. PICK d \in Slots(t) : /\ p = At(t, k, d)
                            /\ \A e \in 0 .. d - 1 : At(t, k, e) \in Slots(t) \ S
  BY <1>6
<1>8. ASSUME NEW s \in Holding(t, k)
      PROVE  s = p
  <2>1. s \in LiveSlots(t) /\ s \in Slots(t) /\ t.entries[s].key = k
    BY HoldingIs, SlotKinds, <1>1
  <2>2. PICK c \in Slots(t) : At(t, k, c) = s
    BY <1>1, <2>1, SlotReached
  <2>3. c \in Nat /\ d \in Nat
    BY DEF Slots
  <2>4. ~ c < d
    <3> SUFFICES ASSUME c < d PROVE FALSE
      OBVIOUS
    <3>1. c \in 0 .. d - 1
      BY <2>3
    <3> QED
      BY <3>1, <2>2, <1>7
  <2>5. CASE d < c
    <3>1. d \in 0 .. c - 1
      BY <2>3, <2>5
    <3>2. p \notin EmptySlots(t)
      BY <3>1, <2>1, <2>2, <1>1, <1>7 DEF Reached
    <3>3. p \in Holding(t, k)
      BY <3>2, <1>6
    <3> QED
      BY <3>3, <2>1, <1>1, HoldingIs DEF Keyed
  <2> QED
    BY <2>2, <2>3, <2>4, <2>5, <1>7
<1>9. Holds(t, p, k) <=> p \in Holding(t, k)
  BY <1>6, HoldingIs
<1> QED
  BY <1>4, <1>6, <1>8, <1>9

\* findEntry gives the slot of a key that is there ...
LEMMA EntryForHeld ==
  ASSUME NEW t, Sound(t), t.capacity > 0, NEW k \in Key, Holding(t, k) # {}
  PROVE  EntryFor(t, k) \in Holding(t, k) /\ Holds(t, EntryFor(t, k), k)
<1>1. EntryFor(t, k) = Stop(t, k) /\ Stop(t, k) \in Slots(t) /\ Holds(t, Stop(t, k), k)
  BY StopFinds DEF EntryFor
<1> QED
  BY <1>1, HoldingIs

\* ... and of one that is not, a free slot with only entries on the way to it.
LEMMA EntryForFree ==
  ASSUME NEW t, Sound(t), t.capacity > 0, NEW k \in Key, Holding(t, k) = {}
  PROVE  /\ EntryFor(t, k) \in Slots(t) \ LiveSlots(t) /\ ~ Holds(t, EntryFor(t, k), k)
         /\ \E d \in Slots(t) : /\ EntryFor(t, k) = At(t, k, d)
                                /\ \A e \in 0 .. d - 1 : At(t, k, e) \in LiveSlots(t)
<1> DEFINE S == Slots(t) \ LiveSlots(t)
<1>1. Sized(t) /\ Counted(t) /\ t.capacity \in Nat
  BY DEF Sound, Sized
<1>2. PICK x \in EmptySlots(t) : TRUE
  BY <1>1, SomeEmpty
<1>3. x \in Slots(t) \cap S
  BY <1>1, <1>2, SlotKinds
<1>4. EntryFor(t, k) = Probe(t, k, S)
  BY StopFinds DEF EntryFor
<1>5. /\ EntryFor(t, k) \in Slots(t) \cap S
      /\ \E d \in Slots(t) : /\ EntryFor(t, k) = At(t, k, d)
                             /\ \A e \in 0 .. d - 1 : At(t, k, e) \in Slots(t) \ S
  <2> HIDE DEF S
  <2> QED
    BY <1>1, <1>3, <1>4, ProbeStops
<1>6. ~ Holds(t, EntryFor(t, k), k)
  BY <1>5, HoldingIs
<1> QED
  BY <1>5, <1>6

-----------------------------------------------------------------------------
(* The listing of a table.                                                 *)

\* The places of `order` that name a slot.
Taken(t) == {i \in DOMAIN t.order : t.order[i] >= 0}

\* The places taken are a finite set of positions of `order`.
LEMMA TakenIs ==
  ASSUME NEW t, Sized(t)
  PROVE  /\ Taken(t) \in SUBSET (1 .. Len(t.order)) /\ Taken(t) \in SUBSET Nat /\ IsFiniteSet(Taken(t))
         /\ \A i \in 1 .. Len(t.order) : i \in Taken(t) <=> t.order[i] \in Slots(t)
<1>1. /\ Len(t.order) \in Nat /\ DOMAIN t.order = 1 .. Len(t.order)
      /\ \A i \in DOMAIN t.order : t.order[i] \in Slots(t) \union {-1}
  BY FieldTypes
<1>2. Taken(t) \in SUBSET (1 .. Len(t.order)) /\ Taken(t) \in SUBSET Nat
  BY <1>1 DEF Taken
<1>3. IsFiniteSet(Taken(t))
  BY <1>1, <1>2, UpToFinite, FS_Subset
<1>4. \A s \in Slots(t) : s \in Nat
  BY DEF Slots
<1>5. \A i \in 1 .. Len(t.order) : i \in Taken(t) <=> t.order[i] \in Slots(t)
  BY <1>1, <1>4 DEF Taken
<1> QED
  BY <1>2, <1>3, <1>5

\* The places taken and the live slots are matched.
LEMMA TakenLive ==
  ASSUME NEW t, Sized(t), Placed(t)
  PROVE  /\ \A i \in Taken(t) : t.order[i] \in LiveSlots(t) /\ t.entries[t.order[i]].order = i - 1
         /\ \A s \in LiveSlots(t) : /\ t.entries[s].order + 1 \in Taken(t)
                                    /\ t.order[t.entries[s].order + 1] = s
         /\ Cardinality(Taken(t)) = Cardinality(LiveSlots(t))
<1>1. \A i \in Taken(t) : t.order[i] \in LiveSlots(t) /\ t.entries[t.order[i]].order = i - 1
  <2> TAKE i \in Taken(t)
  <2>1. i \in 1 .. Len(t.order) /\ t.order[i] \in Slots(t) /\ i \in DOMAIN t.order /\ t.order[i] >= 0
    BY TakenIs DEF Taken
  <2>2. t.entries[t.order[i]].order = i - 1
    BY <2>1 DEF Placed
  <2>3. i - 1 \in Nat
    BY <2>1, FieldTypes
  <2> QED
    BY <2>1, <2>2, <2>3, SlotKinds
<1>2. ASSUME NEW s \in LiveSlots(t)
      PROVE  /\ t.entries[s].order + 1 \in Taken(t)
             /\ t.order[t.entries[s].order + 1] = s
  <2>1. /\ t.entries[s].order + 1 \in DOMAIN t.order
        /\ t.order[t.entries[s].order + 1] = s
    BY DEF Placed
  <2>2. s \in Slots(t) /\ s >= 0
    BY SlotKinds DEF Slots
  <2> QED
    BY <2>1, <2>2 DEF Taken
<1> DEFINE f == [i \in Taken(t) |-> t.order[i]]
<1>3. f \in [Taken(t) -> LiveSlots(t)]
  BY <1>1
<1>4. \A i, j \in Taken(t) : f[i] = f[j] => i = j
  <2> SUFFICES ASSUME NEW i \in Taken(t), NEW j \in Taken(t), t.order[i] = t.order[j] PROVE i = j
    OBVIOUS
  <2>1. i - 1 = j - 1
    BY <1>1
  <2>2. i \in Nat /\ j \in Nat
    BY TakenIs
  <2> QED
    BY <2>1, <2>2
<1>5. \A s \in LiveSlots(t) : \E i \in Taken(t) : f[i] = s
  BY <1>2
<1>6. f \in Bijection(Taken(t), LiveSlots(t))
  <2> HIDE DEF f
  <2> QED
    BY <1>3, <1>4, <1>5 DEF Bijection, Injection, Surjection, IsInjective
<1>7. Cardinality(Taken(t)) = Cardinality(LiveSlots(t))
  <2>1. ExistsBijection(Taken(t), LiveSlots(t))
    BY <1>6 DEF ExistsBijection
  <2> QED
    BY <2>1, TakenIs, FS_Bijection
<1> QED
  BY <1>1, <1>2, <1>7

\* The place of the n-th entry.
PlaceOf(t, n) == Nth(Taken(t), n)

\* The listing goes through the places taken, in order.
LEMMA OrderIs ==
  ASSUME NEW t, Sized(t), Placed(t), Counted(t)
  PROVE  /\ LiveOrder(t) = [n \in 1 .. t.count |-> t.order[PlaceOf(t, n)]]
         /\ Listing(t) = [n \in 1 .. t.count |-> Pair(t, t.order[PlaceOf(t, n)])]
         /\ Len(LiveOrder(t)) = t.count /\ DOMAIN LiveOrder(t) = 1 .. t.count
         /\ LiveOrder(t) \in Seq(LiveSlots(t))
         /\ \A n \in 1 .. t.count : /\ PlaceOf(t, n) \in Taken(t)
                                    /\ LiveOrder(t)[n] = t.order[PlaceOf(t, n)]
                                    /\ LiveOrder(t)[n] \in LiveSlots(t)
         /\ \A m, n \in 1 .. t.count : m < n => PlaceOf(t, m) < PlaceOf(t, n)
         /\ \A i \in Taken(t) : \E n \in 1 .. t.count : PlaceOf(t, n) = i
<1>1. Cardinality(Taken(t)) = t.count /\ t.count \in Nat
  BY TakenLive, FieldTypes DEF Counted
<1>2. LiveOrder(t) = [n \in 1 .. t.count |-> t.order[PlaceOf(t, n)]]
  BY <1>1 DEF LiveOrder, Picked, Taken, PlaceOf
<1>3. /\ \A n \in 1 .. t.count : PlaceOf(t, n) \in Taken(t)
      /\ \A m, n \in 1 .. t.count : m < n => PlaceOf(t, m) < PlaceOf(t, n)
      /\ \A i \in Taken(t) : \E n \in 1 .. t.count : PlaceOf(t, n) = i
  BY <1>1, TakenIs, Counts DEF PlaceOf
<1>4. \A n \in 1 .. t.count : LiveOrder(t)[n] = t.order[PlaceOf(t, n)] /\ LiveOrder(t)[n] \in LiveSlots(t)
  BY <1>2, <1>3, TakenLive
<1>5. LiveOrder(t) \in [1 .. t.count -> LiveSlots(t)]
  <2>1. DOMAIN LiveOrder(t) = 1 .. t.count /\ LiveOrder(t) = [n \in DOMAIN LiveOrder(t) |-> LiveOrder(t)[n]]
    BY <1>2
  <2> QED
    BY <2>1, <1>4
<1>6. /\ LiveOrder(t) \in Seq(LiveSlots(t)) /\ Len(LiveOrder(t)) = t.count
      /\ DOMAIN LiveOrder(t) = 1 .. t.count
  BY <1>1, <1>5
<1>7. Listing(t) = [n \in 1 .. t.count |-> Pair(t, t.order[PlaceOf(t, n)])]
  BY <1>4, <1>6 DEF Listing
<1> QED
  BY <1>2, <1>3, <1>4, <1>6, <1>7

\* f counts through the M places taken in the order array of t.
GoesThrough(f, M, t) ==
  /\ M \in Nat /\ f \in [1 .. M -> Taken(t)]
  /\ \A m, n \in 1 .. M : m < n => f[m] < f[n]
  /\ \A i \in Taken(t) : \E n \in 1 .. M : f[n] = i

\* The slots and the pairs of t are those at the M places f names.
ListedAs(t, f, M) ==
  /\ t.count = M
  /\ LiveOrder(t) = [n \in 1 .. M |-> t.order[f[n]]]
  /\ Listing(t) = [n \in 1 .. M |-> Pair(t, t.order[f[n]])]

\* Whatever counts through the places taken gives the listing.
LEMMA ListedBy ==
  ASSUME NEW t, Sized(t), Placed(t), Counted(t), NEW M, NEW f, GoesThrough(f, M, t)
  PROVE  ListedAs(t, f, M)
<1>0. /\ M \in Nat /\ f \in [1 .. M -> Taken(t)]
      /\ \A m, n \in 1 .. M : m < n => f[m] < f[n]
      /\ \A i \in Taken(t) : \E n \in 1 .. M : f[n] = i
  BY DEF GoesThrough
<1>1. Cardinality(Taken(t)) = M /\ \A n \in 1 .. M : Nth(Taken(t), n) = f[n]
  <2> PICK S : S = Taken(t)
    OBVIOUS
  <2>1. S \in SUBSET Nat
    BY TakenIs
  <2>2. /\ M \in Nat /\ f \in [1 .. M -> S]
        /\ (\A m, n \in 1 .. M : m < n => f[m] < f[n])
        /\ \A i \in S : \E n \in 1 .. M : f[n] = i
    BY <1>0
  <2>3. Cardinality(S) = M /\ \A n \in 1 .. M : Nth(S, n) = f[n]
    BY ONLY <2>1, <2>2, CountsOnly
  <2> QED
    BY <2>3
<1>2. t.count = M
  BY <1>1, TakenLive DEF Counted
<1>3. \A n \in 1 .. M : PlaceOf(t, n) = f[n]
  BY <1>1 DEF PlaceOf
<1>4. /\ LiveOrder(t) = [n \in 1 .. M |-> t.order[f[n]]]
      /\ Listing(t) = [n \in 1 .. M |-> Pair(t, t.order[f[n]])]
  <2>1. /\ LiveOrder(t) = [n \in 1 .. M |-> t.order[PlaceOf(t, n)]]
        /\ Listing(t) = [n \in 1 .. M |-> Pair(t, t.order[PlaceOf(t, n)])]
    BY <1>2, OrderIs
  <2> QED
    BY ONLY <1>3, <2>1
<1> QED
  BY <1>2, <1>4 DEF ListedAs

\* The listing names every live slot once and every key once.
LEMMA ListingIs ==
  ASSUME NEW t, Sound(t)
  PROVE  /\ Listing(t) \in Seq(Key \X Value)
         /\ Len(Listing(t)) = t.count /\ DOMAIN Listing(t) = 1 .. t.count
         /\ \A n \in 1 .. t.count : Listing(t)[n] = Pair(t, LiveOrder(t)[n])
         /\ \A n \in 1 .. t.count : LiveOrder(t)[n] \in LiveSlots(t)
         /\ \A s \in LiveSlots(t) : \E n \in 1 .. t.count : LiveOrder(t)[n] = s
         /\ \A m, n \in 1 .. t.count : LiveOrder(t)[m] = LiveOrder(t)[n] => m = n
         /\ \A m, n \in 1 .. t.count : Listing(t)[m][1] = Listing(t)[n][1] => m = n
<1>1. Sized(t) /\ Placed(t) /\ Counted(t) /\ Keyed(t) /\ t.count \in Nat
  BY FieldTypes DEF Sound
<1>2. \A n \in 1 .. t.count : /\ LiveOrder(t)[n] \in LiveSlots(t)
                              /\ PlaceOf(t, n) \in Taken(t)
                              /\ LiveOrder(t)[n] = t.order[PlaceOf(t, n)]
  BY <1>1, OrderIs
<1>3. Listing(t) = [n \in 1 .. t.count |-> Pair(t, LiveOrder(t)[n])]
  BY <1>1, <1>2, OrderIs
<1>4. \A s \in LiveSlots(t) : Pair(t, s) \in Key \X Value
  BY <1>1 DEF Keyed, Pair
<1>5. Listing(t) \in [1 .. t.count -> Key \X Value]
  BY <1>2, <1>3, <1>4
<1>6. /\ Listing(t) \in Seq(Key \X Value)
      /\ Len(Listing(t)) = t.count /\ DOMAIN Listing(t) = 1 .. t.count
  BY <1>1, <1>5
<1>7. ASSUME NEW s \in LiveSlots(t)
      PROVE  \E n \in 1 .. t.count : LiveOrder(t)[n] = s
  <2>1. t.entries[s].order + 1 \in Taken(t) /\ t.order[t.entries[s].order + 1] = s
    BY <1>1, TakenLive
  <2>2. PICK n \in 1 .. t.count : PlaceOf(t, n) = t.entries[s].order + 1
    BY <1>1, <2>1, OrderIs
  <2> QED
    BY <2>1, <2>2, <1>2
<1>8. ASSUME NEW m \in 1 .. t.count, NEW n \in 1 .. t.count, LiveOrder(t)[m] = LiveOrder(t)[n]
      PROVE  m = n
  <2>1. PICK i \in Taken(t), j \in Taken(t) : i = PlaceOf(t, m) /\ j = PlaceOf(t, n)
    BY <1>2
  <2>2. t.order[i] = t.order[j]
    BY <1>2, <1>8, <2>1
  <2>3. i - 1 = j - 1 /\ i \in Nat /\ j \in Nat
    BY <1>1, <2>2, TakenLive, TakenIs
  <2>4. i = j
    BY <2>3
  <2>5. (m < n => i < j) /\ (n < m => j < i)
    BY <1>1, <2>1, OrderIs
  <2> QED
    BY <2>3, <2>4, <2>5
<1>9. ASSUME NEW m \in 1 .. t.count, NEW n \in 1 .. t.count, Listing(t)[m][1] = Listing(t)[n][1]
      PROVE  m = n
  <2>1. t.entries[LiveOrder(t)[m]].key = t.entries[LiveOrder(t)[n]].key
    BY <1>3, <1>9 DEF Pair
  <2>2. LiveOrder(t)[m] = LiveOrder(t)[n]
    BY <1>1, <1>2, <2>1 DEF Keyed
  <2> QED
    BY <1>8, <2>2
<1> QED
  BY <1>2, <1>3, <1>6, <1>7, <1>8, <1>9

-----------------------------------------------------------------------------
(* What an operation leaves alone.                                         *)

\* Probing depends on the capacity only.
LEMMA SameSlots ==
  ASSUME NEW t, NEW u, u.capacity = t.capacity
  PROVE  Slots(u) = Slots(t) /\ \A k, d : At(u, k, d) = At(t, k, d)
BY DEF Slots, At

\* A table that differs in its versions only is as sound.
LEMMA SameBody ==
  ASSUME NEW t, NEW u, Sound(t), Sized(u),
         u.entries = t.entries, u.order = t.order, u.count = t.count,
         u.tombstones = t.tombstones, u.capacity = t.capacity
  PROVE  /\ Sound(u) /\ Listing(u) = Listing(t) /\ LiveOrder(u) = LiveOrder(t)
         /\ Slots(u) = Slots(t) /\ LiveSlots(u) = LiveSlots(t) /\ EmptySlots(u) = EmptySlots(t)
<1>1. Slots(u) = Slots(t) /\ \A k, d : At(u, k, d) = At(t, k, d)
  BY SameSlots
<1>2. LiveSlots(u) = LiveSlots(t) /\ EmptySlots(u) = EmptySlots(t) /\ Tombs(u) = Tombs(t)
  BY <1>1 DEF LiveSlots, Live, EmptySlots, Tombs
<1>3. Placed(u) /\ Keyed(u)
  BY <1>1, <1>2 DEF Sound, Placed, Keyed
<1>4. Reached(u)
  BY <1>1, <1>2 DEF Sound, Reached
<1>5. Counted(u)
  BY <1>2 DEF Sound, Counted
<1>6. LiveOrder(u) = LiveOrder(t)
  BY DEF LiveOrder
<1>7. Listing(u) = Listing(t)
  BY <1>6 DEF Listing, Pair
<1> QED
  BY <1>1, <1>2, <1>3, <1>4, <1>5, <1>6, <1>7 DEF Sound

\* Counting a write touches the versions only.
LEMMA BumpedIs ==
  ASSUME NEW t, Sized(t)
  PROVE  /\ Sized(Bumped(t))
         /\ Bumped(t).entries = t.entries /\ Bumped(t).order = t.order /\ Bumped(t).count = t.count
         /\ Bumped(t).tombstones = t.tombstones /\ Bumped(t).capacity = t.capacity
         /\ Bumped(t).keyVersion = Later(t.keyVersion, 1)
         /\ Bumped(t).version = Later(t.version, 1)
<1> PICK v, w : v = Later(t.version, 1) /\ w = Later(t.keyVersion, 1)
  OBVIOUS
<1>1. v \in 0 .. VersionMod - 1 /\ w \in 0 .. VersionMod - 1
  BY FieldTypes, LaterType
<1>2. t \in TableOf(t.capacity)
  BY DEF Sized
<1>3. Bumped(t) = [[t EXCEPT !.version = v] EXCEPT !.keyVersion = w]
  BY <1>2 DEF Bumped, TableOf
<1>4. PICK u : u = [[t EXCEPT !.version = v] EXCEPT !.keyVersion = w]
  OBVIOUS
<1>5. /\ u.entries = t.entries /\ u.order = t.order /\ u.count = t.count
      /\ u.tombstones = t.tombstones /\ u.capacity = t.capacity /\ u.keyVersion = w /\ u.version = v
      /\ u \in TableOf(t.capacity)
  BY <1>1, <1>2, <1>4 DEF TableOf
<1> QED
  BY <1>3, <1>4, <1>5 DEF Sized

\* Counting a write leaves the map as it was.
LEMMA BumpedSound ==
  ASSUME NEW t, Sound(t)
  PROVE  /\ Sound(Bumped(t)) /\ Listing(Bumped(t)) = Listing(t)
         /\ Bumped(t).capacity = t.capacity /\ Bumped(t).count = t.count
         /\ Bumped(t).tombstones = t.tombstones
         /\ Bumped(t).keyVersion = Later(t.keyVersion, 1)
         /\ Bumped(t).version = Later(t.version, 1)
<1>1. Sized(t)
  BY DEF Sound
<1>2. PICK u : u = Bumped(t)
  OBVIOUS
<1>3. /\ Sized(u) /\ u.entries = t.entries /\ u.order = t.order /\ u.count = t.count
      /\ u.tombstones = t.tombstones /\ u.capacity = t.capacity
      /\ u.keyVersion = Later(t.keyVersion, 1) /\ u.version = Later(t.version, 1)
  BY <1>1, <1>2, BumpedIs
<1>4. Sound(u) /\ Listing(u) = Listing(t)
  BY <1>3, SameBody
<1> QED
  BY <1>2, <1>3, <1>4

-----------------------------------------------------------------------------
(* One entry more.                                                         *)

\* u is t with an entry for k in the slot e.
Adds(t, u, e, k, v) ==
  /\ u.capacity = t.capacity /\ u.count = t.count + 1
  /\ u.tombstones = IF t.entries[e].order = TOMBSTONE THEN t.tombstones - 1 ELSE t.tombstones
  /\ u.entries = [t.entries EXCEPT ![e] = [key |-> k, value |-> v, order |-> Len(t.order)]]
  /\ u.order = Append(t.order, e)

\* What an added entry does to the array and to `order`.
LEMMA AddsArray ==
  ASSUME NEW t, Sized(t), NEW u, NEW e \in Slots(t) \ LiveSlots(t), NEW k, NEW v, Adds(t, u, e, k, v)
  PROVE  /\ Slots(u) = Slots(t)
         /\ \A s \in Slots(t) : s # e => u.entries[s] = t.entries[s]
         /\ u.entries[e].key = k /\ u.entries[e].value = v /\ u.entries[e].order = Len(t.order)
         /\ Len(u.order) = Len(t.order) + 1 /\ DOMAIN u.order = 1 .. Len(t.order) + 1
         /\ \A i \in 1 .. Len(t.order) : u.order[i] = t.order[i]
         /\ u.order[Len(t.order) + 1] = e
         /\ LiveSlots(u) = LiveSlots(t) \union {e}
         /\ EmptySlots(u) = EmptySlots(t) \ {e}
         /\ Tombs(u) = Tombs(t) \ {e}
<1>1. /\ t.entries \in [Slots(t) -> Entry] /\ t.order \in Seq(Slots(t) \union {-1})
      /\ Len(t.order) \in Nat
  BY FieldTypes
<1>2. Slots(u) = Slots(t)
  BY SameSlots DEF Adds
<1>3. /\ \A s \in Slots(t) : s # e => u.entries[s] = t.entries[s]
      /\ u.entries[e].key = k /\ u.entries[e].value = v /\ u.entries[e].order = Len(t.order)
  BY <1>1 DEF Adds
<1>4. /\ Len(u.order) = Len(t.order) + 1 /\ DOMAIN u.order = 1 .. Len(t.order) + 1
      /\ \A i \in 1 .. Len(t.order) : u.order[i] = t.order[i]
      /\ u.order[Len(t.order) + 1] = e
  <2>1. u.order = Append(t.order, e)
    BY DEF Adds
  <2> QED
    BY <1>1, <2>1
<1>5. Len(t.order) # EMPTY /\ Len(t.order) # TOMBSTONE /\ Len(t.order) >= 0
  BY <1>1 DEF EMPTY, TOMBSTONE
<1>6. LiveSlots(u) = LiveSlots(t) \union {e}
  BY <1>2, <1>3, <1>5 DEF LiveSlots, Live
<1>7. EmptySlots(u) = EmptySlots(t) \ {e} /\ Tombs(u) = Tombs(t) \ {e}
  BY <1>2, <1>3, <1>5 DEF EmptySlots, Tombs
<1> QED
  BY <1>2, <1>3, <1>4, <1>6, <1>7

\* The new entry and the end of `order` name each other.
LEMMA AddsPlaced ==
  ASSUME NEW t, Sized(t), Placed(t), Len(t.order) < t.capacity,
         NEW u, NEW e \in Slots(t) \ LiveSlots(t), NEW k, NEW v, Adds(t, u, e, k, v)
  PROVE  Placed(u)
<1>1. /\ Slots(u) = Slots(t)
      /\ \A s \in Slots(t) : s # e => u.entries[s] = t.entries[s]
      /\ u.entries[e].order = Len(t.order)
      /\ Len(u.order) = Len(t.order) + 1 /\ DOMAIN u.order = 1 .. Len(t.order) + 1
      /\ \A i \in 1 .. Len(t.order) : u.order[i] = t.order[i]
      /\ u.order[Len(t.order) + 1] = e
      /\ LiveSlots(u) = LiveSlots(t) \union {e}
  BY AddsArray
<1>2. Len(t.order) \in Nat /\ t.capacity \in Nat /\ DOMAIN t.order = 1 .. Len(t.order)
  BY FieldTypes
<1>3. Len(u.order) <= u.capacity
  BY <1>1, <1>2 DEF Adds
<1>4. ASSUME NEW s \in LiveSlots(u)
      PROVE  /\ u.entries[s].order + 1 \in DOMAIN u.order
             /\ u.order[u.entries[s].order + 1] = s
  <2>1. CASE s = e
    BY <1>1, <1>2, <2>1
  <2>2. CASE s # e
    <3>1. s \in LiveSlots(t) /\ s \in Slots(t)
      BY <1>1, <2>2, SlotKinds
    <3>2. t.entries[s].order + 1 \in 1 .. Len(t.order) /\ t.order[t.entries[s].order + 1] = s
      BY <1>2, <3>1 DEF Placed
    <3>3. PICK i : i = t.entries[s].order + 1
      OBVIOUS
    <3>4. u.entries[s].order + 1 = i /\ i \in 1 .. Len(t.order) /\ t.order[i] = s
      BY <1>1, <2>2, <3>1, <3>2, <3>3
    <3>5. u.order[i] = s
      BY <1>1, <3>4
    <3> PICK L : L = Len(t.order)
      OBVIOUS
    <3>6. i \in 1 .. L + 1
      <4>1. L \in Nat /\ i \in 1 .. L
        BY <1>2, <3>4
      <4> QED
        BY ONLY <4>1
    <3>7. i \in DOMAIN u.order
      BY <1>1, <3>6
    <3> QED
      BY ONLY <3>4, <3>5, <3>7
  <2> QED
    BY <2>1, <2>2
<1>5. ASSUME NEW i \in DOMAIN u.order, u.order[i] >= 0
      PROVE  u.entries[u.order[i]].order = i - 1
  <2>1. CASE i = Len(t.order) + 1
    BY <1>1, <1>2, <2>1
  <2>2. CASE i # Len(t.order) + 1
    <3>1. i \in 1 .. Len(t.order) /\ u.order[i] = t.order[i]
      BY <1>1, <1>2, <2>2
    <3>2. i \in Taken(t)
      BY <1>2, <1>5, <3>1 DEF Taken
    <3>3. t.order[i] \in LiveSlots(t) /\ t.entries[t.order[i]].order = i - 1
      BY <3>2, TakenLive
    <3>4. t.order[i] # e /\ t.order[i] \in Slots(t)
      BY <3>3, SlotKinds
    <3> QED
      BY <1>1, <3>1, <3>3, <3>4
  <2> QED
    BY <2>1, <2>2
<1> QED
  BY <1>3, <1>4, <1>5 DEF Placed

\* A key that no slot held gets its one entry.
LEMMA AddsKeyed ==
  ASSUME NEW t, Sized(t), Keyed(t), NEW k \in Key, NEW v \in Value, Holding(t, k) = {},
         NEW u, NEW e \in Slots(t) \ LiveSlots(t), Adds(t, u, e, k, v)
  PROVE  Keyed(u)
<1>1. /\ \A s \in Slots(t) : s # e => u.entries[s] = t.entries[s]
      /\ u.entries[e].key = k /\ u.entries[e].value = v
      /\ LiveSlots(u) = LiveSlots(t) \union {e}
  BY AddsArray
<1>2. \A s \in LiveSlots(t) : s \in Slots(t) /\ s # e /\ t.entries[s].key # k
  BY SlotKinds, HoldingIs
<1>3. \A s \in LiveSlots(t) : u.entries[s] = t.entries[s]
  BY <1>1, <1>2
<1>4. \A s \in LiveSlots(u) : u.entries[s].key \in Key /\ u.entries[s].value \in Value
  BY <1>1, <1>3 DEF Keyed
<1>5. \A r, s \in LiveSlots(u) : u.entries[r].key = u.entries[s].key => r = s
  BY <1>1, <1>2, <1>3 DEF Keyed
<1> QED
  BY <1>4, <1>5 DEF Keyed

\* No entry is cut off, and the new one is on the way of its key.
LEMMA AddsReached ==
  ASSUME NEW t, Sized(t), t.capacity > 0, Reached(t), NEW k \in Key, NEW v,
         NEW u, NEW d \in Slots(t), NEW e \in Slots(t) \ LiveSlots(t), e = At(t, k, d),
         \A c \in 0 .. d - 1 : At(t, k, c) \notin EmptySlots(t),
         Adds(t, u, e, k, v)
  PROVE  Reached(u)
<1>1. /\ Slots(u) = Slots(t)
      /\ \A s \in Slots(t) : s # e => u.entries[s] = t.entries[s]
      /\ u.entries[e].key = k
      /\ LiveSlots(u) = LiveSlots(t) \union {e}
      /\ EmptySlots(u) = EmptySlots(t) \ {e}
  <2>1. e \in Slots(t) \ LiveSlots(t)
    OBVIOUS
  <2> QED
    BY ONLY Sized(t), Adds(t, u, e, k, v), <2>1, AddsArray
<1>2. \A j, x : At(u, j, x) = At(t, j, x)
  BY SameSlots DEF Adds
<1> SUFFICES ASSUME NEW s \in LiveSlots(u), NEW x \in Slots(u), At(u, u.entries[s].key, x) = s,
                    NEW y \in 0 .. x - 1
             PROVE  At(u, u.entries[s].key, y) \notin EmptySlots(t)
  BY <1>1 DEF Reached
<1>3. CASE s = e
  <2>1. At(t, k, x) = At(t, k, d)
    BY <1>1, <1>2, <1>3
  <2>2. x = d
    BY <1>1, <2>1, SlotReachedOnce DEF Sized
  <2> QED
    BY <1>1, <1>2, <1>3, <2>2
<1>4. CASE s # e
  <2>1. s \in LiveSlots(t) /\ s \in Slots(t)
    BY <1>1, <1>4, SlotKinds
  <2>2. u.entries[s].key = t.entries[s].key
    BY <1>1, <1>4, <2>1
  <2>3. At(t, t.entries[s].key, x) = s /\ x \in Slots(t)
    BY <1>1, <1>2, <2>2
  <2>4. At(t, t.entries[s].key, y) \notin EmptySlots(t)
    BY <2>1, <2>3 DEF Reached
  <2> QED
    BY <1>2, <2>2, <2>4
<1> QED
  BY <1>3, <1>4

\* The counters follow, and a slot that was never used is left.
LEMMA AddsCounted ==
  ASSUME NEW t, Sized(t), Counted(t), t.count + t.tombstones + 1 < t.capacity, NEW k, NEW v,
         NEW u, NEW e \in Slots(t) \ LiveSlots(t), Adds(t, u, e, k, v)
  PROVE  Counted(u)
<1>1. LiveSlots(u) = LiveSlots(t) \union {e} /\ Tombs(u) = Tombs(t) \ {e}
  BY AddsArray
<1>2. /\ t.count \in Nat /\ t.tombstones \in Nat /\ t.capacity \in Nat
      /\ t.count = Cardinality(LiveSlots(t)) /\ t.tombstones = Cardinality(Tombs(t))
  BY FieldTypes DEF Counted
<1>3. IsFiniteSet(LiveSlots(t)) /\ IsFiniteSet(Tombs(t))
  BY SlotsFinite, SlotKinds
<1>4. Cardinality(LiveSlots(u)) = t.count + 1
  BY <1>1, <1>2, <1>3, FS_AddElement
<1>5. Cardinality(Tombs(u)) = IF e \in Tombs(t) THEN t.tombstones - 1 ELSE t.tombstones
  <2> PICK T : T = Tombs(t)
    OBVIOUS
  <2>1. Cardinality(T \ {e}) = IF e \in T THEN Cardinality(T) - 1 ELSE Cardinality(T)
    BY <1>3, FS_RemoveElement
  <2> QED
    BY <1>1, <1>2, <2>1
<1>6. u.tombstones = Cardinality(Tombs(u)) /\ u.tombstones <= t.tombstones /\ u.tombstones \in Int
  BY <1>2, <1>5, SlotKinds DEF Adds
<1>7. u.count = Cardinality(LiveSlots(u)) /\ u.count = t.count + 1 /\ u.capacity = t.capacity
  BY <1>4 DEF Adds
<1>8. u.count + u.tombstones < u.capacity
  BY <1>2, <1>6, <1>7
<1> QED
  BY <1>6, <1>7, <1>8 DEF Counted

\* The new entry is listed last.
LEMMA AddsListed ==
  ASSUME NEW t, Sized(t), Placed(t), Counted(t), NEW k, NEW v,
         NEW u, NEW e \in Slots(t) \ LiveSlots(t), Adds(t, u, e, k, v),
         Sized(u), Placed(u), Counted(u)
  PROVE  /\ Listing(u) = Append(Listing(t), <<k, v>>)
         /\ LiveOrder(u) = Append(LiveOrder(t), e)
<1> DEFINE L == Len(t.order)
           M == t.count + 1
           f == [n \in 1 .. M |-> IF n <= t.count THEN PlaceOf(t, n) ELSE L + 1]
<1>0. Len(t.order) \in Nat /\ t.count \in Nat /\ DOMAIN t.order = 1 .. Len(t.order)
  BY FieldTypes
<1>1. /\ Slots(u) = Slots(t)
      /\ \A s \in Slots(t) : s # e => u.entries[s] = t.entries[s]
      /\ u.entries[e].key = k /\ u.entries[e].value = v
      /\ DOMAIN u.order = 1 .. L + 1
      /\ \A i \in 1 .. L : u.order[i] = t.order[i]
      /\ u.order[L + 1] = e
  BY AddsArray
<1>2. L \in Nat /\ t.count \in Nat /\ M \in Nat /\ DOMAIN t.order = 1 .. L
  BY <1>0
<1>3. e >= 0
  BY DEF Slots
<1>4. Taken(u) = Taken(t) \union {L + 1} /\ L + 1 \notin Taken(t)
  <2>1. L + 1 \in Taken(u)
    BY <1>1, <1>2, <1>3 DEF Taken
  <2>2. \A i \in 1 .. L : i \in Taken(u) <=> i \in Taken(t)
    BY <1>1, <1>2 DEF Taken
  <2>3. \A i \in Taken(t) : i \in 1 .. L
    BY <1>2 DEF Taken
  <2>4. \A i \in Taken(u) : i \in 1 .. L \/ i = L + 1
    BY <1>1, <1>2 DEF Taken
  <2>5. L + 1 \notin 1 .. L
    BY <1>2
  <2> QED
    BY <2>1, <2>2, <2>3, <2>4, <2>5
<1>5. \A n \in 1 .. t.count : /\ PlaceOf(t, n) \in Taken(t) /\ PlaceOf(t, n) \in 1 .. L
                              /\ f[n] = PlaceOf(t, n) /\ t.order[PlaceOf(t, n)] \in LiveSlots(t)
                              /\ u.order[f[n]] = t.order[PlaceOf(t, n)]
  <2> TAKE n \in 1 .. t.count
  <2>1. PlaceOf(t, n) \in Taken(t) /\ PlaceOf(t, n) \in 1 .. L
    BY OrderIs, TakenIs
  <2>2. f[n] = PlaceOf(t, n)
    BY <1>2
  <2> QED
    BY <1>1, <2>1, <2>2, TakenLive
<1>6. f[M] = L + 1
  BY <1>2
<1>7. \A n \in 1 .. M : n \in 1 .. t.count \/ n = M
  BY <1>2
<1>8. f \in [1 .. M -> Taken(u)]
  <2>1. \A n \in 1 .. M : f[n] \in Taken(u)
    BY <1>4, <1>5, <1>6, <1>7
  <2> QED
    BY <2>1
<1>9. \A m, n \in 1 .. M : m < n => f[m] < f[n]
  <2> SUFFICES ASSUME NEW m \in 1 .. M, NEW n \in 1 .. M, m < n PROVE f[m] < f[n]
    BY Zenon
  <2>1. m \in 1 .. t.count
    BY <1>2
  <2>2. CASE n = M
    <3>1. f[m] \in 1 .. L
      BY <2>1, <1>5
    <3>2. f[n] = L + 1
      BY <2>2, <1>6
    <3> QED
      BY ONLY <1>2, <3>1, <3>2
  <2>3. CASE n \in 1 .. t.count
    <3>1. PlaceOf(t, m) < PlaceOf(t, n)
      BY <2>1, <2>3, OrderIs
    <3> QED
      BY <2>1, <2>3, <3>1, <1>5
  <2> QED
    BY <2>2, <2>3, <1>7
<1>10. \A i \in Taken(u) : \E n \in 1 .. M : f[n] = i
  <2> TAKE i \in Taken(u)
  <2>1. CASE i = L + 1
    BY <2>1, <1>2, <1>6
  <2>2. CASE i \in Taken(t)
    <3>1. PICK n \in 1 .. t.count : PlaceOf(t, n) = i
      BY <2>2, OrderIs
    <3>2. n \in 1 .. M
      BY <1>2
    <3> QED
      BY <3>1, <3>2, <1>5
  <2> QED
    BY <2>1, <2>2, <1>4
<1> PICK g, N : g = f /\ N = M
  OBVIOUS
<1> HIDE DEF f, M
<1>11. /\ LiveOrder(u) = [n \in 1 .. N |-> u.order[g[n]]]
       /\ Listing(u) = [n \in 1 .. N |-> Pair(u, u.order[g[n]])]
  <2>1. /\ N \in Nat /\ g \in [1 .. N -> Taken(u)] /\ (\A m, n \in 1 .. N : m < n => g[m] < g[n])
        /\ \A i \in Taken(u) : \E n \in 1 .. N : g[n] = i
    BY <1>2, <1>8, <1>9, <1>10
  <2>2. GoesThrough(g, N, u)
    BY ONLY <2>1 DEF GoesThrough
  <2>3. ListedAs(u, g, N)
    BY ONLY Sized(u), Placed(u), Counted(u), <2>2, ListedBy
  <2> QED
    BY ONLY <2>3 DEF ListedAs
<1>12. /\ LiveOrder(t) = [n \in 1 .. t.count |-> t.order[PlaceOf(t, n)]]
       /\ Listing(t) = [n \in 1 .. t.count |-> Pair(t, t.order[PlaceOf(t, n)])]
       /\ Len(LiveOrder(t)) = t.count
  BY OrderIs
<1>13. \A n \in 1 .. t.count : Pair(u, u.order[g[n]]) = Pair(t, t.order[PlaceOf(t, n)])
  <2> TAKE n \in 1 .. t.count
  <2>1. t.order[PlaceOf(t, n)] # e /\ t.order[PlaceOf(t, n)] \in Slots(t)
    BY <1>5, SlotKinds
  <2> QED
    BY <1>1, <1>5, <2>1 DEF Pair
<1>14. Pair(u, u.order[g[N]]) = <<k, v>> /\ u.order[g[N]] = e
  BY <1>1, <1>6 DEF Pair
<1>15. N = t.count + 1
  BY DEF M
<1>16. Listing(u) = Append(Listing(t), <<k, v>>)
  <2>1. Append(Listing(t), <<k, v>>) = [n \in 1 .. N |-> IF n <= t.count THEN Listing(t)[n] ELSE <<k, v>>]
    BY <1>2, <1>12, <1>15
  <2> PICK c : c = t.count
    OBVIOUS
  <2>2. c \in Nat /\ N = c + 1
    BY <1>2, <1>15
  <2>3. \A n \in 1 .. c : Pair(u, u.order[g[n]]) = Listing(t)[n]
    BY <1>12, <1>13
  <2>4. Listing(u) = [n \in 1 .. N |-> IF n <= c THEN Listing(t)[n] ELSE <<k, v>>]
    <3>1. \A n \in 1 .. N : Pair(u, u.order[g[n]]) = IF n <= c THEN Listing(t)[n] ELSE <<k, v>>
      BY ONLY <2>2, <2>3, <1>14
    <3> QED
      BY ONLY <3>1, <1>11
  <2> QED
    BY <2>1, <2>4
<1>17. LiveOrder(u) = Append(LiveOrder(t), e)
  <2>1. Append(LiveOrder(t), e) = [n \in 1 .. N |-> IF n <= t.count THEN LiveOrder(t)[n] ELSE e]
    BY <1>2, <1>12, <1>15
  <2> QED
    BY <1>2, <1>5, <1>11, <1>12, <1>14, <1>15, <2>1
<1> QED
  BY <1>16, <1>17

\* Adding an entry for a new key puts the key last.
LEMMA AddSound ==
  ASSUME NEW t, Sound(t), t.capacity > 0, Len(t.order) < t.capacity,
         t.count + t.tombstones + 1 < t.capacity,
         NEW k \in Key, NEW v \in Value, Holding(t, k) = {},
         NEW d \in Slots(t), NEW e \in Slots(t) \ LiveSlots(t), e = At(t, k, d),
         \A c \in 0 .. d - 1 : At(t, k, c) \notin EmptySlots(t),
         NEW u, Sized(u), Adds(t, u, e, k, v)
  PROVE  /\ Sound(u)
         /\ Listing(u) = Append(Listing(t), <<k, v>>)
         /\ LiveOrder(u) = Append(LiveOrder(t), e)
<1>1. Sized(t) /\ Placed(t) /\ Keyed(t) /\ Reached(t) /\ Counted(t)
  BY DEF Sound
<1>2. Placed(u)
  BY <1>1, AddsPlaced
<1>3. Keyed(u)
  BY <1>1, AddsKeyed
<1>4. Reached(u)
  <2>1. e \in Slots(t) \ LiveSlots(t) /\ d \in Slots(t) /\ k \in Key
    OBVIOUS
  <2> QED
    BY <1>1, <2>1, AddsReached
<1>5. Counted(u)
  BY <1>1, AddsCounted
<1>6. Listing(u) = Append(Listing(t), <<k, v>>) /\ LiveOrder(u) = Append(LiveOrder(t), e)
  BY <1>1, <1>2, <1>5, AddsListed
<1> QED
  BY <1>2, <1>3, <1>4, <1>5, <1>6 DEF Sound

-----------------------------------------------------------------------------
(* compactOrder.                                                           *)

\* compactOrder renumbers the live entries 0, 1, 2 ... and nothing else.
LEMMA CompactedIs ==
  ASSUME NEW t, Sound(t), NEW u, u = Compacted(t)
  PROVE  /\ u.capacity = t.capacity /\ u.count = t.count /\ u.tombstones = t.tombstones
         /\ u.version = t.version /\ u.keyVersion = t.keyVersion
         /\ u.order = LiveOrder(t)
         /\ u.entries \in [Slots(t) -> Entry] /\ Sized(u)
         /\ \A s \in Slots(t) : /\ u.entries[s].key = t.entries[s].key
                                /\ u.entries[s].value = t.entries[s].value
                                /\ s \notin LiveSlots(t) => u.entries[s] = t.entries[s]
         /\ \A n \in 1 .. t.count : u.entries[LiveOrder(t)[n]].order = n - 1
         /\ \A s \in LiveSlots(t) : /\ u.entries[s].order + 1 \in 1 .. t.count
                                    /\ LiveOrder(t)[u.entries[s].order + 1] = s
<1> PICK o : o = LiveOrder(t)
  OBVIOUS
<1> DEFINE E(s) == IF Live(t, s) THEN [t.entries[s] EXCEPT !.order = (CHOOSE i \in DOMAIN o : o[i] = s) - 1]
                   ELSE t.entries[s]
           F == [s \in Slots(t) |-> E(s)]
<1>1. Sized(t) /\ Placed(t) /\ Counted(t) /\ t \in TableOf(t.capacity) /\ t.capacity \in Nat
  BY DEF Sound, Sized
<1>2. t.entries \in [Slots(t) -> Entry] /\ t.count \in Nat
  BY <1>1, FieldTypes
<1>3. /\ o \in Seq(LiveSlots(t)) /\ DOMAIN o = 1 .. t.count /\ Len(o) = t.count
      /\ \A n \in 1 .. t.count : o[n] \in LiveSlots(t)
  BY <1>1, OrderIs
<1>4. /\ \A s \in LiveSlots(t) : \E n \in 1 .. t.count : o[n] = s
      /\ \A m, n \in 1 .. t.count : o[m] = o[n] => m = n
  BY ListingIs
<1>5. ASSUME NEW s \in LiveSlots(t)
      PROVE  \E n \in 1 .. t.count : /\ o[n] = s /\ E(s) = [t.entries[s] EXCEPT !.order = n - 1]
  <2>1. PICK n \in DOMAIN o : o[n] = s
    BY <1>3, <1>4
  <2>2. (CHOOSE i \in DOMAIN o : o[i] = s) = n
    BY <1>3, <1>4, <2>1
  <2>3. Live(t, s)
    BY DEF LiveSlots
  <2>4. E(s) = [t.entries[s] EXCEPT !.order = n - 1]
    BY <2>2, <2>3
  <2> HIDE DEF E
  <2> QED
    BY <2>1, <2>4, <1>3
<1>6. \A s \in Slots(t) : s \notin LiveSlots(t) => E(s) = t.entries[s]
  BY DEF LiveSlots
<1>7. \A s \in Slots(t) : t.entries[s] \in Entry
  BY <1>2
<1> HIDE DEF E
<1>8. ASSUME NEW s \in Slots(t)
      PROVE  E(s) \in Entry /\ E(s).key = t.entries[s].key /\ E(s).value = t.entries[s].value
  <2>1. CASE s \notin LiveSlots(t)
    BY <1>6, <1>7, <2>1
  <2>2. CASE s \in LiveSlots(t)
    <3>1. PICK n \in 1 .. t.count : o[n] = s /\ E(s) = [t.entries[s] EXCEPT !.order = n - 1]
      BY <1>5, <2>2
    <3>2. n - 1 \in Nat
      BY <1>2
    <3> QED
      BY <1>7, <3>1, <3>2 DEF Entry
  <2> QED
    BY <2>1, <2>2
<1>9. ASSUME NEW s \in LiveSlots(t)
      PROVE  E(s).order + 1 \in 1 .. t.count /\ o[E(s).order + 1] = s
  <2>1. PICK n \in 1 .. t.count : o[n] = s /\ E(s) = [t.entries[s] EXCEPT !.order = n - 1]
    BY <1>5
  <2>2. s \in Slots(t) /\ t.entries[s] \in Entry
    BY <1>1, <1>7, SlotKinds
  <2>3. E(s).order = n - 1
    BY <2>1, <2>2 DEF Entry
  <2>4. E(s).order + 1 = n
    BY <1>2, <2>3
  <2> QED
    BY <2>1, <2>4
<1>10. ASSUME NEW n \in 1 .. t.count
       PROVE  E(o[n]).order = n - 1
  <2>1. PICK s \in LiveSlots(t) : s = o[n]
    BY <1>3
  <2>2. PICK m \in 1 .. t.count : o[m] = s /\ E(s) = [t.entries[s] EXCEPT !.order = m - 1]
    BY <1>5
  <2>3. s \in Slots(t) /\ t.entries[s] \in Entry
    BY <1>1, <1>7, SlotKinds
  <2>4. m = n
    BY <1>4, <2>1, <2>2
  <2> QED
    BY <2>1, <2>2, <2>3, <2>4 DEF Entry
<1>11. F \in [Slots(t) -> Entry] /\ \A s \in Slots(t) : F[s] = E(s)
  BY <1>8
<1>12. u = [[t EXCEPT !.order = o] EXCEPT !.entries = F]
  <2>1. u = [t EXCEPT !.order = o, !.entries = F]
    BY DEF Compacted, E
  <2> QED
    BY <2>1
<1> HIDE DEF F
<1>13. o \in Seq(0 .. t.capacity - 1 \union {-1})
  <2>1. LiveSlots(t) \subseteq 0 .. t.capacity - 1 \union {-1}
    BY <1>1, SlotKinds DEF Slots
  <2> QED
    BY <1>3, <2>1, SeqMonotonic
<1>14. /\ u.capacity = t.capacity /\ u.count = t.count /\ u.tombstones = t.tombstones
       /\ u.version = t.version /\ u.keyVersion = t.keyVersion
       /\ u.order = o /\ u.entries = F
       /\ u \in TableOf(t.capacity)
  BY <1>1, <1>11, <1>12, <1>13 DEF TableOf, Slots
<1>15. Sized(u)
  BY <1>1, <1>14 DEF Sized
<1>16. \A s \in Slots(t) : /\ u.entries[s].key = t.entries[s].key
                           /\ u.entries[s].value = t.entries[s].value
                           /\ s \notin LiveSlots(t) => u.entries[s] = t.entries[s]
  BY <1>6, <1>8, <1>11, <1>14
<1>17. \A s \in LiveSlots(t) : /\ u.entries[s].order + 1 \in 1 .. t.count
                               /\ o[u.entries[s].order + 1] = s
  BY <1>1, <1>9, <1>11, <1>14, SlotKinds
<1>18. \A n \in 1 .. t.count : u.entries[o[n]].order = n - 1
  BY <1>1, <1>3, <1>10, <1>11, <1>14, SlotKinds
<1> QED
  BY <1>11, <1>14, <1>15, <1>16, <1>17, <1>18

\* compactOrder keeps the map, and leaves no hole in `order`.
LEMMA CompactedSound ==
  ASSUME NEW t, Sound(t), NEW u, u = Compacted(t)
  PROVE  /\ Sound(u) /\ Listing(u) = Listing(t)
         /\ Slots(u) = Slots(t) /\ LiveSlots(u) = LiveSlots(t) /\ EmptySlots(u) = EmptySlots(t)
         /\ Len(u.order) = t.count
<1>1. Sized(t) /\ Placed(t) /\ Keyed(t) /\ Reached(t) /\ Counted(t) /\ t.count \in Nat
  BY FieldTypes DEF Sound
<1>2. /\ u.capacity = t.capacity /\ u.count = t.count /\ u.tombstones = t.tombstones
      /\ u.order = LiveOrder(t) /\ Sized(u)
      /\ \A s \in Slots(t) : /\ u.entries[s].key = t.entries[s].key
                             /\ u.entries[s].value = t.entries[s].value
                             /\ s \notin LiveSlots(t) => u.entries[s] = t.entries[s]
      /\ \A n \in 1 .. t.count : u.entries[LiveOrder(t)[n]].order = n - 1
      /\ \A s \in LiveSlots(t) : /\ u.entries[s].order + 1 \in 1 .. t.count
                                 /\ LiveOrder(t)[u.entries[s].order + 1] = s
  BY CompactedIs
<1>3. Slots(u) = Slots(t) /\ \A k, d : At(u, k, d) = At(t, k, d)
  BY <1>2, SameSlots
<1>4. \A s \in LiveSlots(t) : u.entries[s].order \in Nat
  <2> TAKE s \in LiveSlots(t)
  <2>1. u.entries[s].order + 1 \in 1 .. t.count /\ s \in Slots(u)
    BY <1>1, <1>2, <1>3, SlotKinds
  <2>2. u.entries[s].order \in {EMPTY, TOMBSTONE} \union Nat
    BY <1>2, <2>1, SlotKinds
  <2> QED
    BY <2>1, <2>2, <1>1 DEF EMPTY, TOMBSTONE
<1>5. \A s \in Slots(t) : /\ s \in LiveSlots(u) <=> s \in LiveSlots(t)
                          /\ s \in EmptySlots(u) <=> s \in EmptySlots(t)
                          /\ s \in Tombs(u) <=> s \in Tombs(t)
  <2> TAKE s \in Slots(t)
  <2>1. CASE s \in LiveSlots(t)
    <3>1. s \in LiveSlots(u)
      BY <1>2, <1>3, <1>4, <2>1, SlotKinds
    <3> QED
      BY <1>1, <1>2, <1>3, <2>1, <3>1, SlotKinds
  <2>2. CASE s \notin LiveSlots(t)
    BY <1>1, <1>2, <1>3, <2>2, SlotKinds
  <2> QED
    BY <2>1, <2>2
<1>6. LiveSlots(u) = LiveSlots(t) /\ EmptySlots(u) = EmptySlots(t) /\ Tombs(u) = Tombs(t)
  <2>1. /\ LiveSlots(t) \subseteq Slots(t) /\ EmptySlots(t) \subseteq Slots(t) /\ Tombs(t) \subseteq Slots(t)
        /\ LiveSlots(u) \subseteq Slots(t) /\ EmptySlots(u) \subseteq Slots(t) /\ Tombs(u) \subseteq Slots(t)
    BY <1>3 DEF LiveSlots, EmptySlots, Tombs
  <2>2. LiveSlots(u) = LiveSlots(t)
    BY ONLY <1>5, <2>1
  <2>3. EmptySlots(u) = EmptySlots(t)
    BY ONLY <1>5, <2>1
  <2>4. Tombs(u) = Tombs(t)
    BY ONLY <1>5, <2>1
  <2> QED
    BY <2>2, <2>3, <2>4
<1>7. /\ Len(u.order) = t.count /\ DOMAIN u.order = 1 .. t.count
      /\ \A n \in 1 .. t.count : u.order[n] \in LiveSlots(t)
  BY <1>1, <1>2, OrderIs
<1>8. t.count <= t.capacity
  BY <1>1, SlotsFinite, SlotKinds DEF Counted
<1>9. Placed(u)
  BY <1>2, <1>6, <1>7, <1>8 DEF Placed
<1>10. \A s \in LiveSlots(t) : s \in Slots(t)
  BY <1>1, SlotKinds
<1>11. Keyed(u)
  BY <1>1, <1>2, <1>6, <1>10 DEF Keyed
<1>12. Reached(u)
  BY <1>1, <1>2, <1>3, <1>6, <1>10 DEF Reached
<1>13. Counted(u)
  BY <1>1, <1>2, <1>6 DEF Counted
<1>14. Listing(u) = Listing(t)
  <2> DEFINE f == [n \in 1 .. t.count |-> n]
  <2>1. Taken(u) = 1 .. t.count
    <3>1. \A n \in 1 .. t.count : u.order[n] >= 0
      BY <1>1, <1>7, SlotKinds DEF Slots
    <3> QED
      BY <1>7, <3>1 DEF Taken
  <2>2. /\ f \in [1 .. t.count -> Taken(u)]
        /\ (\A m, n \in 1 .. t.count : m < n => f[m] < f[n])
        /\ \A i \in Taken(u) : \E n \in 1 .. t.count : f[n] = i
    BY <2>1
  <2>3. Listing(u) = [n \in 1 .. t.count |-> Pair(u, u.order[f[n]])]
    <3> HIDE DEF f
    <3>1. PICK N, g : N = t.count /\ g = f
      OBVIOUS
    <3>2. /\ N \in Nat /\ g \in [1 .. N -> Taken(u)] /\ (\A m, n \in 1 .. N : m < n => g[m] < g[n])
          /\ \A i \in Taken(u) : \E n \in 1 .. N : g[n] = i
      BY <1>1, <2>2, <3>1
    <3>3. Sized(u)
      BY <1>2
    <3>4. Listing(u) = [n \in 1 .. N |-> Pair(u, u.order[g[n]])]
      <4>1. GoesThrough(g, N, u)
        BY ONLY <3>2 DEF GoesThrough
      <4>2. ListedAs(u, g, N)
        BY ONLY <4>1, <3>3, <1>9, <1>13, ListedBy
      <4> QED
        BY ONLY <4>2 DEF ListedAs
    <3> QED
      BY <3>1, <3>4
  <2>4. \A n \in 1 .. t.count : Pair(u, u.order[f[n]]) = Pair(t, LiveOrder(t)[n])
    <3> TAKE n \in 1 .. t.count
    <3>1. PICK s \in LiveSlots(t) : s = LiveOrder(t)[n]
      BY <1>2, <1>7
    <3>2. s \in Slots(t)
      BY <1>10
    <3> QED
      BY <1>2, <3>1, <3>2 DEF Pair
  <2>5. Listing(t) = [n \in 1 .. t.count |-> Pair(t, LiveOrder(t)[n])]
    BY <1>1, OrderIs DEF Listing
  <2> HIDE DEF f
  <2> QED
    BY <2>3, <2>4, <2>5
<1> QED
  BY <1>2, <1>3, <1>6, <1>7, <1>9, <1>11, <1>12, <1>13, <1>14 DEF Sound

-----------------------------------------------------------------------------
(* One field set.                                                          *)

WithEntries(t, u, x) ==
  /\ u.entries = x
  /\ u.order = t.order /\ u.count = t.count /\ u.tombstones = t.tombstones
  /\ u.capacity = t.capacity /\ u.version = t.version /\ u.keyVersion = t.keyVersion
  /\ Sized(u) /\ u \in TableOf(u.capacity)

\* Setting `entries`.
LEMMA SetEntries ==
  ASSUME NEW t, Sized(t), NEW x \in [Slots(t) -> Entry], NEW u, u = [t EXCEPT !.entries = x]
  PROVE  WithEntries(t, u, x)
<1>1. t \in TableOf(t.capacity) /\ t.capacity \in Nat /\ t.capacity # 1
  BY DEF Sized
<1> PICK c : c = t.capacity
  OBVIOUS
<1>2. /\ u.entries = x
      /\ u.order = t.order /\ u.count = t.count /\ u.tombstones = t.tombstones
      /\ u.capacity = t.capacity /\ u.version = t.version /\ u.keyVersion = t.keyVersion
      /\ u \in TableOf(c)
  BY <1>1 DEF TableOf, Slots
<1> QED
  BY <1>1, <1>2 DEF WithEntries, Sized

WithOrder(t, u, x) ==
  /\ u.order = x
  /\ u.entries = t.entries /\ u.count = t.count /\ u.tombstones = t.tombstones
  /\ u.capacity = t.capacity /\ u.version = t.version /\ u.keyVersion = t.keyVersion
  /\ Sized(u) /\ u \in TableOf(u.capacity)

\* Setting `order`.
LEMMA SetOrder ==
  ASSUME NEW t, Sized(t), NEW x \in Seq(Slots(t) \union {-1}), NEW u, u = [t EXCEPT !.order = x]
  PROVE  WithOrder(t, u, x)
<1>1. t \in TableOf(t.capacity) /\ t.capacity \in Nat /\ t.capacity # 1
  BY DEF Sized
<1> PICK c : c = t.capacity
  OBVIOUS
<1>2. /\ u.order = x
      /\ u.entries = t.entries /\ u.count = t.count /\ u.tombstones = t.tombstones
      /\ u.capacity = t.capacity /\ u.version = t.version /\ u.keyVersion = t.keyVersion
      /\ u \in TableOf(c)
  BY <1>1 DEF TableOf, Slots
<1> QED
  BY <1>1, <1>2 DEF WithOrder, Sized

WithCount(t, u, x) ==
  /\ u.count = x
  /\ u.entries = t.entries /\ u.order = t.order /\ u.tombstones = t.tombstones
  /\ u.capacity = t.capacity /\ u.version = t.version /\ u.keyVersion = t.keyVersion
  /\ Sized(u) /\ u \in TableOf(u.capacity)

\* Setting `count`.
LEMMA SetCount ==
  ASSUME NEW t, Sized(t), NEW x \in Nat, NEW u, u = [t EXCEPT !.count = x]
  PROVE  WithCount(t, u, x)
<1>1. t \in TableOf(t.capacity) /\ t.capacity \in Nat /\ t.capacity # 1
  BY DEF Sized
<1> PICK c : c = t.capacity
  OBVIOUS
<1>2. /\ u.count = x
      /\ u.entries = t.entries /\ u.order = t.order /\ u.tombstones = t.tombstones
      /\ u.capacity = t.capacity /\ u.version = t.version /\ u.keyVersion = t.keyVersion
      /\ u \in TableOf(c)
  BY <1>1 DEF TableOf, Slots
<1> QED
  BY <1>1, <1>2 DEF WithCount, Sized

WithTombstones(t, u, x) ==
  /\ u.tombstones = x
  /\ u.entries = t.entries /\ u.order = t.order /\ u.count = t.count
  /\ u.capacity = t.capacity /\ u.version = t.version /\ u.keyVersion = t.keyVersion
  /\ Sized(u) /\ u \in TableOf(u.capacity)

\* Setting `tombstones`.
LEMMA SetTombstones ==
  ASSUME NEW t, Sized(t), NEW x \in Nat, NEW u, u = [t EXCEPT !.tombstones = x]
  PROVE  WithTombstones(t, u, x)
<1>1. t \in TableOf(t.capacity) /\ t.capacity \in Nat /\ t.capacity # 1
  BY DEF Sized
<1> PICK c : c = t.capacity
  OBVIOUS
<1>2. /\ u.tombstones = x
      /\ u.entries = t.entries /\ u.order = t.order /\ u.count = t.count
      /\ u.capacity = t.capacity /\ u.version = t.version /\ u.keyVersion = t.keyVersion
      /\ u \in TableOf(c)
  BY <1>1 DEF TableOf, Slots
<1> QED
  BY <1>1, <1>2 DEF WithTombstones, Sized


-----------------------------------------------------------------------------
(* insertAt and the writes built on it.                                    *)

\* Compiled code that has baked slots of t may go on with u.
Pinned(t, u) ==
  /\ u.capacity = t.capacity
  /\ \A s \in Slots(t) : Live(u, s) = Live(t, s) /\ u.entries[s].key = t.entries[s].key

\* insertAt of a new key in the free slot findEntry gives puts the key last.
LEMMA InsertedSound ==
  ASSUME NEW t, Sound(t), t.capacity > 0, t.count + t.tombstones + 1 < t.capacity,
         NEW k \in Key, NEW v \in Value, Holding(t, k) = {},
         NEW d \in Slots(t), NEW e \in Slots(t) \ LiveSlots(t), e = At(t, k, d),
         \A x \in 0 .. d - 1 : At(t, k, x) \in LiveSlots(t),
         NEW u, u = Inserted(t, e, k, v)
  PROVE  /\ Sound(u) /\ Listing(u) = Append(Listing(t), <<k, v>>)
         /\ u.capacity = t.capacity /\ u.count = t.count + 1
         /\ u.count + u.tombstones <= t.count + t.tombstones + 1
         /\ u.keyVersion = Later(t.keyVersion, 1) /\ u.version = Later(t.version, 1)
<1>1. Sized(t) /\ Counted(t) /\ t.count \in Nat /\ t.tombstones \in Nat /\ t.capacity \in Nat
  BY FieldTypes DEF Sound
<1> PICK c : c = IF Len(t.order) >= t.capacity THEN Compacted(t) ELSE t
  OBVIOUS
<1>2. /\ Sound(c) /\ Listing(c) = Listing(t)
      /\ Slots(c) = Slots(t) /\ LiveSlots(c) = LiveSlots(t) /\ EmptySlots(c) = EmptySlots(t)
      /\ Len(c.order) < t.capacity
      /\ c.capacity = t.capacity /\ c.count = t.count /\ c.tombstones = t.tombstones
      /\ c.keyVersion = t.keyVersion /\ c.version = t.version
      /\ c.entries[e] = t.entries[e]
      /\ \A s \in Slots(t) : c.entries[s].key = t.entries[s].key
  <2>1. CASE Len(t.order) >= t.capacity
    <3>1. c = Compacted(t)
      BY <2>1
    <3>2. /\ Sound(c) /\ Listing(c) = Listing(t)
          /\ Slots(c) = Slots(t) /\ LiveSlots(c) = LiveSlots(t) /\ EmptySlots(c) = EmptySlots(t)
          /\ Len(c.order) = t.count
      BY <3>1, CompactedSound
    <3>3. /\ c.capacity = t.capacity /\ c.count = t.count /\ c.tombstones = t.tombstones
          /\ c.keyVersion = t.keyVersion /\ c.version = t.version
          /\ \A s \in Slots(t) : /\ c.entries[s].key = t.entries[s].key
                                 /\ s \notin LiveSlots(t) => c.entries[s] = t.entries[s]
      BY <3>1, CompactedIs
    <3>4. t.count < t.capacity
      BY <1>1
    <3> QED
      BY <3>2, <3>3, <3>4
  <2>2. CASE ~ Len(t.order) >= t.capacity
    <3>1. c = t /\ Len(t.order) < t.capacity
      BY <1>1, <2>2, FieldTypes
    <3> QED
      BY <3>1
  <2> QED
    BY <2>1, <2>2
<1>3. Holding(c, k) = {}
  <2>1. \A s \in LiveSlots(t) : s \in Slots(t)
    BY <1>1, SlotKinds
  <2> QED
    BY <1>2, <2>1, HoldingIs
<1>4. /\ \A x : At(c, k, x) = At(t, k, x)
      /\ e = At(c, k, d) /\ d \in Slots(c) /\ e \in Slots(c) \ LiveSlots(c)
      /\ \A x \in 0 .. d - 1 : At(c, k, x) \notin EmptySlots(c)
  <2>1. \A x : At(c, k, x) = At(t, k, x)
    BY <1>2, SameSlots
  <2>2. LiveSlots(t) \cap EmptySlots(t) = {}
    BY <1>1, SlotKinds
  <2> QED
    BY <1>2, <2>1, <2>2
<1> PICK n, r, tm : /\ n = [key |-> k, value |-> v, order |-> Len(c.order)]
                    /\ r = Append(c.order, e)
                    /\ tm = IF t.entries[e].order = TOMBSTONE THEN c.tombstones - 1 ELSE c.tombstones
  OBVIOUS
<1> DEFINE w == [[[[c EXCEPT !.tombstones = tm] EXCEPT !.count = c.count + 1]
                   EXCEPT !.entries = [c.entries EXCEPT ![e] = n]] EXCEPT !.order = r]
<1>5. Sized(c) /\ c \in TableOf(c.capacity) /\ c.capacity \in Nat /\ c.capacity # 1
  BY <1>2 DEF Sound, Sized
<1>6. /\ c.entries \in [Slots(c) -> Entry] /\ c.order \in Seq(Slots(c) \union {-1})
      /\ Len(c.order) \in Nat /\ c.count \in Nat /\ c.tombstones \in Nat
  BY <1>5, FieldTypes
<1>7. n \in Entry /\ [c.entries EXCEPT ![e] = n] \in [Slots(c) -> Entry]
  <2>1. n \in Entry
    BY <1>6 DEF Entry
  <2> QED
    BY <1>6, <2>1
<1>8. r \in Seq(Slots(c) \union {-1})
  BY <1>2, <1>6
<1>9. tm \in Nat
  <2>1. CASE t.entries[e].order = TOMBSTONE
    <3>1. e \in Tombs(c)
      BY <1>2, <1>5, <2>1, SlotKinds
    <3>2. IsFiniteSet(Tombs(c)) /\ Cardinality(Tombs(c)) = c.tombstones
      BY <1>2, <1>5, SlotsFinite, SlotKinds DEF Sound, Counted
    <3>3. c.tombstones # 0
      BY <3>1, <3>2, FS_EmptySet
    <3> QED
      BY <1>6, <2>1, <3>3
  <2>2. CASE t.entries[e].order # TOMBSTONE
    BY <1>6, <2>2
  <2> QED
    BY <2>1, <2>2
<1>10. u = Bumped(w)
  <2>1. u = Bumped([c EXCEPT !.tombstones = IF t.entries[e].order = TOMBSTONE THEN @ - 1 ELSE @,
                             !.count = @ + 1, !.entries[e] = n, !.order = Append(@, e)])
    BY DEF Inserted
  <2>2. [c EXCEPT !.tombstones = IF t.entries[e].order = TOMBSTONE THEN @ - 1 ELSE @,
                  !.count = @ + 1, !.entries[e] = n, !.order = Append(@, e)] = w
    BY <1>5 DEF TableOf
  <2> QED
    BY <2>1, <2>2
<1> PICK x : x = w
  OBVIOUS
<1>11. /\ x.capacity = c.capacity /\ x.count = c.count + 1 /\ x.tombstones = tm
       /\ x.entries = [c.entries EXCEPT ![e] = n] /\ x.order = r
       /\ x.keyVersion = c.keyVersion /\ x.version = c.version
       /\ x \in TableOf(c.capacity)
  <2>1. c.count + 1 \in Nat
    BY <1>6
  <2>2. PICK x1 : x1 = [c EXCEPT !.tombstones = tm]
    OBVIOUS
  <2>3. PICK x2 : x2 = [x1 EXCEPT !.count = c.count + 1]
    OBVIOUS
  <2>4. PICK x3 : x3 = [x2 EXCEPT !.entries = [c.entries EXCEPT ![e] = n]]
    OBVIOUS
  <2>5. x = [x3 EXCEPT !.order = r]
    BY <2>2, <2>3, <2>4
  <2> HIDE DEF w
  <2>6. WithTombstones(c, x1, tm)
    BY <1>5, <1>9, <2>2, SetTombstones
  <2>7. WithCount(x1, x2, c.count + 1)
    BY <2>1, <2>3, <2>6, SetCount DEF WithTombstones
  <2>8. x1.capacity = c.capacity /\ x2.capacity = c.capacity /\ Slots(x2) = Slots(c)
    BY <2>6, <2>7 DEF WithTombstones, WithCount, Slots
  <2>9. WithEntries(x2, x3, [c.entries EXCEPT ![e] = n])
    BY <1>7, <2>4, <2>7, <2>8, SetEntries DEF WithCount
  <2>10. Slots(x3) = Slots(c) /\ x3.capacity = c.capacity
    BY <2>8, <2>9 DEF WithEntries, Slots
  <2>11. WithOrder(x3, x, r)
    BY <1>8, <2>5, <2>9, <2>10, SetOrder DEF WithEntries
  <2>12. x \in TableOf(c.capacity)
    BY <2>10, <2>11 DEF WithOrder
  <2> QED
    BY <2>6, <2>7, <2>9, <2>11, <2>12 DEF WithTombstones, WithCount, WithEntries, WithOrder
<1> HIDE DEF w
<1>12. Sized(x) /\ Adds(c, x, e, k, v)
  BY <1>2, <1>5, <1>11 DEF Sized, Adds
<1>13. Sound(x) /\ Listing(x) = Append(Listing(c), <<k, v>>)
  <2>1. /\ c.capacity > 0 /\ Len(c.order) < c.capacity
        /\ c.count + c.tombstones + 1 < c.capacity
    BY <1>2
  <2>2. Sound(c) /\ k \in Key /\ v \in Value
    BY <1>2
  <2> QED
    BY ONLY <2>1, <2>2, <1>3, <1>4, <1>12, AddSound
<1>14. /\ Sound(u) /\ Listing(u) = Listing(x) /\ u.capacity = x.capacity /\ u.count = x.count
       /\ u.tombstones = x.tombstones /\ u.keyVersion = Later(x.keyVersion, 1)
       /\ u.version = Later(x.version, 1)
  <2>1. Sound(x) /\ u = Bumped(x)
    BY <1>10, <1>13
  <2>2. /\ Sound(Bumped(x)) /\ Listing(Bumped(x)) = Listing(x) /\ Bumped(x).capacity = x.capacity
        /\ Bumped(x).count = x.count /\ Bumped(x).tombstones = x.tombstones
        /\ Bumped(x).keyVersion = Later(x.keyVersion, 1) /\ Bumped(x).version = Later(x.version, 1)
    BY ONLY <2>1, BumpedSound
  <2> QED
    BY ONLY <2>1, <2>2
<1>15. tm <= t.tombstones
  BY <1>1, <1>2
<1>16. /\ Sound(u) /\ Listing(u) = Append(Listing(t), <<k, v>>)
       /\ u.capacity = t.capacity /\ u.count = t.count + 1 /\ u.tombstones = tm
       /\ u.keyVersion = Later(t.keyVersion, 1) /\ u.version = Later(t.version, 1)
  BY ONLY <1>2, <1>11, <1>13, <1>14
<1>17. u.count + u.tombstones <= t.count + t.tombstones + 1
  <2> PICK a, b, y : a = t.count /\ b = t.tombstones /\ y = tm
    OBVIOUS
  <2>1. a \in Nat /\ b \in Nat /\ y \in Int /\ y <= b
    BY <1>1, <1>9, <1>15
  <2>2. (a + 1) + y <= a + b + 1
    BY ONLY <2>1
  <2> QED
    BY <1>16, <2>2
<1> QED
  BY ONLY <1>16, <1>17

\* What insertAt does to an entry that has the key.
LEMMA OverwrittenIs ==
  ASSUME NEW t, Sized(t), NEW e \in Slots(t), NEW v \in Value, NEW u, u = Overwritten(t, e, v)
  PROVE  /\ Sized(u) /\ u.capacity = t.capacity /\ u.count = t.count /\ u.tombstones = t.tombstones
         /\ u.order = t.order /\ u.keyVersion = t.keyVersion /\ u.version = Later(t.version, 1)
         /\ \A s \in Slots(t) : s # e => u.entries[s] = t.entries[s]
         /\ u.entries[e].key = t.entries[e].key /\ u.entries[e].order = t.entries[e].order
         /\ u.entries[e].value = v
<1> PICK n, y : n = [t.entries[e] EXCEPT !.value = v] /\ y = Later(t.version, 1)
  OBVIOUS
<1>1. /\ t.entries \in [Slots(t) -> Entry] /\ t \in TableOf(t.capacity)
      /\ y \in 0 .. VersionMod - 1
  BY FieldTypes, LaterType DEF Sized
<1>2. t.entries[e] \in Entry
  BY <1>1
<1>3. n \in Entry /\ n.key = t.entries[e].key /\ n.order = t.entries[e].order /\ n.value = v
  BY <1>2 DEF Entry
<1> DEFINE w == [[t EXCEPT !.entries = [t.entries EXCEPT ![e] = n]] EXCEPT !.version = y]
<1>4. u = w
  BY <1>1 DEF Overwritten, TableOf
<1>5. [t.entries EXCEPT ![e] = n] \in [Slots(t) -> Entry]
  BY <1>1, <1>3
<1>6. /\ u.capacity = t.capacity /\ u.count = t.count /\ u.tombstones = t.tombstones
      /\ u.order = t.order /\ u.keyVersion = t.keyVersion /\ u.version = y
      /\ u.entries = [t.entries EXCEPT ![e] = n]
      /\ u \in TableOf(t.capacity)
  BY <1>1, <1>4, <1>5 DEF TableOf, Slots
<1>7. u.entries[e] = n /\ \A s \in Slots(t) : s # e => u.entries[s] = t.entries[s]
  BY <1>1, <1>6
<1> QED
  BY <1>3, <1>6, <1>7 DEF Sized

\* Overwriting leaves the key where it is, and keyVersion too.
LEMMA OverwrittenSound ==
  ASSUME NEW t, Sound(t), NEW k \in Key, NEW e \in Holding(t, k), NEW v \in Value,
         NEW u, u = Overwritten(t, e, v)
  PROVE  /\ Sound(u) /\ Listing(u) = Abs!With(Listing(t), k, v)
         /\ u.count = t.count /\ u.tombstones = t.tombstones
         /\ u.keyVersion = t.keyVersion /\ Pinned(t, u) /\ u.version = Later(t.version, 1)
<1>1. Sized(t) /\ Placed(t) /\ Keyed(t) /\ Reached(t) /\ Counted(t) /\ t.count \in Nat
  BY FieldTypes DEF Sound
<1>2. e \in LiveSlots(t) /\ e \in Slots(t) /\ t.entries[e].key = k
  BY <1>1, HoldingIs, SlotKinds
<1>3. /\ Sized(u) /\ u.capacity = t.capacity /\ u.count = t.count /\ u.tombstones = t.tombstones
      /\ u.order = t.order /\ u.keyVersion = t.keyVersion /\ u.version = Later(t.version, 1)
      /\ \A s \in Slots(t) : s # e => u.entries[s] = t.entries[s]
      /\ u.entries[e].key = t.entries[e].key /\ u.entries[e].order = t.entries[e].order
      /\ u.entries[e].value = v
  BY <1>1, <1>2, OverwrittenIs
<1>4. Slots(u) = Slots(t) /\ \A j, d : At(u, j, d) = At(t, j, d)
  BY <1>3, SameSlots
<1>5. \A s \in Slots(t) : u.entries[s].key = t.entries[s].key /\ u.entries[s].order = t.entries[s].order
  BY <1>3
<1>6. LiveSlots(u) = LiveSlots(t) /\ EmptySlots(u) = EmptySlots(t) /\ Tombs(u) = Tombs(t)
  BY <1>4, <1>5 DEF LiveSlots, Live, EmptySlots, Tombs
<1>7. \A s \in LiveSlots(t) : s \in Slots(t)
  BY <1>1, SlotKinds
<1>8. Placed(u)
  <2>1. \A i \in DOMAIN t.order : t.order[i] >= 0 => t.order[i] \in Slots(t)
    BY <1>1, TakenIs, FieldTypes DEF Taken
  <2> QED
    BY <1>1, <1>3, <1>5, <1>6, <1>7, <2>1 DEF Placed
<1>9. Keyed(u)
  BY <1>1, <1>3, <1>5, <1>6, <1>7 DEF Keyed
<1>10. Reached(u)
  BY <1>1, <1>4, <1>5, <1>6, <1>7 DEF Reached
<1>11. Counted(u)
  BY <1>1, <1>3, <1>6 DEF Counted
<1>12. Sound(u)
  BY <1>3, <1>8, <1>9, <1>10, <1>11 DEF Sound
<1>13. Pinned(t, u)
  BY <1>3, <1>5 DEF Pinned, Live
<1> PICK m, o : m = Listing(t) /\ o = LiveOrder(t)
  OBVIOUS
<1>14. /\ DOMAIN m = 1 .. t.count
       /\ \A n \in 1 .. t.count : m[n] = Pair(t, o[n]) /\ o[n] \in LiveSlots(t)
       /\ \A i, n \in 1 .. t.count : o[i] = o[n] => i = n
       /\ \A i, n \in 1 .. t.count : m[i][1] = m[n][1] => i = n
       /\ m \in Seq(Key \X Value)
  BY ListingIs
<1>15. PICK j \in 1 .. t.count : o[j] = e
  BY <1>2, ListingIs
<1>16. m[j][1] = k
  BY <1>2, <1>14, <1>15 DEF Pair
<1>17. k \in Abs!KeysOf(m) /\ Abs!IndexOf(m, k) = j
  BY <1>14, <1>15, <1>16 DEF Abs!KeysOf, Abs!IndexOf
<1>18. Abs!With(m, k, v) = [m EXCEPT ![j] = <<k, v>>]
  BY <1>17 DEF Abs!With
<1>19. LiveOrder(u) = o
  BY <1>3 DEF LiveOrder
<1>20. DOMAIN o = 1 .. t.count
  BY <1>1, OrderIs
<1>21. Listing(u) = [n \in 1 .. t.count |-> Pair(u, o[n])]
  BY <1>19, <1>20 DEF Listing
<1>22. \A n \in 1 .. t.count : Pair(u, o[n]) = IF n = j THEN <<k, v>> ELSE m[n]
  <2> TAKE n \in 1 .. t.count
  <2>1. CASE n = j
    BY <1>2, <1>3, <1>15, <2>1 DEF Pair
  <2>2. CASE n # j
    <3>1. o[n] # e /\ o[n] \in Slots(t)
      BY <1>7, <1>14, <1>15, <2>2
    <3> QED
      BY <1>3, <1>14, <2>2, <3>1 DEF Pair
  <2> QED
    BY <2>1, <2>2
<1>23. Listing(u) = [m EXCEPT ![j] = <<k, v>>]
  <2>1. [m EXCEPT ![j] = <<k, v>>] = [n \in 1 .. t.count |-> IF n = j THEN <<k, v>> ELSE m[n]]
    BY <1>14
  <2>2. Listing(u) = [n \in 1 .. t.count |-> IF n = j THEN <<k, v>> ELSE m[n]]
    BY <1>21, <1>22
  <2> QED
    BY <2>1, <2>2
<1> QED
  BY <1>3, <1>12, <1>13, <1>18, <1>23

\* findEntry and insertAt.
LEMMA PutSound ==
  ASSUME NEW t, Sound(t), t.capacity > 0, NEW k \in Key, NEW v \in Value,
         Holding(t, k) = {} => t.count + t.tombstones + 1 < t.capacity,
         NEW u, u = Put(t, k, v)
  PROVE  /\ Sound(u) /\ Listing(u) = Abs!With(Listing(t), k, v)
         /\ u.capacity = t.capacity /\ u.count \in {t.count, t.count + 1}
         /\ u.count + u.tombstones <= t.count + t.tombstones + 1
         /\ u.keyVersion = Later(t.keyVersion, u.count - t.count)
         /\ (u.count = t.count => Pinned(t, u)) /\ u.version = Later(t.version, 1)
<1> PICK e : e = EntryFor(t, k)
  OBVIOUS
<1>1. /\ t.count \in Nat /\ t.tombstones \in Nat /\ t.capacity \in Nat /\ Sized(t)
      /\ t.keyVersion \in 0 .. VersionMod - 1
  BY FieldTypes DEF Sound
<1>2. CASE Holding(t, k) # {}
  <2>1. e \in Holding(t, k) /\ Holds(t, e, k)
    BY <1>2, EntryForHeld
  <2>2. u = Overwritten(t, e, v)
    BY <2>1 DEF Put
  <2>3. /\ Sound(u) /\ Listing(u) = Abs!With(Listing(t), k, v)
        /\ u.count = t.count /\ u.tombstones = t.tombstones
        /\ u.keyVersion = t.keyVersion /\ Pinned(t, u) /\ u.version = Later(t.version, 1)
    BY <2>1, <2>2, OverwrittenSound
  <2>4. u.keyVersion = Later(t.keyVersion, u.count - t.count)
    <3>1. u.count - t.count = 0
      BY <1>1, <2>3
    <3> QED
      BY <1>1, <2>3, <3>1, LaterNone
  <2> QED
    BY <1>1, <2>3, <2>4 DEF Pinned
<1>3. CASE Holding(t, k) = {}
  <2>1. e \in Slots(t) \ LiveSlots(t) /\ ~ Holds(t, e, k)
    BY <1>3, EntryForFree
  <2>2. PICK d \in Slots(t) : e = At(t, k, d) /\ \A x \in 0 .. d - 1 : At(t, k, x) \in LiveSlots(t)
    BY <1>3, EntryForFree
  <2>3. u = Inserted(t, e, k, v)
    BY <2>1 DEF Put
  <2>4. /\ Sound(u) /\ Listing(u) = Append(Listing(t), <<k, v>>)
        /\ u.capacity = t.capacity /\ u.count = t.count + 1
        /\ u.count + u.tombstones <= t.count + t.tombstones + 1
        /\ u.keyVersion = Later(t.keyVersion, 1) /\ u.version = Later(t.version, 1)
    BY <1>3, <2>1, <2>2, <2>3, InsertedSound
  <2>5. k \notin Abs!KeysOf(Listing(t))
    <3> SUFFICES ASSUME NEW n \in DOMAIN Listing(t), Listing(t)[n][1] = k PROVE FALSE
      BY DEF Abs!KeysOf
    <3>1. PICK s \in LiveSlots(t) : Listing(t)[n] = Pair(t, s)
      BY ListingIs
    <3>2. t.entries[s].key = k
      BY <3>1 DEF Pair
    <3> QED
      BY <1>3, <3>2, HoldingIs
  <2>6. Listing(u) = Abs!With(Listing(t), k, v)
    BY <2>4, <2>5 DEF Abs!With
  <2>7. u.count - t.count = 1 /\ u.count # t.count
    BY <1>1, <2>4
  <2> QED
    BY <2>4, <2>6, <2>7
<1> QED
  BY <1>2, <1>3

-----------------------------------------------------------------------------
(* adjustCapacity.                                                         *)

\* The fields of a new array.
LEMMA BareIs ==
  ASSUME NEW t, Sized(t), NEW c \in Nat, c # 1, NEW u, u = Bare(t, c)
  PROVE  /\ u.capacity = c /\ u.count = 0 /\ u.tombstones = 0 /\ u.order = <<>>
         /\ u.entries = [s \in 0 .. c - 1 |-> EmptyEntry]
         /\ u.keyVersion = t.keyVersion /\ u.version = t.version /\ Sized(u)
<1> PICK E : E = [s \in 0 .. c - 1 |-> EmptyEntry]
  OBVIOUS
<1>1. t \in TableOf(t.capacity)
  BY DEF Sized
<1>2. u = [t EXCEPT !.entries = E, !.order = <<>>, !.count = 0, !.tombstones = 0, !.capacity = c]
  BY DEF Bare
<1>3. EmptyEntry \in Entry
  BY DEF EmptyEntry, Entry
<1>4. E \in [0 .. c - 1 -> Entry]
  BY <1>3
<1>5. <<>> \in Seq(0 .. c - 1 \union {-1})
  OBVIOUS
<1>6. /\ u.capacity = c /\ u.count = 0 /\ u.tombstones = 0 /\ u.order = <<>> /\ u.entries = E
      /\ u.keyVersion = t.keyVersion /\ u.version = t.version
  BY <1>1, <1>2 DEF TableOf
<1>7. u \in TableOf(c)
  <2>1. u = [entries |-> E, order |-> <<>>, count |-> 0, tombstones |-> 0, capacity |-> c,
             version |-> t.version, keyVersion |-> t.keyVersion]
    BY <1>1, <1>2 DEF TableOf
  <2>2. t.version \in 0 .. VersionMod - 1 /\ t.keyVersion \in 0 .. VersionMod - 1
    BY FieldTypes
  <2> QED
    BY <2>1, <2>2, <1>4, <1>5 DEF TableOf
<1> QED
  BY <1>6, <1>7 DEF Sized

\* A new array is sound and empty.
LEMMA BareSound ==
  ASSUME NEW t, Sized(t), NEW c \in Nat, c # 1, NEW u, u = Bare(t, c)
  PROVE  /\ Sound(u) /\ Listing(u) = <<>>
         /\ u.capacity = c /\ u.count = 0 /\ u.tombstones = 0 /\ Len(u.order) = 0
         /\ u.keyVersion = t.keyVersion /\ u.version = t.version
<1>1. /\ u.capacity = c /\ u.count = 0 /\ u.tombstones = 0 /\ u.order = <<>>
      /\ u.entries = [s \in 0 .. c - 1 |-> EmptyEntry]
      /\ u.keyVersion = t.keyVersion /\ u.version = t.version /\ Sized(u)
  BY BareIs
<1>2. Slots(u) = 0 .. c - 1
  BY <1>1 DEF Slots
<1>3. \A s \in Slots(u) : u.entries[s].order = EMPTY
  BY <1>1, <1>2 DEF EmptyEntry
<1>4. LiveSlots(u) = {} /\ Tombs(u) = {}
  BY <1>3 DEF LiveSlots, Live, Tombs, EMPTY, TOMBSTONE
<1>5. Len(u.order) = 0 /\ DOMAIN u.order = {}
  BY <1>1
<1>6. Placed(u)
  BY <1>1, <1>4, <1>5 DEF Placed
<1>7. Keyed(u) /\ Reached(u)
  BY <1>4 DEF Keyed, Reached
<1>8. Counted(u)
  BY <1>1, <1>4, FS_EmptySet DEF Counted
<1>9. Sound(u)
  BY <1>1, <1>6, <1>7, <1>8 DEF Sound
<1>10. Listing(u) = <<>>
  <2>1. Listing(u) \in Seq(Key \X Value) /\ Len(Listing(u)) = 0
    BY <1>1, <1>9, ListingIs
  <2> QED
    BY <2>1, EmptySeq
<1> QED
  BY <1>1, <1>5, <1>9, <1>10

\* findEmptySlot and the copy of an entry into it.
LEMMA MovedSound ==
  ASSUME NEW t, Sound(t), t.tombstones = 0, Len(t.order) = t.count, t.count + 1 < t.capacity,
         NEW e, e \in Entry, e.key \in Key, e.value \in Value, Holding(t, e.key) = {},
         NEW u, u = Moved(t, e)
  PROVE  /\ Sound(u) /\ Listing(u) = Append(Listing(t), <<e.key, e.value>>)
         /\ u.capacity = t.capacity /\ u.count = t.count + 1 /\ u.tombstones = 0
         /\ Len(u.order) = u.count /\ u.keyVersion = t.keyVersion /\ u.version = t.version
<1> PICK k, v : k = e.key /\ v = e.value
  OBVIOUS
<1>1. Sized(t) /\ Counted(t) /\ t.capacity \in Nat /\ t.count \in Nat /\ t.capacity > 0
  <2>1. Sized(t) /\ Counted(t)
    BY DEF Sound
  <2>2. t.capacity \in Nat /\ t.count \in Nat
    BY <2>1, FieldTypes
  <2> QED
    BY <2>1, <2>2
<1> PICK to : to = Probe(t, k, EmptySlots(t))
  OBVIOUS
<1>2. PICK x \in Slots(t) \cap EmptySlots(t) : TRUE
  BY <1>1, SomeEmpty, SlotKinds
<1>3. /\ to \in Slots(t) \cap EmptySlots(t)
      /\ \E d \in Slots(t) : /\ to = At(t, k, d)
                             /\ \A y \in 0 .. d - 1 : At(t, k, y) \in Slots(t) \ EmptySlots(t)
  BY <1>1, <1>2, ProbeStops
<1>4. PICK d \in Slots(t) : /\ to = At(t, k, d)
                            /\ \A y \in 0 .. d - 1 : At(t, k, y) \notin EmptySlots(t)
  BY <1>3
<1>5. to \in Slots(t) \ LiveSlots(t) /\ t.entries[to].order = EMPTY
  BY <1>1, <1>3, SlotKinds
<1> PICK n, r : n = [e EXCEPT !.order = t.count] /\ r = Append(t.order, to)
  OBVIOUS
<1>6. n \in Entry /\ n = [key |-> k, value |-> v, order |-> Len(t.order)]
  BY <1>1 DEF Entry
<1>7. t.entries \in [Slots(t) -> Entry] /\ t.order \in Seq(Slots(t) \union {-1})
  BY <1>1, FieldTypes
<1>8. [t.entries EXCEPT ![to] = n] \in [Slots(t) -> Entry] /\ r \in Seq(Slots(t) \union {-1})
  BY <1>5, <1>6, <1>7
<1>9. PICK x1 : x1 = [t EXCEPT !.entries = [t.entries EXCEPT ![to] = n]]
  OBVIOUS
<1>10. PICK x2 : x2 = [x1 EXCEPT !.order = r]
  OBVIOUS
<1>11. u = [x2 EXCEPT !.count = t.count + 1]
  <2>1. u = [t EXCEPT !.entries[to] = n, !.order = Append(@, to), !.count = @ + 1]
    BY DEF Moved
  <2>2. t \in TableOf(t.capacity)
    BY <1>1 DEF Sized
  <2> QED
    BY <1>9, <1>10, <2>1, <2>2 DEF TableOf
<1>12. WithEntries(t, x1, [t.entries EXCEPT ![to] = n])
  BY <1>1, <1>8, <1>9, SetEntries
<1>13. Slots(x1) = Slots(t)
  BY <1>12 DEF WithEntries, Slots
<1>14. WithOrder(x1, x2, r)
  BY <1>8, <1>10, <1>12, <1>13, SetOrder DEF WithEntries
<1>15. WithCount(x2, u, t.count + 1)
  <2>1. t.count + 1 \in Nat
    BY <1>1
  <2> QED
    BY <2>1, <1>11, <1>14, SetCount DEF WithOrder
<1>16. /\ Sized(u) /\ u.capacity = t.capacity /\ u.count = t.count + 1 /\ u.tombstones = t.tombstones
       /\ u.entries = [t.entries EXCEPT ![to] = n] /\ u.order = r /\ u.keyVersion = t.keyVersion
       /\ u.version = t.version
  BY <1>12, <1>14, <1>15 DEF WithEntries, WithOrder, WithCount
<1>17. Adds(t, u, to, k, v)
  <2>1. EMPTY # TOMBSTONE
    BY DEF EMPTY, TOMBSTONE
  <2> QED
    BY <1>5, <1>6, <1>16, <2>1 DEF Adds
<1>18. Sound(u) /\ Listing(u) = Append(Listing(t), <<k, v>>)
  <2>1. /\ t.capacity > 0 /\ Len(t.order) < t.capacity
        /\ t.count + t.tombstones + 1 < t.capacity
    BY <1>1
  <2>2. Sound(t) /\ k \in Key /\ v \in Value /\ Holding(t, k) = {} /\ Sized(u)
    BY <1>16
  <2> QED
    BY ONLY <2>1, <2>2, <1>4, <1>5, <1>17, AddSound
<1>19. Len(u.order) = t.count + 1
  <2>1. Len(u.order) = Len(t.order) + 1
    BY ONLY <1>1, <1>5, <1>17, AddsArray
  <2> QED
    BY <2>1
<1> QED
  BY <1>16, <1>18, <1>19

\* The recursion of Moves defines a function.
LEMMA MovesIs ==
  ASSUME NEW t, NEW c, NEW N \in Nat, N = Len(LiveOrder(t)), NEW M, M = Moves(t, c)
  PROVE  /\ M[0] = Bare(t, c)
         /\ \A n \in 1 .. N : M[n] = Moved(M[n - 1], t.entries[LiveOrder(t)[n]])
<1> DEFINE G(x, n) == Moved(x, t.entries[LiveOrder(t)[n]])
           F(f, m) == [n \in 0 .. m |-> IF n = 0 THEN Bare(t, c) ELSE G(f[n - 1], n)]
           S == {m \in Nat : \E f : f = F(f, m)}
<1>1. 0 \in S
  <2>1. PICK f : f = [n \in 0 .. 0 |-> Bare(t, c)]
    OBVIOUS
  <2> HIDE DEF G
  <2>2. f = F(f, 0)
    BY <2>1
  <2> QED
    BY <2>2
<1>2. ASSUME NEW m \in S PROVE m + 1 \in S
  <2> HIDE DEF G
  <2>1. PICK f : f = F(f, m)
    OBVIOUS
  <2>2. m \in Nat
    OBVIOUS
  <2>3. PICK g : g = [n \in 0 .. m + 1 |-> IF n = m + 1 THEN G(f[m], n) ELSE f[n]]
    OBVIOUS
  <2>4. \A n \in 0 .. m : g[n] = f[n]
    BY <2>2, <2>3
  <2>5. \A n \in 0 .. m + 1 : g[n] = IF n = 0 THEN Bare(t, c) ELSE G(g[n - 1], n)
    <3> TAKE n \in 0 .. m + 1
    <3>1. CASE n = m + 1
      <4>1. g[n] = G(f[m], n) /\ n # 0 /\ n - 1 = m /\ m \in 0 .. m
        BY <2>2, <2>3, <3>1
      <4>2. g[n - 1] = f[m]
        BY <2>4, <4>1
      <4> QED
        BY <4>1, <4>2
    <3>2. CASE n = 0
      BY <2>1, <2>2, <2>4, <3>2
    <3>3. CASE n \in 1 .. m
      <4>1. n \in 0 .. m /\ n - 1 \in 0 .. m /\ n # 0
        BY <2>2, <3>3
      <4>2. f[n] = G(f[n - 1], n)
        BY <2>1, <4>1
      <4> QED
        BY <2>4, <4>1, <4>2
    <3> QED
      BY <2>2, <3>1, <3>2, <3>3
  <2>6. g = F(g, m + 1)
    <3>1. g = [n \in 0 .. m + 1 |-> g[n]]
      BY <2>3
    <3> QED
      BY <2>5, <3>1
  <2> QED
    BY <2>2, <2>6
<1>3. S = Nat
  <2> HIDE DEF S
  <2>1. S \in SUBSET Nat
    BY DEF S
  <2> QED
    BY <1>1, <1>2, <2>1, Inductive
<1>4. \E f : f = F(f, N)
  BY <1>3
<1>5. M = CHOOSE f : f = F(f, N)
  BY DEF Moves
<1>6. M = F(M, N)
  <2> HIDE DEF F
  <2> QED
    BY <1>4, <1>5
<1>7. \A n \in 0 .. N : M[n] = IF n = 0 THEN Bare(t, c) ELSE G(M[n - 1], n)
  <2> HIDE DEF G
  <2> QED
    BY <1>6
<1> QED
  BY <1>7

\* The first n pairs of a listing.
First(m, n) == [i \in 1 .. n |-> m[i]]

\* The new array after n of the live entries have been moved.
MovedSoFar(t, c, n, u) ==
  /\ Sound(u) /\ u.capacity = c /\ u.count = n /\ u.tombstones = 0 /\ Len(u.order) = n
  /\ u.keyVersion = t.keyVersion /\ u.version = t.version /\ Listing(u) = First(Listing(t), n)

\* One step of the loop of adjustCapacity.
LEMMA MovedOneMore ==
  ASSUME NEW t, Sound(t), NEW c \in Nat, t.count < c,
         NEW n \in 1 .. t.count, NEW x, MovedSoFar(t, c, n - 1, x),
         NEW u, u = Moved(x, t.entries[LiveOrder(t)[n]])
  PROVE  MovedSoFar(t, c, n, u)
<1> PICK s, e : s = LiveOrder(t)[n] /\ e = t.entries[s]
  OBVIOUS
<1>1. Sized(t) /\ Keyed(t) /\ t.count \in Nat
  BY FieldTypes DEF Sound
<1>2. /\ Listing(t) \in Seq(Key \X Value) /\ DOMAIN Listing(t) = 1 .. t.count
      /\ Listing(t)[n] = Pair(t, s) /\ s \in LiveSlots(t)
      /\ \A i \in 1 .. t.count : Listing(t)[i][1] = Listing(t)[n][1] => i = n
  BY ListingIs
<1>3. e \in Entry /\ e.key \in Key /\ e.value \in Value /\ Listing(t)[n] = <<e.key, e.value>>
  <2>1. s \in Slots(t)
    BY <1>1, <1>2, SlotKinds
  <2>2. e \in Entry
    BY <1>1, <2>1, SlotKinds
  <2> QED
    BY <1>1, <1>2, <2>2 DEF Keyed, Pair
<1>4. /\ Sound(x) /\ x.capacity = c /\ x.count = n - 1 /\ x.tombstones = 0 /\ Len(x.order) = n - 1
      /\ x.keyVersion = t.keyVersion /\ x.version = t.version /\ Listing(x) = First(Listing(t), n - 1)
  BY DEF MovedSoFar
<1>5. Holding(x, e.key) = {}
  <2> SUFFICES ASSUME NEW r \in LiveSlots(x), x.entries[r].key = e.key PROVE FALSE
    BY HoldingIs
  <2>1. PICK i \in 1 .. n - 1 : LiveOrder(x)[i] = r
    BY <1>4, ListingIs
  <2>2. Listing(x)[i] = Pair(x, r)
    BY <1>4, <2>1, ListingIs
  <2>3. Listing(x)[i] = Listing(t)[i]
    BY <1>4 DEF First
  <2>4. Listing(t)[i][1] = Listing(t)[n][1]
    BY <1>3, <2>2, <2>3 DEF Pair
  <2>5. i \in 1 .. t.count /\ i # n
    BY <1>1
  <2> QED
    BY <1>2, <2>4, <2>5
<1>6. x.count + 1 < x.capacity
  BY <1>1, <1>4
<1>7. /\ Sound(u) /\ Listing(u) = Append(Listing(x), <<e.key, e.value>>)
      /\ u.capacity = x.capacity /\ u.count = x.count + 1 /\ u.tombstones = 0
      /\ Len(u.order) = u.count /\ u.keyVersion = x.keyVersion /\ u.version = x.version
  <2>1. Len(x.order) = x.count /\ u = Moved(x, e)
    BY <1>4
  <2> QED
    BY ONLY <1>3, <1>4, <1>5, <1>6, <2>1, MovedSound
<1>8. Listing(u) = First(Listing(t), n)
  <2>1. Listing(x) \in Seq(Key \X Value) /\ Len(Listing(x)) = n - 1
    BY <1>4, ListingIs
  <2>2. Append(Listing(x), <<e.key, e.value>>) = [i \in 1 .. n |-> IF i = n THEN <<e.key, e.value>> ELSE Listing(x)[i]]
    BY <1>1, <2>1
  <2>3. \A i \in 1 .. n : i # n => i \in 1 .. n - 1 /\ Listing(x)[i] = Listing(t)[i]
    BY <1>1, <1>4 DEF First
  <2>4. \A i \in 1 .. n : (IF i = n THEN <<e.key, e.value>> ELSE Listing(x)[i]) = Listing(t)[i]
    BY <1>3, <2>3
  <2>5. First(Listing(t), n) = [i \in 1 .. n |-> IF i = n THEN <<e.key, e.value>> ELSE Listing(x)[i]]
    BY ONLY <2>4 DEF First
  <2> QED
    BY <1>7, <2>2, <2>5
<1>9. u.count = n
  BY <1>1, <1>4, <1>7
<1> QED
  BY <1>4, <1>7, <1>8, <1>9 DEF MovedSoFar

\* A rehash keeps the map.
LEMMA AdjustedSound ==
  ASSUME NEW t, Sound(t), NEW c \in Nat, c # 1, t.count < c, NEW u, u = Adjusted(t, c)
  PROVE  /\ Sound(u) /\ Listing(u) = Listing(t)
         /\ u.capacity = c /\ u.count = t.count /\ u.tombstones = 0
         /\ u.keyVersion = Later(t.keyVersion, 1) /\ u.version = Later(t.version, 1)
<1> PICK N, M : N = t.count /\ M = Moves(t, c)
  OBVIOUS
<1>1. Sized(t) /\ Placed(t) /\ Counted(t) /\ N \in Nat
  BY FieldTypes DEF Sound
<1>2. N = Len(LiveOrder(t))
  BY <1>1, OrderIs
<1>3. /\ M[0] = Bare(t, c)
      /\ \A n \in 1 .. N : M[n] = Moved(M[n - 1], t.entries[LiveOrder(t)[n]])
  BY <1>1, <1>2, MovesIs
<1> DEFINE S == {n \in 0 .. N : MovedSoFar(t, c, n, M[n])}
<1>4. 0 \in S
  <2> PICK x : x = M[0]
    OBVIOUS
  <2>1. /\ Sound(x) /\ Listing(x) = <<>>
        /\ x.capacity = c /\ x.count = 0 /\ x.tombstones = 0 /\ Len(x.order) = 0
        /\ x.keyVersion = t.keyVersion /\ x.version = t.version
    BY <1>1, <1>3, BareSound
  <2>2. First(Listing(t), 0) = <<>>
    BY DEF First
  <2>3. MovedSoFar(t, c, 0, x)
    BY <2>1, <2>2 DEF MovedSoFar
  <2> QED
    BY <1>1, <2>3
<1>5. ASSUME NEW n \in 0 .. N - 1, n \in S PROVE n + 1 \in S
  <2> PICK m, x, y : m = n + 1 /\ x = M[n] /\ y = M[m]
    OBVIOUS
  <2>1. m \in 1 .. N /\ m - 1 = n /\ m \in 0 .. N
    BY <1>1
  <2>2. MovedSoFar(t, c, m - 1, x)
    BY <1>5, <2>1
  <2>3. y = Moved(x, t.entries[LiveOrder(t)[m]])
    BY <1>3, <2>1
  <2>4. MovedSoFar(t, c, m, y)
    BY <2>1, <2>2, <2>3, MovedOneMore
  <2> QED
    BY <2>1, <2>4
<1>6. N \in S
  <2> HIDE DEF S
  <2>1. 0 .. N \subseteq S
    BY <1>1, <1>4, <1>5, InductiveTo
  <2> QED
    BY <1>1, <2>1
<1> PICK z : z = M[N]
  OBVIOUS
<1>7. MovedSoFar(t, c, N, z)
  BY <1>6
<1>8. Listing(z) = Listing(t)
  <2>1. Listing(t) \in Seq(Key \X Value) /\ DOMAIN Listing(t) = 1 .. N
    BY ListingIs
  <2>2. First(Listing(t), N) = Listing(t)
    BY <2>1 DEF First
  <2> QED
    BY <1>7, <2>2 DEF MovedSoFar
<1>9. u = Bumped(z)
  BY <1>2 DEF Adjusted
<1> QED
  BY <1>7, <1>8, <1>9, BumpedSound DEF MovedSoFar

-----------------------------------------------------------------------------
(* Making room.                                                            *)

\* A table never has a capacity that is not a power of two.
Masked(t) == t.capacity > 0 => PowerOfTwo(t.capacity)

\* At most half full leaves a slot that was never used.
LEMMA HasRoomLeaves ==
  ASSUME NEW t, Sized(t), NEW n \in Nat, n > 0, HasRoom(t, n)
  PROVE  t.capacity > 0 /\ t.count + t.tombstones + n < t.capacity
<1>1. t.count \in Nat /\ t.tombstones \in Nat /\ t.capacity \in Nat /\ t.capacity # 1
  BY FieldTypes DEF Sized
<1>2. t.count + t.tombstones + n <= t.capacity - t.capacity \div 2
  BY DEF HasRoom
<1> PICK c, m, b : c = t.capacity /\ m = t.count /\ b = t.tombstones
  OBVIOUS
<1>3. m \in Nat /\ b \in Nat /\ c \in Nat /\ c # 1 /\ m + b + n <= c - c \div 2
  BY <1>1, <1>2
<1> PICK h : h = c \div 2
  OBVIOUS
<1>4. h \in Nat /\ (c >= 2 => h >= 1)
  BY <1>3
<1>5. m + b + n <= c - h
  BY <1>3
<1>6. c > 0
  BY <1>3, <1>4, <1>5
<1>7. c >= 2
  BY <1>3, <1>6
<1>8. m + b + n < c
  BY <1>3, <1>4, <1>5, <1>7
<1> QED
  BY <1>6, <1>8

\* JAI_GROW_CAP grows, and stays within the powers of two.
LEMMA GrowCapFits ==
  ASSUME NEW c \in Nat, c > 0 => PowerOfTwo(c)
  PROVE  GrowCap(c) \in Nat /\ GrowCap(c) >= 2 /\ GrowCap(c) > c /\ PowerOfTwo(GrowCap(c))
<1>1. MinCapacity \in Nat /\ MinCapacity >= 2 /\ PowerOfTwo(MinCapacity)
  BY TableAssumption
<1>2. CASE c < MinCapacity
  BY <1>1, <1>2 DEF GrowCap
<1>3. CASE c >= MinCapacity
  <2>1. c > 0 /\ GrowCap(c) = c * 2
    BY <1>1, <1>3 DEF GrowCap
  <2>2. PowerOfTwo(2 * c)
    BY <2>1, TwiceAPower
  <2>3. c * 2 = 2 * c
    OBVIOUS
  <2> QED
    BY <1>1, <1>3, <2>1, <2>2, <2>3
<1> QED
  BY <1>1, <1>2, <1>3

\* ensureRoom keeps the map and makes the room.
LEMMA WithRoomSound ==
  ASSUME NEW t, Sound(t), Masked(t), ~ Roomy(t), NEW u, u = WithRoom(t)
  PROVE  /\ Sound(u) /\ Masked(u) /\ Listing(u) = Listing(t)
         /\ u.capacity > 0 /\ u.count = t.count /\ u.count + u.tombstones + 1 < u.capacity
         /\ u.keyVersion = Later(t.keyVersion, 1) /\ u.version = Later(t.version, 1)
<1>1. Sized(t) /\ t.count \in Nat /\ t.tombstones \in Nat /\ t.capacity \in Nat /\ t.capacity # 1
  BY FieldTypes DEF Sound, Sized
<1>2. t.count < t.capacity \/ (t.capacity = 0 /\ t.count = 0)
  <2>1. CASE t.capacity > 0
    <3>1. t.count + t.tombstones < t.capacity
      BY <2>1 DEF Sound, Counted
    <3> QED
      BY <1>1, <3>1
  <2>2. CASE t.capacity = 0
    <3>1. t.count = Cardinality(LiveSlots(t)) /\ LiveSlots(t) \in SUBSET Slots(t)
      BY <1>1, SlotKinds DEF Sound, Counted
    <3>2. t.count \in 0 .. t.capacity
      BY <1>1, <3>1, SlotsFinite
    <3> QED
      BY <2>2, <3>2
  <2> QED
    BY <1>1, <2>1, <2>2
<1> PICK c : c = IF t.count + 1 > t.capacity \div 2 THEN GrowCap(t.capacity) ELSE t.capacity
  OBVIOUS
<1>3. c \in Nat /\ c >= 2 /\ t.count + 1 < c /\ PowerOfTwo(c)
  <2>1. CASE t.count + 1 > t.capacity \div 2
    <3>1. c = GrowCap(t.capacity)
      BY <2>1
    <3>2. c \in Nat /\ c >= 2 /\ c > t.capacity /\ PowerOfTwo(c)
      BY <1>1, <3>1, GrowCapFits DEF Masked
    <3> QED
      BY <1>1, <1>2, <3>2
  <2>2. CASE ~ t.count + 1 > t.capacity \div 2
    <3>1. c = t.capacity
      BY <2>2
    <3>2. t.capacity \div 2 \in Nat /\ t.count + 1 <= t.capacity \div 2 /\ 2 * (t.capacity \div 2) <= t.capacity
      BY <1>1, <2>2
    <3>3. t.capacity >= 2 /\ t.count + 1 < t.capacity
      BY <1>1, <3>2
    <3> QED
      BY <1>1, <3>1, <3>3 DEF Masked
  <2> QED
    BY <2>1, <2>2
<1>4. u = Adjusted(t, c)
  BY DEF WithRoom
<1>5. /\ Sound(u) /\ Listing(u) = Listing(t)
      /\ u.capacity = c /\ u.count = t.count /\ u.tombstones = 0
      /\ u.keyVersion = Later(t.keyVersion, 1) /\ u.version = Later(t.version, 1)
  <2>1. c # 1 /\ t.count < c /\ c \in Nat
    BY <1>1, <1>3
  <2> QED
    BY ONLY <2>1, <1>4, Sound(t), AdjustedSound
<1> QED
  BY <1>1, <1>3, <1>5 DEF Masked

\* A key is found if and only if the map has it.
LEMMA FoundIs ==
  ASSUME NEW t, Sound(t), NEW k \in Key
  PROVE  /\ Found(t, k) => t.capacity > 0
         /\ t.capacity > 0 => (Found(t, k) <=> Holding(t, k) # {})
         /\ Found(t, k) => Stop(t, k) \in Holding(t, k) /\ Holding(t, k) = {Stop(t, k)}
<1>1. Sized(t) /\ t.capacity \in Nat /\ t.count \in Nat /\ t.count = Cardinality(LiveSlots(t))
  BY FieldTypes DEF Sound, Counted
<1>2. LiveSlots(t) \subseteq Slots(t) /\ IsFiniteSet(LiveSlots(t))
  BY <1>1, SlotKinds, SlotsFinite
<1>3. ASSUME Found(t, k) PROVE t.capacity > 0
  <2>1. t.count > 0
    BY <1>3 DEF Found
  <2>2. t.count \in 0 .. t.capacity
    BY <1>1, <1>2, SlotsFinite
  <2> QED
    BY <1>1, <2>1, <2>2
<1>4. ASSUME t.capacity > 0 PROVE Found(t, k) <=> Holding(t, k) # {}
  <2>1. Holds(t, Stop(t, k), k) <=> Holding(t, k) # {}
    BY <1>4, StopFinds
  <2>2. ASSUME Holding(t, k) # {} PROVE t.count > 0
    <3>1. PICK s : s \in Holding(t, k)
      BY <2>2
    <3>2. LiveSlots(t) # {}
      BY <3>1, HoldingIs
    <3>3. t.count # 0
      BY <1>1, <1>2, <3>2, FS_EmptySet
    <3> QED
      BY <1>1, <3>3
  <2> QED
    BY <2>1, <2>2 DEF Found
<1>5. ASSUME Found(t, k) PROVE Stop(t, k) \in Holding(t, k) /\ Holding(t, k) = {Stop(t, k)}
  <2>1. /\ Stop(t, k) \in Slots(t)
        /\ \A s \in Holding(t, k) : s = Stop(t, k)
    BY <1>3, <1>5, StopFinds
  <2>2. Stop(t, k) \in Holding(t, k)
    BY <1>5, <2>1, HoldingIs DEF Found
  <2> QED
    BY <2>1, <2>2
<1> QED
  BY <1>3, <1>4, <1>5

\* The keys of the map are the keys held.
LEMMA KeysAre ==
  ASSUME NEW t, Sound(t), NEW k
  PROVE  k \in Abs!KeysOf(Listing(t)) <=> Holding(t, k) # {}
<1>1. ASSUME NEW n \in DOMAIN Listing(t), Listing(t)[n][1] = k PROVE Holding(t, k) # {}
  <2>1. PICK s \in LiveSlots(t) : Listing(t)[n] = Pair(t, s)
    BY ListingIs
  <2>2. t.entries[s].key = k
    BY <1>1, <2>1 DEF Pair
  <2> QED
    BY <2>2, HoldingIs
<1>2. ASSUME NEW s \in Holding(t, k) PROVE \E n \in DOMAIN Listing(t) : Listing(t)[n][1] = k
  <2>1. s \in LiveSlots(t) /\ t.entries[s].key = k
    BY HoldingIs
  <2>2. PICK n \in 1 .. t.count : LiveOrder(t)[n] = s
    BY <2>1, ListingIs
  <2>3. n \in DOMAIN Listing(t) /\ Listing(t)[n] = Pair(t, s)
    BY <2>2, ListingIs
  <2> QED
    BY <2>1, <2>3 DEF Pair
<1> QED
  BY <1>1, <1>2 DEF Abs!KeysOf

\* The instance of the map counts as this module does ...
LEMMA SameCard ==
  ASSUME NEW S
  PROVE  Abs!Cardinality(S) = Cardinality(S)
BY DEF Abs!Cardinality, Cardinality

\* ... and picks as it does.
LEMMA SamePicks ==
  ASSUME NEW s, NEW S
  PROVE  Abs!Picked(s, S) = Picked(s, S)
<1>1. \A T : Abs!Cardinality(T) = Cardinality(T)
  BY SameCard
<1>2. \A n : Abs!Nth(S, n) = Nth(S, n)
  BY <1>1 DEF Abs!Nth, Nth
<1> QED
BY <1>1, <1>2 DEF Abs!Picked, Picked

\* The map without the keys of S, pair by pair.
LEMMA WithoutIs ==
  ASSUME NEW m, NEW S, NEW stay, stay = {i \in DOMAIN m : m[i][1] \notin S}
  PROVE  Abs!Without(m, S) = [n \in 1 .. Cardinality(stay) |-> m[Nth(stay, n)]]
<1>1. Abs!Without(m, S) = Picked(m, stay)
  BY SamePicks DEF Abs!Without
<1> QED
  BY <1>1 DEF Picked

\* A write of at most `most` new keys: what it leaves to compiled code.
Versioned(t, u, most) ==
  \/ u.keyVersion = t.keyVersion /\ Pinned(t, u)
  \/ \E n \in 1 .. most : u.keyVersion = Later(t.keyVersion, n)

\* A traversal of t may go on in u.
Alike(t, u) == u.order = t.order /\ u.count = t.count /\ Listing(u) = Listing(t)

\* At most `most` writes: what they leave to a traversal.
Told(t, u, most) ==
  \/ u.version = t.version /\ Alike(t, u)
  \/ \E n \in 1 .. most : u.version = Later(t.version, n)

\* tableSetHashed
LEMMA SetToSound ==
  ASSUME NEW t, Sound(t), Masked(t), NEW k \in Key, NEW v \in Value, NEW u, u = SetTo(t, k, v)
  PROVE  /\ Sound(u) /\ Masked(u) /\ Listing(u) = Abs!With(Listing(t), k, v)
         /\ Versioned(t, u, u.capacity)
         /\ u.capacity > 0 /\ \E n \in 1 .. 2 : u.version = Later(t.version, n)
<1>1. /\ Sized(t) /\ t.count \in Nat /\ t.tombstones \in Nat /\ t.capacity \in Nat /\ t.capacity # 1
      /\ t.keyVersion \in 0 .. VersionMod - 1 /\ t.version \in 0 .. VersionMod - 1
  BY FieldTypes DEF Sound, Sized
<1>2. CASE Roomy(t)
  <2>1. u = Put(t, k, v)
    BY <1>2 DEF SetTo
  <2>2. t.capacity > 0 /\ t.count + t.tombstones + 1 < t.capacity
    BY <1>1, <1>2, HasRoomLeaves DEF Roomy
  <2>3. /\ Sound(u) /\ Listing(u) = Abs!With(Listing(t), k, v)
        /\ u.capacity = t.capacity /\ u.count \in {t.count, t.count + 1}
        /\ u.keyVersion = Later(t.keyVersion, u.count - t.count)
        /\ (u.count = t.count => Pinned(t, u)) /\ u.version = Later(t.version, 1)
    BY <2>1, <2>2, PutSound
  <2>4. Masked(u)
    BY <2>3 DEF Masked
  <2>5. Versioned(t, u, u.capacity)
    <3>1. CASE u.count = t.count
      <4>1. u.count - t.count = 0
        BY <1>1, <3>1
      <4> QED
        BY <1>1, <2>3, <3>1, <4>1, LaterNone DEF Versioned
    <3>2. CASE u.count = t.count + 1
      <4>1. u.count - t.count = 1 /\ 1 \in 1 .. u.capacity
        BY <1>1, <2>2, <2>3, <3>2
      <4> QED
        BY <2>3, <4>1 DEF Versioned
    <3> QED
      BY <2>3, <3>1, <3>2
  <2> QED
    BY <2>2, <2>3, <2>4, <2>5
<1>3. CASE ~ Roomy(t) /\ Found(t, k)
  <2>1. u = Overwritten(t, Stop(t, k), v)
    BY <1>3 DEF SetTo
  <2>2. Stop(t, k) \in Holding(t, k)
    BY <1>3, FoundIs
  <2>3. /\ Sound(u) /\ Listing(u) = Abs!With(Listing(t), k, v)
        /\ u.keyVersion = t.keyVersion /\ Pinned(t, u) /\ u.version = Later(t.version, 1)
    BY <2>1, <2>2, OverwrittenSound
  <2>4. t.capacity > 0
    <3>1. Stop(t, k) \in 0 .. t.capacity - 1
      BY <2>2 DEF Holding, Slots
    <3> QED
      BY <1>1, <3>1
  <2> QED
    BY <2>3, <2>4 DEF Versioned, Masked, Pinned
<1>4. CASE ~ Roomy(t) /\ ~ Found(t, k)
  <2> PICK w : w = WithRoom(t)
    OBVIOUS
  <2>1. u = Put(w, k, v)
    BY <1>4 DEF SetTo
  <2>2. /\ Sound(w) /\ Masked(w) /\ Listing(w) = Listing(t)
        /\ w.capacity > 0 /\ w.count = t.count /\ w.count + w.tombstones + 1 < w.capacity
        /\ w.keyVersion = Later(t.keyVersion, 1) /\ w.version = Later(t.version, 1)
    BY <1>4, WithRoomSound
  <2>3. /\ Sound(u) /\ Listing(u) = Abs!With(Listing(w), k, v)
        /\ u.capacity = w.capacity /\ u.count \in {w.count, w.count + 1}
        /\ u.keyVersion = Later(w.keyVersion, u.count - w.count)
        /\ u.version = Later(w.version, 1)
    BY <2>1, <2>2, PutSound
  <2>4. Masked(u)
    BY <2>2, <2>3 DEF Masked
  <2>5. /\ w.count \in Nat /\ w.tombstones \in Nat /\ w.capacity \in Nat
        /\ w.keyVersion \in 0 .. VersionMod - 1
    BY <2>2, FieldTypes DEF Sound
  <2> PICK n : n = u.count - w.count
    OBVIOUS
  <2>6. n \in 0 .. 1
    BY <2>3, <2>5
  <2>7. u.keyVersion = Later(t.keyVersion, 1 + n)
    <3>1. /\ t.keyVersion \in 0 .. VersionMod - 1 /\ 1 \in Nat /\ n \in Nat
          /\ w.keyVersion = Later(t.keyVersion, 1) /\ u.keyVersion = Later(w.keyVersion, n)
      BY <1>1, <2>2, <2>3, <2>6
    <3> QED
      BY ONLY <3>1, TwoLaters
  <2>8. 1 + n \in 1 .. u.capacity
    BY <2>2, <2>3, <2>5, <2>6
  <2>9. u.version = Later(t.version, 1 + 1)
    BY <1>1, <2>2, <2>3, LaterLater
  <2> QED
    BY <2>2, <2>3, <2>4, <2>7, <2>8, <2>9 DEF Versioned
<1> QED
  BY <1>2, <1>3, <1>4

-----------------------------------------------------------------------------
(* jaiTableClear.                                                          *)

\* A cleared table is empty and keeps its array.
LEMMA ClearedSound ==
  ASSUME NEW t, Sound(t), Masked(t), NEW u, u = Cleared(t)
  PROVE  /\ Sound(u) /\ Masked(u) /\ Listing(u) = Abs!Without(Listing(t), Key)
         /\ u.capacity = t.capacity /\ u.keyVersion = Later(t.keyVersion, 1) /\ u.version = Later(t.version, 1)
<1>1. Sized(t) /\ t.capacity \in Nat /\ t.capacity # 1
  BY DEF Sound, Sized
<1> PICK b : b = Bare(t, t.capacity)
  OBVIOUS
<1>2. /\ Sound(b) /\ Listing(b) = <<>>
      /\ b.capacity = t.capacity /\ b.count = 0
      /\ b.keyVersion = t.keyVersion /\ b.version = t.version
  BY <1>1, BareSound
<1>3. u = Bumped(b)
  BY DEF Cleared
<1>4. /\ Sound(u) /\ Listing(u) = <<>> /\ u.capacity = t.capacity
      /\ u.keyVersion = Later(t.keyVersion, 1) /\ u.version = Later(t.version, 1)
  BY <1>2, <1>3, BumpedSound
<1>5. Abs!Without(Listing(t), Key) = <<>>
  <2>1. Listing(t) \in Seq(Key \X Value)
    BY ListingIs
  <2>2. {i \in DOMAIN Listing(t) : Listing(t)[i][1] \notin Key} = {}
    BY <2>1
  <2>3. Cardinality({}) = 0
    BY FS_EmptySet
  <2>4. Abs!Without(Listing(t), Key) = [n \in 1 .. 0 |-> Listing(t)[Nth({}, n)]]
    BY <2>2, <2>3, WithoutIs
  <2>5. 1 .. 0 = {}
    OBVIOUS
  <2>6. <<>> = [n \in {} |-> Listing(t)[Nth({}, n)]]
    OBVIOUS
  <2> QED
    BY <2>4, <2>5, <2>6
<1> QED
  BY <1>4, <1>5 DEF Masked

-----------------------------------------------------------------------------
(* removeEntry.                                                            *)

\* u is t without the entries in the slots of W.
Drops(t, u, W) ==
  /\ Slots(u) = Slots(t)
  /\ \A s \in Slots(t) : s \notin W => u.entries[s] = t.entries[s]
  /\ LiveSlots(u) = LiveSlots(t) \ W /\ EmptySlots(u) = EmptySlots(t)
  /\ Tombs(u) = Tombs(t) \union W
  /\ Len(u.order) = Len(t.order) /\ DOMAIN u.order = DOMAIN t.order
  /\ \A i \in DOMAIN t.order : u.order[i] = IF t.order[i] \in W THEN -1 ELSE t.order[i]

\* What removing the entries of W does to the fields.
LEMMA RemovedIs ==
  ASSUME NEW t, Sound(t), NEW W \in SUBSET LiveSlots(t), NEW u, u = Removed(t, W)
  PROVE  /\ Sized(u) /\ Drops(t, u, W)
         /\ u.capacity = t.capacity /\ u.count = t.count - Cardinality(W)
         /\ u.tombstones = t.tombstones + Cardinality(W)
         /\ u.keyVersion = Later(t.keyVersion, Cardinality(W))
         /\ u.version = Later(t.version, Cardinality(W))
         /\ Cardinality(W) \in 0 .. t.count
<1> PICK n, hole, E, r, y, z :
      /\ n = Cardinality(W) /\ hole = [EmptyEntry EXCEPT !.order = TOMBSTONE]
      /\ E = [s \in Slots(t) |-> IF s \in W THEN hole ELSE t.entries[s]]
      /\ r = [i \in DOMAIN t.order |-> IF \E s \in W : t.entries[s].order = i - 1 THEN -1 ELSE t.order[i]]
      /\ y = Later(t.version, n) /\ z = Later(t.keyVersion, n)
  OBVIOUS
<1>1. /\ Sized(t) /\ Placed(t) /\ Counted(t)
      /\ t.capacity \in Nat /\ t.count \in Nat /\ t.tombstones \in Nat
      /\ t.entries \in [Slots(t) -> Entry] /\ t.order \in Seq(Slots(t) \union {-1})
      /\ Len(t.order) \in Nat /\ DOMAIN t.order = 1 .. Len(t.order)
      /\ t.version \in 0 .. VersionMod - 1 /\ t.keyVersion \in 0 .. VersionMod - 1
  BY FieldTypes DEF Sound
<1>2. LiveSlots(t) \subseteq Slots(t) /\ IsFiniteSet(LiveSlots(t)) /\ W \subseteq Slots(t)
  BY <1>1, SlotKinds, SlotsFinite
<1>3. IsFiniteSet(W) /\ n \in 0 .. t.count
  <2>1. Cardinality(LiveSlots(t)) = t.count
    BY <1>1 DEF Counted
  <2>2. IsFiniteSet(W) /\ Cardinality(W) <= t.count
    BY <1>2, <2>1, FS_Subset
  <2>3. Cardinality(W) \in Nat
    BY <2>2, FS_CardinalityType
  <2> QED
    BY <1>1, <2>2, <2>3
<1>4. hole \in Entry /\ hole.order = TOMBSTONE
  BY DEF Entry, EmptyEntry
<1>5. E \in [Slots(t) -> Entry]
  BY <1>1, <1>4
<1>6. r \in Seq(Slots(t) \union {-1}) /\ Len(r) = Len(t.order) /\ DOMAIN r = DOMAIN t.order
  <2>1. \A i \in 1 .. Len(t.order) : t.order[i] \in Slots(t) \union {-1}
    BY <1>1
  <2>2. r = [i \in 1 .. Len(t.order) |-> IF \E s \in W : t.entries[s].order = i - 1 THEN -1 ELSE t.order[i]]
    BY <1>1
  <2> QED
    BY <1>1, <2>1, <2>2
<1>7. y \in 0 .. VersionMod - 1 /\ z \in 0 .. VersionMod - 1
  BY <1>1, <1>3, LaterType
<1>8. t \in TableOf(t.capacity)
  BY <1>1 DEF Sized
<1>9. u = [t EXCEPT !.order = r, !.entries = E, !.count = t.count - n, !.tombstones = t.tombstones + n,
                    !.version = y, !.keyVersion = z]
  BY <1>8 DEF Removed, TableOf
<1>10. /\ u.capacity = t.capacity /\ u.count = t.count - n /\ u.tombstones = t.tombstones + n
       /\ u.entries = E /\ u.order = r /\ u.keyVersion = z /\ u.version = y
  BY <1>8, <1>9 DEF TableOf
<1>11. Sized(u)
  <2>1. t.count - n \in Nat /\ t.tombstones + n \in Nat
    BY <1>1, <1>3
  <2>2. u = [entries |-> E, order |-> r, count |-> t.count - n, tombstones |-> t.tombstones + n,
             capacity |-> t.capacity, version |-> y, keyVersion |-> z]
    BY <1>8, <1>9 DEF TableOf
  <2>3. u \in TableOf(t.capacity)
    <3> PICK c, a, b : c = t.capacity /\ a = t.count - n /\ b = t.tombstones + n
      OBVIOUS
    <3>1. E \in [0 .. c - 1 -> Entry] /\ r \in Seq(0 .. c - 1 \union {-1}) /\ a \in Nat /\ b \in Nat
      BY <1>5, <1>6, <2>1 DEF Slots
    <3>2. u = [entries |-> E, order |-> r, count |-> a, tombstones |-> b,
               capacity |-> c, version |-> y, keyVersion |-> z]
      BY <2>2
    <3>3. u \in TableOf(c)
      BY ONLY <1>7, <3>1, <3>2 DEF TableOf
    <3> QED
      BY <3>3
  <2> QED
    BY <1>1, <1>10, <2>3 DEF Sized
<1>12. Slots(u) = Slots(t)
  BY <1>10 DEF Slots
<1>13. \A s \in Slots(t) : u.entries[s] = IF s \in W THEN hole ELSE t.entries[s]
  BY <1>10
<1>14. LiveSlots(u) = LiveSlots(t) \ W
  <2>1. ASSUME NEW s \in W PROVE ~ Live(u, s)
    <3>1. u.entries[s].order = TOMBSTONE
      BY <1>2, <1>4, <1>13
    <3> QED
      BY ONLY <3>1 DEF Live, TOMBSTONE
  <2>2. \A s \in Slots(t) : s \notin W => Live(u, s) = Live(t, s)
    BY <1>13 DEF Live
  <2> QED
    BY <1>12, <2>1, <2>2 DEF LiveSlots
<1>15. EmptySlots(u) = EmptySlots(t)
  <2>1. ASSUME NEW s \in W PROVE u.entries[s].order # EMPTY
    <3>1. u.entries[s].order = TOMBSTONE
      BY <1>2, <1>4, <1>13
    <3> QED
      BY ONLY <3>1 DEF EMPTY, TOMBSTONE
  <2>2. \A s \in W : s \notin EmptySlots(t)
    BY <1>1, SlotKinds
  <2>3. \A s \in Slots(t) : s \notin W => u.entries[s] = t.entries[s]
    BY <1>13
  <2> QED
    BY <1>12, <2>1, <2>2, <2>3 DEF EmptySlots
<1>16. Tombs(u) = Tombs(t) \union W
  <2>1. \A s \in W : u.entries[s].order = TOMBSTONE
    BY <1>2, <1>4, <1>13
  <2>2. \A s \in Slots(t) : s \notin W => u.entries[s] = t.entries[s]
    BY <1>13
  <2> QED
    BY <1>2, <1>12, <2>1, <2>2 DEF Tombs
<1>17. \A i \in DOMAIN t.order : u.order[i] = IF t.order[i] \in W THEN -1 ELSE t.order[i]
  <2> TAKE i \in DOMAIN t.order
  <2>1. u.order[i] = IF \E s \in W : t.entries[s].order = i - 1 THEN -1 ELSE t.order[i]
    BY <1>10
  <2>2. ASSUME NEW s \in W, t.entries[s].order = i - 1 PROVE t.order[i] = s
    <3>1. t.order[t.entries[s].order + 1] = s /\ i \in Int
      BY <1>1 DEF Placed
    <3>2. (i - 1) + 1 = i
      BY <3>1
    <3> QED
      BY <2>2, <3>1, <3>2
  <2>3. ASSUME t.order[i] \in W PROVE t.entries[t.order[i]].order = i - 1
    <3>1. t.order[i] \in Slots(t) /\ t.order[i] >= 0
      BY <1>1, <1>2, <2>3 DEF Slots
    <3> QED
      BY <1>1, <3>1 DEF Placed
  <2> QED
    BY <2>1, <2>2, <2>3
<1>18. Drops(t, u, W)
  <2>1. Len(u.order) = Len(t.order) /\ DOMAIN u.order = DOMAIN t.order
    BY <1>6, <1>10
  <2>2. \A s \in Slots(t) : s \notin W => u.entries[s] = t.entries[s]
    BY <1>13
  <2> QED
    BY <1>12, <1>14, <1>15, <1>16, <1>17, <2>1, <2>2 DEF Drops
<1> QED
  BY <1>3, <1>10, <1>11, <1>18

\* Removing leaves tombstones, so no entry is cut off.
LEMMA DropsSound ==
  ASSUME NEW t, Sound(t), NEW W \in SUBSET LiveSlots(t), NEW u, Sized(u), Drops(t, u, W),
         u.capacity = t.capacity, u.count = t.count - Cardinality(W),
         u.tombstones = t.tombstones + Cardinality(W)
  PROVE  Sound(u)
<1>1. /\ Sized(t) /\ Placed(t) /\ Keyed(t) /\ Reached(t) /\ Counted(t)
      /\ t.capacity \in Nat /\ t.count \in Nat /\ t.tombstones \in Nat
      /\ DOMAIN t.order = 1 .. Len(t.order)
  BY FieldTypes DEF Sound
<1>2. LiveSlots(t) \subseteq Slots(t) /\ Tombs(t) \subseteq Slots(t) /\ LiveSlots(t) \cap Tombs(t) = {}
  BY <1>1, SlotKinds
<1>3. IsFiniteSet(LiveSlots(t)) /\ IsFiniteSet(Tombs(t)) /\ IsFiniteSet(W)
  BY <1>1, <1>2, SlotsFinite
<1>4. \A s \in LiveSlots(u) : s \in LiveSlots(t) /\ s \in Slots(t) /\ s \notin W /\ u.entries[s] = t.entries[s]
  BY <1>2 DEF Drops
<1>5. Placed(u)
  <2>1. Len(u.order) <= u.capacity
    BY <1>1 DEF Placed, Drops
  <2>2. ASSUME NEW s \in LiveSlots(u)
        PROVE  u.entries[s].order + 1 \in DOMAIN u.order /\ u.order[u.entries[s].order + 1] = s
    <3>1. t.entries[s].order + 1 \in DOMAIN t.order /\ t.order[t.entries[s].order + 1] = s
      BY <1>1, <1>4 DEF Placed
    <3> QED
      BY <1>4, <3>1 DEF Drops
  <2>3. ASSUME NEW i \in DOMAIN u.order, u.order[i] >= 0 PROVE u.entries[u.order[i]].order = i - 1
    <3>1. i \in DOMAIN t.order /\ t.order[i] \notin W /\ u.order[i] = t.order[i]
      BY <2>3 DEF Drops
    <3>2. i \in Taken(t)
      BY <2>3, <3>1 DEF Taken
    <3>3. t.order[i] \in LiveSlots(t) /\ t.entries[t.order[i]].order = i - 1
      BY <1>1, <3>2, TakenLive
    <3> QED
      BY <1>2, <3>1, <3>3 DEF Drops
  <2> QED
    BY <2>1, <2>2, <2>3 DEF Placed
<1>6. Keyed(u)
  BY <1>1, <1>4 DEF Keyed
<1>7. Reached(u)
  <2>1. \A k, d : At(u, k, d) = At(t, k, d)
    BY SameSlots
  <2>2. Slots(u) = Slots(t) /\ EmptySlots(u) = EmptySlots(t)
    BY DEF Drops
  <2> QED
    BY <1>1, <1>4, <2>1, <2>2 DEF Reached
<1>8. Counted(u)
  <2> PICK n : n = Cardinality(W)
    OBVIOUS
  <2>1. n \in Nat
    BY <1>3, FS_CardinalityType
  <2>2. Cardinality(LiveSlots(t) \ W) = t.count - n
    <3>1. IsFiniteSet(LiveSlots(t) \ W) /\ (LiveSlots(t) \ W) \union W = LiveSlots(t)
          /\ (LiveSlots(t) \ W) \cap W = {}
      BY <1>3, FS_Subset
    <3>2. Cardinality(LiveSlots(t)) = Cardinality(LiveSlots(t) \ W) + n - 0
      BY <1>3, <3>1, FS_Union, FS_EmptySet
    <3>3. Cardinality(LiveSlots(t) \ W) \in Nat
      BY <3>1, FS_CardinalityType
    <3> QED
      BY <1>1, <2>1, <3>2, <3>3 DEF Counted
  <2>3. Cardinality(Tombs(t) \union W) = t.tombstones + n
    <3>1. Tombs(t) \cap W = {}
      BY <1>2
    <3>2. Cardinality(Tombs(t) \union W) = Cardinality(Tombs(t)) + n - 0
      BY <1>3, <3>1, FS_Union, FS_EmptySet
    <3> QED
      BY <1>1, <2>1, <3>2 DEF Counted
  <2>4. u.capacity > 0 => u.count + u.tombstones < u.capacity
    <3>1. t.capacity > 0 => t.count + t.tombstones < t.capacity
      BY <1>1 DEF Counted
    <3> QED
      BY <1>1, <2>1, <3>1
  <2> QED
    BY <2>2, <2>3, <2>4 DEF Counted, Drops
<1> QED
  BY <1>5, <1>6, <1>7, <1>8 DEF Sound

\* What is left is listed in the order it was.
LEMMA DropsListed ==
  ASSUME NEW t, Sound(t), NEW S, NEW W, W = {s \in LiveSlots(t) : t.entries[s].key \in S},
         NEW u, Sound(u), Drops(t, u, W)
  PROVE  Listing(u) = Abs!Without(Listing(t), S)
<1> PICK m, o, stay, K :
      /\ m = Listing(t) /\ o = LiveOrder(t)
      /\ stay = {i \in DOMAIN m : m[i][1] \notin S} /\ K = Cardinality(stay)
  OBVIOUS
<1>1. /\ Sized(t) /\ Placed(t) /\ Counted(t) /\ t.count \in Nat
      /\ Sized(u) /\ Placed(u) /\ Counted(u)
      /\ LiveSlots(t) \subseteq Slots(t)
  BY FieldTypes, SlotKinds DEF Sound
<1>2. /\ DOMAIN m = 1 .. t.count
      /\ \A n \in 1 .. t.count : m[n] = Pair(t, o[n]) /\ o[n] \in LiveSlots(t)
  BY ListingIs
<1>3. /\ \A n \in 1 .. t.count : PlaceOf(t, n) \in Taken(t) /\ o[n] = t.order[PlaceOf(t, n)]
      /\ \A a, n \in 1 .. t.count : a < n => PlaceOf(t, a) < PlaceOf(t, n)
      /\ \A i \in Taken(t) : \E n \in 1 .. t.count : PlaceOf(t, n) = i
  BY <1>1, OrderIs
<1>4. \A n \in 1 .. t.count : n \in stay <=> o[n] \notin W
  BY <1>2 DEF Pair
<1>5. stay \in SUBSET (1 .. t.count) /\ stay \in SUBSET Nat /\ IsFiniteSet(stay)
  <2>1. IsFiniteSet(1 .. t.count)
    BY <1>1, UpToFinite
  <2>2. stay \in SUBSET (1 .. t.count)
    BY <1>2
  <2>3. stay \in SUBSET Nat
    BY <1>1, <2>2
  <2>4. IsFiniteSet(stay)
    BY ONLY <2>1, <2>2, FS_Subset
  <2> QED
    BY <2>2, <2>3, <2>4
<1>6. /\ K \in Nat
      /\ \A n \in 1 .. K : Nth(stay, n) \in stay
      /\ \A i \in stay : \E n \in 1 .. K : Nth(stay, n) = i
      /\ \A a, n \in 1 .. K : a < n => Nth(stay, a) < Nth(stay, n)
  <2>1. K = Cardinality(stay)
    OBVIOUS
  <2> QED
    BY ONLY <1>5, <2>1, Counts
<1>7. \A i \in DOMAIN t.order : i \in Taken(u) <=> i \in Taken(t) /\ t.order[i] \notin W
  <2> TAKE i \in DOMAIN t.order
  <2>1. i \in DOMAIN u.order /\ u.order[i] = IF t.order[i] \in W THEN -1 ELSE t.order[i]
    BY DEF Drops
  <2>2. ~ (-1 >= 0)
    OBVIOUS
  <2> QED
    BY <2>1, <2>2 DEF Taken
<1>8. Taken(t) \subseteq DOMAIN t.order /\ Taken(u) \subseteq DOMAIN t.order
  BY DEF Taken, Drops
<1> PICK f : f = [n \in 1 .. K |-> PlaceOf(t, Nth(stay, n))]
  OBVIOUS
<1>9. \A n \in 1 .. K : /\ f[n] \in Taken(u) /\ f[n] \in DOMAIN t.order /\ t.order[f[n]] \notin W
                        /\ t.order[f[n]] = o[Nth(stay, n)]
  <2> TAKE n \in 1 .. K
  <2>1. PICK a : a = Nth(stay, n)
    OBVIOUS
  <2>2. a \in stay /\ a \in 1 .. t.count /\ f[n] = PlaceOf(t, a)
    BY <1>5, <1>6, <2>1
  <2>3. f[n] \in Taken(t) /\ t.order[f[n]] = o[a] /\ o[a] \notin W
    BY <1>3, <1>4, <2>2
  <2> QED
    BY <1>7, <1>8, <2>1, <2>3
<1>10. f \in [1 .. K -> Taken(u)]
  BY <1>9
<1>11. \A a, n \in 1 .. K : a < n => f[a] < f[n]
  <2> TAKE a, n \in 1 .. K
  <2> HAVE a < n
  <2>1. PICK x, y : x = Nth(stay, a) /\ y = Nth(stay, n)
    OBVIOUS
  <2>2. x \in 1 .. t.count /\ y \in 1 .. t.count /\ x < y
    BY <1>5, <1>6, <2>1
  <2>3. PlaceOf(t, x) < PlaceOf(t, y)
    BY <1>3, <2>2
  <2> QED
    BY <2>1, <2>3
<1>12. \A i \in Taken(u) : \E n \in 1 .. K : f[n] = i
  <2> TAKE i \in Taken(u)
  <2>1. i \in Taken(t) /\ t.order[i] \notin W
    BY <1>7, <1>8
  <2>2. PICK a \in 1 .. t.count : PlaceOf(t, a) = i
    BY <1>3, <2>1
  <2>3. a \in stay
    BY <1>3, <1>4, <2>1, <2>2
  <2>4. PICK n \in 1 .. K : Nth(stay, n) = a
    BY <1>6, <2>3
  <2> QED
    BY <2>2, <2>4
<1>13. Listing(u) = [n \in 1 .. K |-> Pair(u, u.order[f[n]])]
  <2>1. Sized(u) /\ Placed(u) /\ Counted(u) /\ K \in Nat
    BY <1>1, <1>6
  <2> QED
    <3>1. GoesThrough(f, K, u)
      BY ONLY <2>1, <1>10, <1>11, <1>12 DEF GoesThrough
    <3>2. ListedAs(u, f, K)
      BY ONLY <2>1, <3>1, ListedBy
    <3> QED
      BY ONLY <3>2 DEF ListedAs
<1>14. \A n \in 1 .. K : Pair(u, u.order[f[n]]) = m[Nth(stay, n)]
  <2> TAKE n \in 1 .. K
  <2>1. PICK a : a = Nth(stay, n)
    OBVIOUS
  <2>2. a \in 1 .. t.count
    BY <1>5, <1>6, <2>1
  <2>3. t.order[f[n]] = o[a] /\ o[a] \notin W /\ f[n] \in DOMAIN t.order
    BY <1>9, <2>1
  <2>4. u.order[f[n]] = o[a]
    BY <2>3 DEF Drops
  <2>5. o[a] \in Slots(t) /\ m[a] = Pair(t, o[a])
    BY <1>1, <1>2, <2>2
  <2>6. u.entries[o[a]] = t.entries[o[a]]
    BY <2>3, <2>5 DEF Drops
  <2> QED
    BY <2>1, <2>4, <2>5, <2>6 DEF Pair
<1>15. Abs!Without(m, S) = [n \in 1 .. K |-> m[Nth(stay, n)]]
  BY WithoutIs
<1> QED
  BY <1>13, <1>14, <1>15

\* The live slots W are those whose key is in S.
OfKeys(t, S, W) ==
  /\ W \in SUBSET LiveSlots(t)
  /\ \A s \in LiveSlots(t) : s \in W <=> t.entries[s].key \in S

\* Removing the entries of the keys of S removes them from the map.
LEMMA RemovedSound ==
  ASSUME NEW t, Sound(t), NEW S, NEW W, OfKeys(t, S, W), NEW u, u = Removed(t, W)
  PROVE  /\ Sound(u) /\ Listing(u) = Abs!Without(Listing(t), S)
         /\ u.capacity = t.capacity /\ u.count = t.count - Cardinality(W)
         /\ u.keyVersion = Later(t.keyVersion, Cardinality(W)) /\ u.version = Later(t.version, Cardinality(W))
         /\ Cardinality(W) \in 0 .. t.count
         /\ Cardinality(W) = 0 => Pinned(t, u) /\ Alike(t, u)
<1>1. W \in SUBSET LiveSlots(t)
  BY DEF OfKeys
<1>2. /\ Sized(u) /\ Drops(t, u, W)
      /\ u.capacity = t.capacity /\ u.count = t.count - Cardinality(W)
      /\ u.tombstones = t.tombstones + Cardinality(W)
      /\ u.keyVersion = Later(t.keyVersion, Cardinality(W)) /\ u.version = Later(t.version, Cardinality(W))
      /\ Cardinality(W) \in 0 .. t.count
  BY ONLY Sound(t), <1>1, u = Removed(t, W), RemovedIs
<1>3. Sound(u)
  BY ONLY Sound(t), <1>1, <1>2, DropsSound
<1>4. Listing(u) = Abs!Without(Listing(t), S)
  <2>1. W = {s \in LiveSlots(t) : t.entries[s].key \in S}
    BY DEF OfKeys
  <2> QED
    BY <1>2, <1>3, <2>1, DropsListed
<1>5. ASSUME Cardinality(W) = 0 PROVE Pinned(t, u) /\ Alike(t, u)
  <2>1. Sized(t)
    BY DEF Sound
  <2>2. IsFiniteSet(W)
    BY <1>1, <2>1, SlotKinds, SlotsFinite
  <2>3. W = {}
    BY <1>5, <2>2, FS_EmptySet
  <2>4. \A s \in Slots(t) : u.entries[s] = t.entries[s]
    BY <1>2, <2>3 DEF Drops
  <2>5. Pinned(t, u)
    BY <1>2, <2>4 DEF Pinned, Live
  <2>6. /\ t.entries \in [Slots(t) -> Entry] /\ u.entries \in [Slots(t) -> Entry]
        /\ t.order \in Seq(Slots(t) \union {-1}) /\ u.order \in Seq(Slots(t) \union {-1})
        /\ t.count \in Nat /\ t.tombstones \in Nat
    BY <1>2, <2>1, FieldTypes DEF Drops
  <2>7. u.entries = t.entries
    BY <2>4, <2>6
  <2>8. u.order = t.order
    <3>1. /\ Len(u.order) = Len(t.order)
          /\ \A i \in 1 .. Len(t.order) : u.order[i] = t.order[i]
      BY <1>2, <2>3, <2>6 DEF Drops
    <3> QED
      BY ONLY <2>6, <3>1, SeqEqual
  <2>9. u.count = t.count /\ u.tombstones = t.tombstones /\ u.capacity = t.capacity
    BY <1>2, <1>5, <2>6
  <2>10. Listing(u) = Listing(t)
    BY ONLY Sound(t), <1>2, <2>7, <2>8, <2>9, SameBody
  <2> QED
    BY <2>5, <2>8, <2>9, <2>10 DEF Alike
<1> QED
  BY <1>2, <1>3, <1>4, <1>5

-----------------------------------------------------------------------------
(* jaiTableAddAll.                                                         *)

\* The recursion of Puts defines a function ...
LEMMA PutsAre ==
  ASSUME NEW t, NEW p, NEW N \in Nat, N = Len(p), NEW M, M = Puts(t, p)
  PROVE  /\ M[0] = t
         /\ \A n \in 1 .. N : M[n] = Put(M[n - 1], p[n][1], p[n][2])
<1> DEFINE G(x, n) == Put(x, p[n][1], p[n][2])
           F(f, m) == [n \in 0 .. m |-> IF n = 0 THEN t ELSE G(f[n - 1], n)]
           S == {m \in Nat : \E f : f = F(f, m)}
<1>1. 0 \in S
  <2>1. PICK f : f = [n \in 0 .. 0 |-> t]
    OBVIOUS
  <2> HIDE DEF G
  <2>2. f = F(f, 0)
    BY <2>1
  <2> QED
    BY <2>2
<1>2. ASSUME NEW m \in S PROVE m + 1 \in S
  <2> HIDE DEF G
  <2>1. PICK f : f = F(f, m)
    OBVIOUS
  <2>2. m \in Nat
    OBVIOUS
  <2>3. PICK g : g = [n \in 0 .. m + 1 |-> IF n = m + 1 THEN G(f[m], n) ELSE f[n]]
    OBVIOUS
  <2>4. \A n \in 0 .. m : g[n] = f[n]
    BY <2>2, <2>3
  <2>5. \A n \in 0 .. m + 1 : g[n] = IF n = 0 THEN t ELSE G(g[n - 1], n)
    <3> TAKE n \in 0 .. m + 1
    <3>1. CASE n = m + 1
      <4>1. g[n] = G(f[m], n) /\ n # 0 /\ n - 1 = m /\ m \in 0 .. m
        BY <2>2, <2>3, <3>1
      <4>2. g[n - 1] = f[m]
        BY <2>4, <4>1
      <4> QED
        BY <4>1, <4>2
    <3>2. CASE n = 0
      BY <2>1, <2>2, <2>4, <3>2
    <3>3. CASE n \in 1 .. m
      <4>1. n \in 0 .. m /\ n - 1 \in 0 .. m /\ n # 0
        BY <2>2, <3>3
      <4>2. f[n] = G(f[n - 1], n)
        BY <2>1, <4>1
      <4> QED
        BY <2>4, <4>1, <4>2
    <3> QED
      BY <2>2, <3>1, <3>2, <3>3
  <2>6. g = F(g, m + 1)
    <3>1. g = [n \in 0 .. m + 1 |-> g[n]]
      BY <2>3
    <3> QED
      BY <2>5, <3>1
  <2> QED
    BY <2>2, <2>6
<1>3. S = Nat
  <2> HIDE DEF S
  <2>1. S \in SUBSET Nat
    BY DEF S
  <2> QED
    BY <1>1, <1>2, <2>1, Inductive
<1>4. \E f : f = F(f, N)
  BY <1>3
<1>5. M = CHOOSE f : f = F(f, N)
  BY DEF Puts
<1>6. M = F(M, N)
  <2> HIDE DEF F
  <2> QED
    BY <1>4, <1>5
<1>7. \A n \in 0 .. N : M[n] = IF n = 0 THEN t ELSE G(M[n - 1], n)
  <2> HIDE DEF G
  <2> QED
    BY <1>6
<1> QED
  BY <1>7

\* M holds the table t after each of the pairs of p.
IsPuts(M, t, p) ==
  /\ M[0] = t
  /\ \A n \in 1 .. Len(p) : M[n] = Put(M[n - 1], p[n][1], p[n][2])

\* The same, said of the term itself.
LEMMA PutsIs ==
  ASSUME NEW t, NEW p, Len(p) \in Nat
  PROVE  IsPuts(Puts(t, p), t, p)
<1> PICK N, M : N = Len(p) /\ M = Puts(t, p)
  OBVIOUS
<1>1. N \in Nat /\ N = Len(p) /\ M = Puts(t, p)
  OBVIOUS
<1>2. M[0] = t /\ \A n \in 1 .. N : M[n] = Put(M[n - 1], p[n][1], p[n][2])
  BY ONLY <1>1, PutsAre
<1>3. IsPuts(M, t, p)
  BY ONLY <1>1, <1>2 DEF IsPuts
<1> QED
  BY <1>3

\* ... and so does that of the map's Merges.
LEMMA MergesAre ==
  ASSUME NEW m0, NEW p, NEW N \in Nat, N = Len(p), NEW M, M = Abs!Merges(m0, p)
  PROVE  /\ M[0] = m0
         /\ \A n \in 1 .. N : M[n] = Abs!With(M[n - 1], p[n][1], p[n][2])
<1> DEFINE G(x, n) == Abs!With(x, p[n][1], p[n][2])
           F(f, m) == [n \in 0 .. m |-> IF n = 0 THEN m0 ELSE G(f[n - 1], n)]
           S == {m \in Nat : \E f : f = F(f, m)}
<1>1. 0 \in S
  <2>1. PICK f : f = [n \in 0 .. 0 |-> m0]
    OBVIOUS
  <2> HIDE DEF G
  <2>2. f = F(f, 0)
    BY <2>1
  <2> QED
    BY <2>2
<1>2. ASSUME NEW m \in S PROVE m + 1 \in S
  <2> HIDE DEF G
  <2>1. PICK f : f = F(f, m)
    OBVIOUS
  <2>2. m \in Nat
    OBVIOUS
  <2>3. PICK g : g = [n \in 0 .. m + 1 |-> IF n = m + 1 THEN G(f[m], n) ELSE f[n]]
    OBVIOUS
  <2>4. \A n \in 0 .. m : g[n] = f[n]
    BY <2>2, <2>3
  <2>5. \A n \in 0 .. m + 1 : g[n] = IF n = 0 THEN m0 ELSE G(g[n - 1], n)
    <3> TAKE n \in 0 .. m + 1
    <3>1. CASE n = m + 1
      <4>1. g[n] = G(f[m], n) /\ n # 0 /\ n - 1 = m /\ m \in 0 .. m
        BY <2>2, <2>3, <3>1
      <4>2. g[n - 1] = f[m]
        BY <2>4, <4>1
      <4> QED
        BY <4>1, <4>2
    <3>2. CASE n = 0
      BY <2>1, <2>2, <2>4, <3>2
    <3>3. CASE n \in 1 .. m
      <4>1. n \in 0 .. m /\ n - 1 \in 0 .. m /\ n # 0
        BY <2>2, <3>3
      <4>2. f[n] = G(f[n - 1], n)
        BY <2>1, <4>1
      <4> QED
        BY <2>4, <4>1, <4>2
    <3> QED
      BY <2>2, <3>1, <3>2, <3>3
  <2>6. g = F(g, m + 1)
    <3>1. g = [n \in 0 .. m + 1 |-> g[n]]
      BY <2>3
    <3> QED
      BY <2>5, <3>1
  <2> QED
    BY <2>2, <2>6
<1>3. S = Nat
  <2> HIDE DEF S
  <2>1. S \in SUBSET Nat
    BY DEF S
  <2> QED
    BY <1>1, <1>2, <2>1, Inductive
<1>4. \E f : f = F(f, N)
  BY <1>3
<1>5. M = CHOOSE f : f = F(f, N)
  BY DEF Abs!Merges
<1>6. M = F(M, N)
  <2> HIDE DEF F
  <2> QED
    BY <1>4, <1>5
<1>7. \A n \in 0 .. N : M[n] = IF n = 0 THEN m0 ELSE G(M[n - 1], n)
  <2> HIDE DEF G
  <2> QED
    BY <1>6
<1> QED
  BY <1>7

\* M holds the map m0 after each of the pairs of p.
IsMerges(M, m0, p) ==
  /\ M[0] = m0
  /\ \A n \in 1 .. Len(p) : M[n] = Abs!With(M[n - 1], p[n][1], p[n][2])

\* The same, said of the term itself.
LEMMA MergesIs ==
  ASSUME NEW m0, NEW p, Len(p) \in Nat
  PROVE  IsMerges(Abs!Merges(m0, p), m0, p)
<1> PICK N, M : N = Len(p) /\ M = Abs!Merges(m0, p)
  OBVIOUS
<1>1. N \in Nat /\ N = Len(p) /\ M = Abs!Merges(m0, p)
  OBVIOUS
<1>2. M[0] = m0 /\ \A n \in 1 .. N : M[n] = Abs!With(M[n - 1], p[n][1], p[n][2])
  BY ONLY <1>1, MergesAre
<1>3. IsMerges(M, m0, p)
  BY ONLY <1>1, <1>2 DEF IsMerges
<1> QED
  BY <1>3

\* jaiTableAddAll makes room for all of the other table.
LEMMA RoomForAllSound ==
  ASSUME NEW t, Sound(t), Masked(t), NEW n \in Nat, n > 0, NEW u, u = RoomForAll(t, n)
  PROVE  /\ Sound(u) /\ Masked(u) /\ Listing(u) = Listing(t)
         /\ u.capacity > 0 /\ u.count + u.tombstones + n < u.capacity
         /\ \/ u = t
            \/ u.keyVersion = Later(t.keyVersion, 1) /\ u.version = Later(t.version, 1)
<1>1. Sized(t) /\ t.count \in Nat /\ t.tombstones \in Nat /\ t.capacity \in Nat /\ t.capacity # 1
  BY FieldTypes DEF Sound, Sized
<1> PICK a, c : a = t.count + n /\ c = CapacityFor(a)
  OBVIOUS
<1>2. a \in Nat /\ c \in Nat /\ c >= 2 /\ c > a /\ PowerOfTwo(c)
  <2>1. a \in Nat
    BY <1>1
  <2> QED
    BY <2>1, CapacityForFits
<1>3. ASSUME NEW b \in Nat, b >= c, PowerOfTwo(b), u = Adjusted(t, b)
      PROVE  /\ Sound(u) /\ Masked(u) /\ Listing(u) = Listing(t)
             /\ u.capacity > 0 /\ u.count + u.tombstones + n < u.capacity
             /\ u.keyVersion = Later(t.keyVersion, 1) /\ u.version = Later(t.version, 1)
  <2>1. b # 1 /\ t.count < b
    BY <1>1, <1>2, <1>3
  <2>2. /\ Sound(u) /\ Listing(u) = Listing(t)
        /\ u.capacity = b /\ u.count = t.count /\ u.tombstones = 0
        /\ u.keyVersion = Later(t.keyVersion, 1) /\ u.version = Later(t.version, 1)
    BY <1>3, <2>1, AdjustedSound
  <2> QED
    BY <1>1, <1>2, <1>3, <2>2 DEF Masked
<1>4. CASE c > t.capacity
  <2>1. u = Adjusted(t, c)
    BY <1>4 DEF RoomForAll
  <2>2. c >= c
    BY <1>2
  <2> QED
    BY <1>2, <1>3, <2>1, <2>2
<1>5. CASE ~ c > t.capacity /\ ~ HasRoom(t, n)
  <2>1. u = Adjusted(t, t.capacity)
    BY <1>5 DEF RoomForAll
  <2>2. t.capacity >= c /\ t.capacity > 0
    BY <1>1, <1>2, <1>5
  <2>3. PowerOfTwo(t.capacity)
    BY <2>2 DEF Masked
  <2> QED
    BY <1>1, <1>3, <2>1, <2>2, <2>3
<1>6. CASE ~ c > t.capacity /\ HasRoom(t, n)
  <2>1. u = t
    BY <1>6 DEF RoomForAll
  <2>2. t.capacity > 0 /\ t.count + t.tombstones + n < t.capacity
    BY <1>1, <1>6, HasRoomLeaves
  <2> QED
    BY <2>1, <2>2
<1> QED
  BY <1>4, <1>5, <1>6

\* The table after n of the pairs were put in it.
PutSoFar(t, p, n, u) ==
  /\ Sound(u) /\ u.capacity = t.capacity
  /\ u.count \in t.count .. t.count + n
  /\ u.count + u.tombstones <= t.count + t.tombstones + n
  /\ u.keyVersion = Later(t.keyVersion, u.count - t.count)
  /\ u.version = Later(t.version, n)
  /\ u.count = t.count => Pinned(t, u)
  /\ Listing(u) = Abs!Merges(Listing(t), p)[n]

\* One step of the loop of jaiTableAddAll.
LEMMA PutOneMore ==
  ASSUME NEW t, Sound(t), NEW p \in Seq(Key \X Value), t.count + t.tombstones + Len(p) < t.capacity,
         NEW n \in 1 .. Len(p), NEW x, PutSoFar(t, p, n - 1, x),
         NEW u, u = Put(x, p[n][1], p[n][2])
  PROVE  PutSoFar(t, p, n, u)
<1> PICK k, v : k = p[n][1] /\ v = p[n][2]
  OBVIOUS
<1>1. k \in Key /\ v \in Value /\ Len(p) \in Nat /\ n \in Nat /\ n >= 1 /\ n <= Len(p)
  OBVIOUS
<1>2. /\ t.count \in Nat /\ t.tombstones \in Nat /\ t.capacity \in Nat
      /\ t.keyVersion \in 0 .. VersionMod - 1 /\ t.version \in 0 .. VersionMod - 1
  BY FieldTypes DEF Sound
<1>3. /\ Sound(x) /\ x.capacity = t.capacity
      /\ x.count \in t.count .. t.count + (n - 1)
      /\ x.count + x.tombstones <= t.count + t.tombstones + (n - 1)
      /\ x.keyVersion = Later(t.keyVersion, x.count - t.count) /\ x.version = Later(t.version, n - 1)
      /\ x.count = t.count => Pinned(t, x)
      /\ Listing(x) = Abs!Merges(Listing(t), p)[n - 1]
  BY DEF PutSoFar
<1>4. x.count \in Nat /\ x.tombstones \in Nat
  BY <1>3, FieldTypes DEF Sound
<1>5. x.capacity > 0 /\ x.count + x.tombstones + 1 < x.capacity
  <2> PICK tc, tt, xc, xt, c, L : /\ tc = t.count /\ tt = t.tombstones /\ xc = x.count
                                  /\ xt = x.tombstones /\ c = x.capacity /\ L = Len(p)
    OBVIOUS
  <2>1. /\ tc \in Nat /\ tt \in Nat /\ xc \in Nat /\ xt \in Nat /\ c \in Nat /\ L \in Nat
        /\ n \in Nat /\ n <= L /\ tc + tt + L < c /\ xc + xt <= tc + tt + (n - 1)
    BY <1>1, <1>2, <1>3, <1>4
  <2>2. c > 0 /\ xc + xt + 1 < c
    BY ONLY <2>1
  <2> QED
    BY <2>2
<1>6. /\ Sound(u) /\ Listing(u) = Abs!With(Listing(x), k, v)
      /\ u.capacity = x.capacity /\ u.count \in {x.count, x.count + 1}
      /\ u.count + u.tombstones <= x.count + x.tombstones + 1
      /\ u.keyVersion = Later(x.keyVersion, u.count - x.count) /\ u.version = Later(x.version, 1)
      /\ u.count = x.count => Pinned(x, u)
  <2>1. u = Put(x, k, v) /\ Sound(x)
    BY <1>3
  <2> QED
    BY ONLY <1>1, <1>5, <2>1, PutSound
<1>7. u.count \in Nat /\ u.tombstones \in Nat
  BY <1>6, FieldTypes DEF Sound
<1>8. u.keyVersion = Later(t.keyVersion, u.count - t.count)
  <2> PICK a, b, tc, xc, uc : /\ a = xc - tc /\ b = uc - xc
                              /\ tc = t.count /\ xc = x.count /\ uc = u.count
    OBVIOUS
  <2>0. tc \in Nat /\ xc \in Nat /\ xc \in tc .. tc + (n - 1) /\ uc \in {xc, xc + 1}
    BY <1>2, <1>3, <1>4, <1>6
  <2>1. a \in Nat /\ b \in Nat /\ a + b = uc - tc
    BY ONLY <1>1, <2>0, a = xc - tc, b = uc - xc
  <2>2. Later(Later(t.keyVersion, a), b) = Later(t.keyVersion, a + b)
    <3>1. t.keyVersion \in 0 .. VersionMod - 1
      BY <1>2
    <3> QED
      BY ONLY <2>1, <3>1, LaterLater
  <2> QED
    BY <1>3, <1>6, <2>1, <2>2
<1>9. ASSUME u.count = t.count PROVE Pinned(t, u)
  <2>1. x.count = t.count /\ u.count = x.count
    BY <1>2, <1>3, <1>4, <1>6, <1>9
  <2>2. Pinned(t, x) /\ Pinned(x, u)
    BY <1>3, <1>6, <2>1
  <2>3. Slots(x) = Slots(t)
    BY <2>2 DEF Pinned, Slots
  <2> QED
    BY <2>2, <2>3 DEF Pinned
<1>10. Listing(u) = Abs!Merges(Listing(t), p)[n]
  <2> PICK m0 : m0 = Listing(t)
    OBVIOUS
  <2>1. IsMerges(Abs!Merges(m0, p), m0, p)
    BY ONLY <1>1, MergesIs
  <2> PICK M, N : M = Abs!Merges(m0, p) /\ N = Len(p)
    OBVIOUS
  <2>2. \A j \in 1 .. N : M[j] = Abs!With(M[j - 1], p[j][1], p[j][2])
    BY ONLY <2>1, M = Abs!Merges(m0, p), N = Len(p) DEF IsMerges
  <2>3. n \in 1 .. N
    BY <1>1
  <2>4. M[n] = Abs!With(M[n - 1], k, v)
    BY ONLY <2>2, <2>3, k = p[n][1], v = p[n][2]
  <2>5. Listing(u) = Abs!With(Listing(x), k, v) /\ Listing(x) = M[n - 1]
    BY <1>3, <1>6
  <2> QED
    BY <2>4, <2>5
<1>11. u.count \in t.count .. t.count + n /\ u.count + u.tombstones <= t.count + t.tombstones + n
  <2> PICK tc, tt, xc, xt, uc, ut : /\ tc = t.count /\ tt = t.tombstones /\ xc = x.count
                                    /\ xt = x.tombstones /\ uc = u.count /\ ut = u.tombstones
    OBVIOUS
  <2>1. /\ tc \in Nat /\ tt \in Nat /\ xc \in Nat /\ xt \in Nat /\ uc \in Nat /\ ut \in Nat
        /\ xc \in tc .. tc + (n - 1) /\ xc + xt <= tc + tt + (n - 1)
        /\ uc \in {xc, xc + 1} /\ uc + ut <= xc + xt + 1
    BY <1>2, <1>3, <1>4, <1>6, <1>7
  <2>2. uc \in tc .. tc + n /\ uc + ut <= tc + tt + n
    BY ONLY <1>1, <2>1
  <2> QED
    BY <2>2
<1>12. u.version = Later(t.version, n)
  <2>1. n - 1 \in Nat /\ (n - 1) + 1 = n
    BY <1>1
  <2>2. Later(Later(t.version, n - 1), 1) = Later(t.version, (n - 1) + 1)
    BY <1>2, <2>1, LaterLater
  <2> QED
    BY <1>3, <1>6, <2>1, <2>2
<1> QED
  BY <1>3, <1>6, <1>8, <1>9, <1>10, <1>11, <1>12 DEF PutSoFar

\* The loop merges the pairs, with no further look at the load.
LEMMA PutsSound ==
  ASSUME NEW t, Sound(t), NEW p \in Seq(Key \X Value), t.count + t.tombstones + Len(p) < t.capacity,
         NEW u, u = Puts(t, p)[Len(p)]
  PROVE  PutSoFar(t, p, Len(p), u)
<1> PICK N, M : N = Len(p) /\ M = Puts(t, p)
  OBVIOUS
<1>0. /\ t.count \in Nat /\ t.tombstones \in Nat /\ t.keyVersion \in 0 .. VersionMod - 1
      /\ t.version \in 0 .. VersionMod - 1
  BY FieldTypes DEF Sound
<1>1. /\ N \in Nat /\ t.count \in Nat /\ t.tombstones \in Nat /\ t.keyVersion \in 0 .. VersionMod - 1
      /\ t.version \in 0 .. VersionMod - 1
  BY <1>0
<1>2. M[0] = t /\ \A n \in 1 .. N : M[n] = Put(M[n - 1], p[n][1], p[n][2])
  <2>1. N = Len(p) /\ M = Puts(t, p) /\ N \in Nat
    BY <1>1
  <2>2. IsPuts(Puts(t, p), t, p)
    BY ONLY <2>1, PutsIs
  <2> QED
    BY ONLY <2>1, <2>2 DEF IsPuts
<1> DEFINE S == {n \in 0 .. N : PutSoFar(t, p, n, M[n])}
<1>3. 0 \in S
  <2>1. Abs!Merges(Listing(t), p)[0] = Listing(t)
    <3>1. IsMerges(Abs!Merges(Listing(t), p), Listing(t), p)
      BY ONLY <1>1, N = Len(p), MergesIs
    <3> QED
      BY ONLY <3>1 DEF IsMerges
  <2>2. t.count - t.count = 0 /\ t.count \in t.count .. t.count + 0
        /\ t.count + t.tombstones <= t.count + t.tombstones + 0
    BY <1>1
  <2>3. t.keyVersion = Later(t.keyVersion, t.count - t.count) /\ t.version = Later(t.version, 0)
    BY <1>1, <2>2, LaterNone
  <2>4. Pinned(t, t)
    BY DEF Pinned
  <2>5. PutSoFar(t, p, 0, t)
    BY <2>1, <2>2, <2>3, <2>4 DEF PutSoFar
  <2> QED
    BY <1>1, <1>2, <2>5
<1>4. ASSUME NEW n \in 0 .. N - 1, n \in S PROVE n + 1 \in S
  <2> PICK m, x, y : m = n + 1 /\ x = M[n] /\ y = M[m]
    OBVIOUS
  <2>1. m \in 1 .. N /\ m - 1 = n /\ m \in 0 .. N
    BY <1>1
  <2>2. PutSoFar(t, p, m - 1, x)
    BY <1>4, <2>1
  <2>3. y = Put(x, p[m][1], p[m][2])
    BY <1>2, <2>1
  <2>4. PutSoFar(t, p, m, y)
    BY <2>1, <2>2, <2>3, PutOneMore
  <2> QED
    BY <2>1, <2>4
<1>5. N \in S
  <2> HIDE DEF S
  <2>1. 0 .. N \subseteq S
    BY <1>1, <1>3, <1>4, InductiveTo
  <2> QED
    BY <1>1, <2>1
<1> QED
  BY <1>5

\* jaiTableAddAll
LEMMA JoinedSound ==
  ASSUME NEW t, Sound(t), Masked(t), NEW p \in Seq(Key \X Value), Len(p) > 0,
         NEW u, u = Joined(t, p)
  PROVE  /\ Sound(u) /\ Masked(u) /\ Listing(u) = Abs!Merged(Listing(t), p)
         /\ Versioned(t, u, u.capacity) /\ Told(t, u, u.capacity)
<1> PICK n, w : n = Len(p) /\ w = RoomForAll(t, n)
  OBVIOUS
<1>0. t.keyVersion \in 0 .. VersionMod - 1 /\ t.version \in 0 .. VersionMod - 1
  BY FieldTypes DEF Sound
<1>1. /\ n \in Nat /\ n > 0 /\ t.keyVersion \in 0 .. VersionMod - 1
      /\ t.version \in 0 .. VersionMod - 1
  BY <1>0
<1>2. /\ Sound(w) /\ Masked(w) /\ Listing(w) = Listing(t)
      /\ w.capacity > 0 /\ w.count + w.tombstones + n < w.capacity
      /\ \/ w = t
         \/ w.keyVersion = Later(t.keyVersion, 1) /\ w.version = Later(t.version, 1)
  BY <1>1, RoomForAllSound
<1>3. w.count \in Nat /\ w.tombstones \in Nat /\ w.capacity \in Nat
  BY <1>2, FieldTypes DEF Sound
<1>4. u = Puts(w, p)[n]
  BY DEF Joined
<1>5. PutSoFar(w, p, n, u)
  BY <1>2, <1>4, PutsSound
<1>6. /\ Sound(u) /\ u.capacity = w.capacity
      /\ u.count \in w.count .. w.count + n
      /\ u.keyVersion = Later(w.keyVersion, u.count - w.count)
      /\ u.version = Later(w.version, n)
      /\ u.count = w.count => Pinned(w, u)
      /\ Listing(u) = Abs!Merges(Listing(w), p)[n]
  BY <1>5 DEF PutSoFar
<1>7. Masked(u)
  BY <1>2, <1>6 DEF Masked
<1>8. Listing(u) = Abs!Merged(Listing(t), p)
  BY <1>2, <1>6 DEF Abs!Merged
<1> PICK d : d = u.count - w.count
  OBVIOUS
<1>9. d \in 0 .. n /\ u.count = w.count + d
  <2> PICK uc, wc : uc = u.count /\ wc = w.count
    OBVIOUS
  <2>1. wc \in Nat /\ uc \in wc .. wc + n /\ d = uc - wc
    BY <1>3, <1>6
  <2>2. d \in 0 .. n /\ uc = wc + d
    BY ONLY <1>1, <2>1
  <2> QED
    BY <2>2
<1>13. /\ n \in 1 .. u.capacity /\ 1 + n \in 1 .. u.capacity /\ 1 + d \in 1 .. u.capacity
       /\ d # 0 => d \in 1 .. u.capacity
  <2> PICK wc, wt, c : wc = w.count /\ wt = w.tombstones /\ c = w.capacity
    OBVIOUS
  <2>1. wc \in Nat /\ wt \in Nat /\ c \in Nat /\ wc + wt + n < c /\ u.capacity = c
    BY <1>2, <1>3, <1>6
  <2>2. n \in 1 .. c /\ 1 + n \in 1 .. c /\ 1 + d \in 1 .. c /\ (d # 0 => d \in 1 .. c)
    BY ONLY <1>1, <1>9, <2>1
  <2> QED
    BY ONLY <2>1, <2>2
<1>12. Told(t, u, u.capacity)
  <2>1. CASE w = t
    <3>1. n \in 1 .. u.capacity /\ u.version = Later(t.version, n)
      BY <1>6, <1>13, <2>1
    <3> QED
      BY ONLY <3>1 DEF Told
  <2>2. CASE w.version = Later(t.version, 1)
    <3>1. /\ t.version \in 0 .. VersionMod - 1 /\ 1 \in Nat /\ n \in Nat
          /\ w.version = Later(t.version, 1) /\ u.version = Later(w.version, n)
      BY <1>1, <1>6, <2>2
    <3>2. u.version = Later(t.version, 1 + n)
      BY ONLY <3>1, TwoLaters
    <3>3. 1 + n \in 1 .. u.capacity
      BY <1>13
    <3> QED
      BY ONLY <3>2, <3>3 DEF Told
  <2> QED
    BY <1>2, <2>1, <2>2
<1>10. CASE w = t
  <2>1. CASE d = 0
    <3>1. u.keyVersion = t.keyVersion /\ u.count = w.count
      <4>1. /\ w.keyVersion \in 0 .. VersionMod - 1 /\ w.keyVersion = t.keyVersion
            /\ u.keyVersion = Later(w.keyVersion, d)
        BY <1>1, <1>6, <1>10
      <4>2. Later(w.keyVersion, 0) = w.keyVersion
        BY ONLY <4>1, LaterNone
      <4>3. u.count = w.count
        BY <1>3, <1>9, <2>1
      <4> QED
        BY ONLY <4>1, <4>2, <4>3, <2>1
    <3> QED
      BY <1>6, <1>7, <1>8, <1>10, <1>12, <3>1 DEF Versioned
  <2>2. CASE d # 0
    <3>1. d \in 1 .. u.capacity
      BY <1>13, <2>2
    <3> QED
      BY <1>6, <1>7, <1>8, <1>10, <1>12, <3>1 DEF Versioned
  <2> QED
    BY <2>1, <2>2
<1>11. CASE w.keyVersion = Later(t.keyVersion, 1)
  <2>1. u.keyVersion = Later(t.keyVersion, 1 + d)
    <3>1. /\ t.keyVersion \in 0 .. VersionMod - 1 /\ 1 \in Nat /\ d \in Nat
          /\ w.keyVersion = Later(t.keyVersion, 1) /\ u.keyVersion = Later(w.keyVersion, d)
      BY <1>1, <1>6, <1>9, <1>11
    <3> QED
      BY ONLY <3>1, TwoLaters
  <2>2. 1 + d \in 1 .. u.capacity
    BY <1>13
  <2> QED
    BY <1>6, <1>7, <1>8, <1>12, <2>1, <2>2 DEF Versioned
<1> QED
  BY <1>2, <1>10, <1>11

-----------------------------------------------------------------------------
(* jaiTableRemoveWhite.                                                    *)

\* Removing the white keys and shrinking keeps the rest of the map.
LEMMA WhitenedSound ==
  ASSUME NEW t, Sound(t), Masked(t), t.capacity > 0, NEW S, NEW u, u = Whitened(t, S)
  PROVE  /\ Sound(u) /\ Masked(u) /\ Listing(u) = Abs!Without(Listing(t), S)
         /\ Versioned(t, u, t.capacity) /\ Told(t, u, t.capacity) /\ u.capacity <= t.capacity
<1> PICK W, g, n : /\ W = {s \in LiveSlots(t) : t.entries[s].key \in S}
                   /\ g = Removed(t, W) /\ n = Cardinality(W)
  OBVIOUS
<1>1. /\ t.capacity \in Nat /\ t.count \in Nat /\ t.tombstones \in Nat
      /\ t.keyVersion \in 0 .. VersionMod - 1 /\ t.version \in 0 .. VersionMod - 1
      /\ t.count + t.tombstones < t.capacity
  BY FieldTypes DEF Sound, Counted
<1>2. /\ Sound(g) /\ Listing(g) = Abs!Without(Listing(t), S)
      /\ g.capacity = t.capacity /\ g.count = t.count - n
      /\ g.keyVersion = Later(t.keyVersion, n) /\ g.version = Later(t.version, n) /\ n \in 0 .. t.count
      /\ n = 0 => Pinned(t, g) /\ Alike(t, g)
  <2>1. g = Removed(t, W) /\ n = Cardinality(W)
    OBVIOUS
  <2>2. OfKeys(t, S, W)
    BY DEF OfKeys
  <2> QED
    BY ONLY <2>1, <2>2, Sound(t), RemovedSound
<1> PICK c : c = CapacityFor(g.count * 2 + 1)
  OBVIOUS
<1>3. g.count \in Nat /\ c \in Nat /\ c >= 2 /\ c > g.count /\ PowerOfTwo(c)
  <2>1. g.count \in Nat /\ g.count * 2 + 1 \in Nat
    BY <1>1, <1>2
  <2>2. c \in Nat /\ c >= 2 /\ c > g.count * 2 + 1 /\ PowerOfTwo(c)
    <3> PICK x : x = g.count * 2 + 1
      OBVIOUS
    <3>1. x \in Nat /\ c = CapacityFor(x)
      BY <2>1
    <3>2. CapacityFor(x) \in Nat /\ CapacityFor(x) >= 2 /\ CapacityFor(x) > x /\ PowerOfTwo(CapacityFor(x))
      BY ONLY <3>1, CapacityForFits
    <3> QED
      BY <3>1, <3>2
  <2> PICK y : y = g.count
    OBVIOUS
  <2>3. y \in Nat /\ c \in Nat /\ c > y * 2 + 1
    BY <2>1, <2>2
  <2>4. c > y
    BY ONLY <2>3
  <2> QED
    BY <2>1, <2>2, <2>4
<1>4. /\ n \in Nat /\ t.capacity \in Nat /\ n + 1 \in 1 .. t.capacity
      /\ g.keyVersion = Later(t.keyVersion, n) /\ g.version = Later(t.version, n)
  <2> PICK a, b, y : a = t.count /\ b = t.tombstones /\ y = t.capacity
    OBVIOUS
  <2>1. a \in Nat /\ b \in Nat /\ y \in Nat /\ a + b < y /\ n \in 0 .. a
    BY <1>1, <1>2
  <2>2. n \in Nat /\ n + 1 \in 1 .. y
    BY ONLY <2>1
  <2> QED
    BY <1>1, <1>2, <2>2
<1>5. u = IF g.count < g.capacity \div 4 /\ c < g.capacity THEN Adjusted(g, c) ELSE g
  BY DEF Whitened
<1>6. CASE u = g
  <2>1. Masked(u)
    BY <1>2, <1>6 DEF Masked
  <2>2. Versioned(t, u, t.capacity) /\ Told(t, u, t.capacity)
    <3>1. CASE n = 0
      BY <1>1, <1>2, <1>6, <3>1, LaterNone DEF Versioned, Told
    <3>2. CASE n # 0
      <4>1. n \in 1 .. t.capacity
        BY <1>1, <1>2, <3>2
      <4> QED
        BY <1>2, <1>6, <4>1 DEF Versioned, Told
    <3> QED
      BY <3>1, <3>2
  <2>3. u.capacity <= t.capacity
    BY <1>1, <1>2, <1>6
  <2> QED
    BY <1>2, <1>6, <2>1, <2>2, <2>3
<1>7. CASE u = Adjusted(g, c) /\ c < g.capacity
  <2>1. /\ Sound(u) /\ Listing(u) = Listing(g) /\ u.capacity = c
        /\ u.keyVersion = Later(g.keyVersion, 1) /\ u.version = Later(g.version, 1)
    <3>0. c # 1
      BY ONLY <1>3
    <3>1. c # 1 /\ g.count < c /\ c \in Nat /\ Sound(g) /\ u = Adjusted(g, c)
      <4>1. g.count < c
        BY ONLY <1>3
      <4> QED
        BY <1>2, <1>3, <1>7, <3>0, <4>1
    <3> QED
      BY ONLY <3>1, AdjustedSound
  <2>2. u.keyVersion = Later(t.keyVersion, n + 1) /\ u.version = Later(t.version, n + 1)
    <3>1. /\ t.keyVersion \in 0 .. VersionMod - 1 /\ n \in Nat /\ 1 \in Nat
          /\ g.keyVersion = Later(t.keyVersion, n) /\ u.keyVersion = Later(g.keyVersion, 1)
      BY <1>1, <1>4, <2>1
    <3>2. /\ t.version \in 0 .. VersionMod - 1 /\ n \in Nat /\ 1 \in Nat
          /\ g.version = Later(t.version, n) /\ u.version = Later(g.version, 1)
      BY <1>1, <1>4, <2>1
    <3>3. u.keyVersion = Later(t.keyVersion, n + 1)
      BY ONLY <3>1, TwoLaters
    <3>4. u.version = Later(t.version, n + 1)
      BY ONLY <3>2, TwoLaters
    <3> QED
      BY <3>3, <3>4
  <2>3. n + 1 \in 1 .. t.capacity
    BY <1>4
  <2>4. Masked(u) /\ u.capacity <= t.capacity
    <3>1. u.capacity = c /\ PowerOfTwo(c) /\ c < t.capacity /\ c \in Nat /\ t.capacity \in Nat
      BY <1>1, <1>2, <1>3, <1>7, <2>1
    <3>2. c <= t.capacity
      BY <3>1
    <3> QED
      BY <3>1, <3>2 DEF Masked
  <2> QED
    BY <1>2, <2>1, <2>2, <2>3, <2>4 DEF Versioned, Told
<1> QED
  BY <1>5, <1>6, <1>7

-----------------------------------------------------------------------------
(* The invariant.                                                          *)

\* What every operation relies on and restores.
IInv == Sound(table) /\ Masked(table) /\ table.capacity <= MaxCapacity

\* What one operation does to a table, to the map and to compiled code.
Leads(t, u) ==
  /\ Sound(u) /\ Masked(u)
  /\ u.keyVersion = t.keyVersion => Pinned(t, u)
  /\ u.version = t.version => Alike(t, u)
  /\ \/ Listing(u) = Listing(t)
     \/ \E k \in Key, v \in Value : Listing(u) = Abs!With(Listing(t), k, v)
     \/ \E S \in SUBSET Key : Listing(u) = Abs!Without(Listing(t), S)
     \/ \E p \in Others : Listing(u) = Abs!Merged(Listing(t), p)

\* keyVersion cannot come round in one operation.
LEMMA VersionedPins ==
  ASSUME NEW t, Sound(t), NEW u, NEW m \in Nat, m <= MaxCapacity, Versioned(t, u, m),
         u.keyVersion = t.keyVersion
  PROVE  Pinned(t, u)
<1>1. t.keyVersion \in 0 .. VersionMod - 1
  BY FieldTypes DEF Sound
<1>2. ASSUME NEW n \in 1 .. m, u.keyVersion = Later(t.keyVersion, n) PROVE FALSE
  <2>1. MaxCapacity \in Nat
    BY TableAssumption
  <2>2. n \in Nat /\ n > 0 /\ n <= MaxCapacity
    BY <2>1
  <2> QED
    BY <1>1, <1>2, <2>2, LaterDiffers
<1> QED
  BY <1>2 DEF Versioned

\* An operation that counts one write never leaves keyVersion as it was.
LEMMA OncePins ==
  ASSUME NEW t, Sound(t), NEW u, u.keyVersion = Later(t.keyVersion, 1), MaxCapacity >= 1,
         u.keyVersion = t.keyVersion
  PROVE  Pinned(t, u)
<1>1. Versioned(t, u, 1)
  BY DEF Versioned
<1>2. 1 \in Nat /\ 1 <= MaxCapacity
  BY TableAssumption
<1> QED
  BY <1>1, <1>2, VersionedPins

\* `version` cannot come round in one operation either.
LEMMA ToldAlike ==
  ASSUME NEW t, Sound(t), NEW u, NEW m \in Nat, m <= MaxCapacity, Told(t, u, m),
         u.version = t.version
  PROVE  Alike(t, u)
<1>1. t.version \in 0 .. VersionMod - 1
  BY FieldTypes DEF Sound
<1>2. ASSUME NEW n \in 1 .. m, u.version = Later(t.version, n) PROVE FALSE
  <2>1. MaxCapacity \in Nat
    BY TableAssumption
  <2>2. n \in Nat /\ n > 0 /\ n <= MaxCapacity
    BY <2>1
  <2> QED
    BY <1>1, <1>2, <2>2, LaterDiffers
<1> QED
  BY <1>2 DEF Told

\* An operation that counts one write never leaves `version` as it was.
LEMMA OnceAlike ==
  ASSUME NEW t, Sound(t), NEW u, u.version = Later(t.version, 1), MaxCapacity >= 1,
         u.version = t.version
  PROVE  Alike(t, u)
<1>1. Told(t, u, 1)
  BY DEF Told
<1>2. 1 \in Nat /\ 1 <= MaxCapacity
  BY TableAssumption
<1> QED
  BY <1>1, <1>2, ToldAlike

\* tableSetHashed sets the key in the map.
LEMMA SetLeads ==
  ASSUME NEW t, Sound(t), Masked(t), NEW k \in Key, NEW v \in Value,
         NEW u, u = SetTo(t, k, v), u.capacity <= MaxCapacity
  PROVE  Leads(t, u)
<1>1. /\ Sound(u) /\ Masked(u) /\ Listing(u) = Abs!With(Listing(t), k, v)
      /\ Versioned(t, u, u.capacity)
      /\ u.capacity > 0 /\ \E n \in 1 .. 2 : u.version = Later(t.version, n)
  BY SetToSound
<1>2. u.capacity \in Nat
  BY <1>1 DEF Sound, Sized
<1> PICK m : m = u.capacity
  OBVIOUS
<1>3. u.keyVersion = t.keyVersion => Pinned(t, u)
  BY <1>1, <1>2, VersionedPins
<1>4. u.version = t.version => Alike(t, u)
  <2>1. Told(t, u, 2)
    BY <1>1 DEF Told
  <2>2. 2 \in Nat /\ 2 <= MaxCapacity
    <3>1. u.capacity # 1 /\ MaxCapacity \in Nat
      BY <1>1, TableAssumption DEF Sound, Sized
    <3> QED
      BY <1>1, <1>2, <3>1
  <2> QED
    BY <2>1, <2>2, ToldAlike
<1> QED
  BY <1>1, <1>3, <1>4 DEF Leads

\* removeEntry deletes the key from the map.
LEMMA DeleteLeads ==
  ASSUME NEW t, Sound(t), Masked(t), t.capacity <= MaxCapacity, NEW k \in Key, Found(t, k),
         NEW u, u = Removed(t, {Stop(t, k)})
  PROVE  Leads(t, u)
<1> PICK S, W : S = {k} /\ W = {s \in LiveSlots(t) : t.entries[s].key \in S}
  OBVIOUS
<1>1. W = Holding(t, k)
  BY HoldingIs
<1>2. W = {Stop(t, k)} /\ t.capacity > 0
  BY <1>1, FoundIs
<1>3. /\ Sound(u) /\ Listing(u) = Abs!Without(Listing(t), S)
      /\ u.capacity = t.capacity
      /\ u.keyVersion = Later(t.keyVersion, Cardinality(W)) /\ u.version = Later(t.version, Cardinality(W))
  <2>1. u = Removed(t, W)
    BY <1>2
  <2>2. OfKeys(t, S, W)
    BY DEF OfKeys
  <2> QED
    BY ONLY <2>1, <2>2, Sound(t), RemovedSound
<1>4. Cardinality(W) = 1
  BY <1>2, FS_Singleton
<1>5. MaxCapacity >= 1
  <2>1. t.capacity \in Nat
    BY DEF Sound, Sized
  <2> QED
    BY <1>2, <2>1, TableAssumption
<1>6. u.keyVersion = t.keyVersion => Pinned(t, u)
  BY <1>3, <1>4, <1>5, OncePins
<1>8. u.version = t.version => Alike(t, u)
  BY <1>3, <1>4, <1>5, OnceAlike
<1>7. Masked(u) /\ S \in SUBSET Key
  BY <1>3 DEF Masked
<1> QED
  BY <1>3, <1>6, <1>7, <1>8 DEF Leads

\* A table with no array lists nothing.
LEMMA NothingIn ==
  ASSUME NEW t, Sound(t), t.capacity = 0
  PROVE  t.order = <<>> /\ t.count = 0 /\ Listing(t) = <<>>
<1>1. Sized(t) /\ Len(t.order) <= t.capacity /\ t.count = Cardinality(LiveSlots(t))
  BY DEF Sound, Placed, Counted
<1>2. t.order \in Seq(Slots(t) \union {-1}) /\ Len(t.order) \in Nat
  BY <1>1, FieldTypes
<1>3. t.order = <<>>
  BY <1>1, <1>2, EmptySeq
<1>4. LiveSlots(t) = {}
  <2>1. Slots(t) = {}
    BY DEF Slots
  <2> QED
    BY <1>1, <2>1, SlotKinds
<1>5. t.count = 0
  BY <1>1, <1>4, FS_EmptySet
<1>6. Listing(t) \in Seq(Key \X Value) /\ Len(Listing(t)) = 0
  BY <1>5, ListingIs
<1> QED
  BY <1>3, <1>5, <1>6, EmptySeq

\* jaiTableClear deletes every key; a table with no array has no slot to pin.
LEMMA ClearLeads ==
  ASSUME NEW t, Sound(t), Masked(t), t.capacity <= MaxCapacity, NEW u, u = Cleared(t)
  PROVE  Leads(t, u)
<1>1. /\ Sound(u) /\ Masked(u) /\ Listing(u) = Abs!Without(Listing(t), Key)
      /\ u.capacity = t.capacity /\ u.keyVersion = Later(t.keyVersion, 1) /\ u.version = Later(t.version, 1)
  BY ClearedSound
<1>2. t.capacity \in Nat /\ MaxCapacity \in Nat
  BY TableAssumption DEF Sound, Sized
<1>3. CASE t.capacity = 0
  <2>1. Slots(t) = {}
    BY <1>3 DEF Slots
  <2>2. Pinned(t, u)
    BY <1>1, <2>1 DEF Pinned
  <2>3. u.version = t.version => Alike(t, u)
    <3>1. /\ u.order = <<>> /\ u.count = 0 /\ Listing(u) = <<>>
          /\ t.order = <<>> /\ t.count = 0 /\ Listing(t) = <<>>
      BY <1>1, <1>3, NothingIn
    <3> QED
      BY <3>1 DEF Alike
  <2> QED
    BY <1>1, <2>2, <2>3 DEF Leads
<1>4. CASE t.capacity # 0
  <2>1. MaxCapacity >= 1
    BY <1>2, <1>4
  <2>2. u.keyVersion = t.keyVersion => Pinned(t, u)
    BY <1>1, <2>1, OncePins
  <2>3. u.version = t.version => Alike(t, u)
    BY <1>1, <2>1, OnceAlike
  <2> QED
    BY <1>1, <2>2, <2>3 DEF Leads
<1> QED
  BY <1>3, <1>4

\* Reserving leaves the map as it was.
LEMMA ReserveLeads ==
  ASSUME NEW t, Sound(t), Masked(t), NEW n \in Nat, CapacityFor(n) > t.capacity,
         NEW u, u = Adjusted(t, CapacityFor(n)), u.capacity <= MaxCapacity
  PROVE  Leads(t, u)
<1> PICK c : c = CapacityFor(n)
  OBVIOUS
<1>1. c \in Nat /\ c >= 2 /\ PowerOfTwo(c)
  BY CapacityForFits
<1>2. t.capacity \in Nat /\ t.count \in 0 .. t.capacity
  <2>1. Sized(t) /\ t.capacity \in Nat /\ t.count = Cardinality(LiveSlots(t))
    BY DEF Sound, Sized, Counted
  <2> QED
    BY <2>1, SlotKinds, SlotsFinite
<1>3. /\ Sound(u) /\ Listing(u) = Listing(t) /\ u.capacity = c
      /\ u.keyVersion = Later(t.keyVersion, 1) /\ u.version = Later(t.version, 1)
  <2>1. c # 1 /\ t.count < c
    <3>1. c > t.capacity
      OBVIOUS
    <3> QED
      BY ONLY <1>1, <1>2, <3>1
  <2> QED
    BY <1>1, <2>1, AdjustedSound
<1>4. MaxCapacity >= 1
  BY <1>1, <1>3, TableAssumption
<1>5. Masked(u) /\ (u.keyVersion = t.keyVersion => Pinned(t, u))
  BY <1>1, <1>3, <1>4, OncePins DEF Masked
<1>6. u.version = t.version => Alike(t, u)
  BY <1>3, <1>4, OnceAlike
<1> QED
  BY <1>3, <1>5, <1>6 DEF Leads

\* jaiTableAddAll merges the other map into the map.
LEMMA AddAllLeads ==
  ASSUME NEW t, Sound(t), Masked(t), NEW p \in Others,
         NEW u, u = Joined(t, p), u.capacity <= MaxCapacity
  PROVE  Leads(t, u)
<1>1. p \in Seq(Key \X Value) /\ Len(p) > 0
  BY TableAssumption
<1>2. /\ Sound(u) /\ Masked(u) /\ Listing(u) = Abs!Merged(Listing(t), p)
      /\ Versioned(t, u, u.capacity) /\ Told(t, u, u.capacity)
  BY <1>1, JoinedSound
<1>3. u.capacity \in Nat
  BY <1>2 DEF Sound, Sized
<1> PICK m : m = u.capacity
  OBVIOUS
<1>4. u.keyVersion = t.keyVersion => Pinned(t, u)
  BY <1>2, <1>3, VersionedPins
<1>5. u.version = t.version => Alike(t, u)
  BY <1>2, <1>3, ToldAlike
<1> QED
  BY <1>2, <1>4, <1>5 DEF Leads

\* jaiTableRemoveWhite deletes the white keys.
LEMMA RemoveWhiteLeads ==
  ASSUME NEW t, Sound(t), Masked(t), t.capacity <= MaxCapacity, t.capacity > 0, NEW S \in SUBSET Key,
         NEW u, u = Whitened(t, S)
  PROVE  Leads(t, u)
<1>1. /\ Sound(u) /\ Masked(u) /\ Listing(u) = Abs!Without(Listing(t), S)
      /\ Versioned(t, u, t.capacity) /\ Told(t, u, t.capacity)
  BY WhitenedSound
<1>2. t.capacity \in Nat
  BY DEF Sound, Sized
<1> PICK m : m = t.capacity
  OBVIOUS
<1>3. u.keyVersion = t.keyVersion => Pinned(t, u)
  BY <1>1, <1>2, VersionedPins
<1>4. u.version = t.version => Alike(t, u)
  BY <1>1, <1>2, ToldAlike
<1> QED
  BY <1>1, <1>3, <1>4 DEF Leads

\* A new table holds nothing and has no slot to look in.
LEMMA InitSound ==
  ASSUME Init
  PROVE  IInv /\ Listing(table) = <<>>
<1> PICK t, E : t = NewTable /\ E = [s \in {} |-> EmptyEntry]
  OBVIOUS
<1>1. /\ t.entries = E /\ t.order = <<>> /\ t.count = 0 /\ t.tombstones = 0
      /\ t.capacity = 0 /\ t.version = 0 /\ t.keyVersion = 0
      /\ t = [entries |-> E, order |-> <<>>, count |-> 0, tombstones |-> 0, capacity |-> 0,
              version |-> 0, keyVersion |-> 0]
  BY DEF NewTable
<1>2. Sized(t)
  <2>1. 0 .. 0 - 1 = {} /\ E \in [{} -> Entry] /\ <<>> \in Seq({} \union {-1})
    OBVIOUS
  <2>2. 0 \in 0 .. VersionMod - 1
    BY TableAssumption
  <2> PICK r : r = <<>>
    OBVIOUS
  <2>3. E \in [0 .. 0 - 1 -> Entry] /\ r \in Seq(0 .. 0 - 1 \union {-1})
    BY <2>1
  <2>4. t = [entries |-> E, order |-> r, count |-> 0, tombstones |-> 0, capacity |-> 0,
             version |-> 0, keyVersion |-> 0]
    BY <1>1
  <2>5. t \in TableOf(0)
    BY ONLY <2>2, <2>3, <2>4 DEF TableOf
  <2> QED
    BY <1>1, <2>5 DEF Sized
<1>3. Slots(t) = {} /\ LiveSlots(t) = {} /\ Tombs(t) = {}
  BY <1>1 DEF Slots, LiveSlots, Tombs
<1>4. Len(t.order) = 0 /\ DOMAIN t.order = {}
  BY <1>1
<1>5. Placed(t)
  BY <1>1, <1>3, <1>4 DEF Placed
<1>6. Keyed(t) /\ Reached(t)
  BY <1>3 DEF Keyed, Reached
<1>7. Counted(t)
  <2>1. t.count = Cardinality(LiveSlots(t)) /\ t.tombstones = Cardinality(Tombs(t))
    BY <1>1, <1>3, FS_EmptySet
  <2>2. ~ t.capacity > 0
    BY <1>1
  <2> QED
    BY <2>1, <2>2 DEF Counted
<1>8. Sound(t)
  BY <1>2, <1>5, <1>6, <1>7 DEF Sound
<1>9. Masked(t) /\ t.capacity <= MaxCapacity
  BY <1>1, TableAssumption DEF Masked
<1>10. Listing(t) = <<>>
  <2>1. Listing(t) \in Seq(Key \X Value) /\ Len(Listing(t)) = 0
    BY <1>1, <1>8, ListingIs
  <2> QED
    BY <2>1, EmptySeq
<1> QED
  BY <1>8, <1>9, <1>10 DEF Init, IInv

\* Every operation is one of the map, or none.
LEMMA StepLeads ==
  ASSUME IInv, Next
  PROVE  Leads(table, table') /\ table'.capacity <= MaxCapacity
<1> PICK t, u : t = table /\ u = table'
  OBVIOUS
<1>1. Sound(t) /\ Masked(t) /\ t.capacity <= MaxCapacity
  BY DEF IInv
<1>2. ASSUME NEW k \in Key, Delete(k) PROVE Leads(t, u) /\ u.capacity <= MaxCapacity
  <2>1. Found(t, k) /\ u = Removed(t, {Stop(t, k)}) /\ u.capacity <= MaxCapacity
    BY <1>2 DEF Delete, Becomes
  <2> QED
    BY ONLY <1>1, <2>1, k \in Key, DeleteLeads
<1>3. ASSUME NEW k \in Key, NEW v \in Value, Set(k, v) PROVE Leads(t, u) /\ u.capacity <= MaxCapacity
  <2>1. u = SetTo(t, k, v) /\ u.capacity <= MaxCapacity
    BY <1>3 DEF Set, Becomes
  <2> QED
    BY ONLY <1>1, <2>1, k \in Key, v \in Value, SetLeads
<1>4. ASSUME Clear PROVE Leads(t, u) /\ u.capacity <= MaxCapacity
  <2>1. u = Cleared(t) /\ u.capacity <= MaxCapacity
    BY <1>4 DEF Clear, Becomes
  <2> QED
    BY ONLY <1>1, <2>1, ClearLeads
<1>5. ASSUME NEW n \in 1 .. Cardinality(Key), Reserve(n) PROVE Leads(t, u) /\ u.capacity <= MaxCapacity
  <2>1. CapacityFor(n) > t.capacity /\ u = Adjusted(t, CapacityFor(n)) /\ u.capacity <= MaxCapacity
    BY <1>5 DEF Reserve, Becomes
  <2>2. n \in Nat
    OBVIOUS
  <2> QED
    BY ONLY <1>1, <2>1, <2>2, ReserveLeads
<1>6. ASSUME NEW p \in Others, AddAll(p) PROVE Leads(t, u) /\ u.capacity <= MaxCapacity
  <2>1. u = Joined(t, p) /\ u.capacity <= MaxCapacity
    BY <1>6 DEF AddAll, Becomes
  <2> QED
    BY ONLY <1>1, <2>1, p \in Others, AddAllLeads
<1>7. ASSUME NEW S \in Whites, RemoveWhite(S) PROVE Leads(t, u) /\ u.capacity <= MaxCapacity
  <2>1. t.capacity > 0 /\ u = Whitened(t, S) /\ u.capacity <= MaxCapacity
    BY <1>7 DEF RemoveWhite, Becomes
  <2>2. S \in SUBSET Key
    BY TableAssumption
  <2> QED
    BY ONLY <1>1, <2>1, <2>2, RemoveWhiteLeads
<1> QED
  BY <1>2, <1>3, <1>4, <1>5, <1>6, <1>7 DEF Next

\* The invariant is inductive.
THEOREM Inductive_IInv == Spec => []IInv
<1>1. Init => IInv
  BY InitSound
<1>2. IInv /\ [Next]_table => IInv'
  <2> SUFFICES ASSUME IInv, [Next]_table PROVE IInv'
    OBVIOUS
  <2>1. CASE Next
    BY <2>1, StepLeads DEF Leads, IInv
  <2>2. CASE UNCHANGED table
    BY <2>2 DEF IInv
  <2> QED
    BY <2>1, <2>2
<1> QED
  BY <1>1, <1>2, PTL DEF Spec

\* A table is always well-formed, and its capacity a power of two that
\* masking a hash relies on.
THEOREM TypeCorrect == Spec => []TypeOK
<1>1. IInv => TypeOK
  <2> SUFFICES ASSUME IInv PROVE TypeOK
    OBVIOUS
  <2>1. table.capacity \in Nat /\ table \in TableOf(table.capacity) /\ table.capacity <= MaxCapacity
    BY DEF IInv, Sound, Sized
  <2> QED
    BY <2>1, TableAssumption DEF IInv, Masked, TypeOK
<1> QED
  BY <1>1, Inductive_IInv, PTL

\* The counters, the array, the order and probing always agree.
THEOREM AlwaysConsistent == Spec => []Consistent
<1>1. IInv => Consistent
  <2> SUFFICES ASSUME IInv PROVE Consistent
    OBVIOUS
  <2> PICK t : t = table
    OBVIOUS
  <2>1. Sound(t) /\ Sized(t) /\ Placed(t) /\ Counted(t)
    BY DEF IInv, Sound
  <2>2. t.count = Cardinality(LiveSlots(t)) /\ t.tombstones = Cardinality(Tombs(t))
        /\ (t.capacity > 0 => t.count + t.tombstones < t.capacity)
    BY <2>1 DEF Counted
  <2>3. t.count = Len(LiveOrder(t))
    BY <2>1, OrderIs
  <2>4. \A s \in Slots(t) : Live(t, s) => t.order[t.entries[s].order + 1] = s
    BY <2>1 DEF Placed, LiveSlots
  <2>5. Len(t.order) <= t.capacity
    BY <2>1 DEF Placed
  <2>6. ASSUME NEW k \in Key, t.capacity > 0 PROVE Found(t, k) = (k \in Abs!KeysOf(Listing(t)))
    <3>1. Found(t, k) <=> Holding(t, k) # {}
      BY <2>1, <2>6, FoundIs
    <3>2. k \in Abs!KeysOf(Listing(t)) <=> Holding(t, k) # {}
      BY <2>1, KeysAre
    <3>3. Found(t, k) \in BOOLEAN /\ (k \in Abs!KeysOf(Listing(t))) \in BOOLEAN
      BY DEF Found
    <3> QED
      BY <3>1, <3>2, <3>3
  <2>7. GetAgrees
    BY <2>6 DEF GetAgrees
  <2> QED
    BY <2>2, <2>3, <2>4, <2>5, <2>7 DEF Consistent, Tombs
<1> QED
  BY <1>1, Inductive_IInv, PTL

\* The table implements the map in insertion order.
THEOREM Refines == Spec => RefinesMap
<1>1. Init => Abs!Init
  BY InitSound DEF Abs!Init
<1>2. IInv /\ [Next]_table => [Abs!Next]_(Listing(table))
  <2> SUFFICES ASSUME IInv, [Next]_table PROVE Abs!Next \/ Listing(table)' = Listing(table)
    OBVIOUS
  <2>1. CASE UNCHANGED table
    BY <2>1 DEF Listing, LiveOrder, Pair
  <2>2. CASE Next
    <3>1. Leads(table, table')
      BY <2>2, StepLeads
    <3>2. Listing(table)' = Listing(table')
      BY DEF Listing, LiveOrder, Pair
    <3>3. CASE Listing(table') = Listing(table)
      BY <3>2, <3>3
    <3>4. CASE \E k \in Key, v \in Value : Listing(table') = Abs!With(Listing(table), k, v)
      BY <3>2, <3>4 DEF Abs!Next, Abs!Set
    <3>5. CASE \E S \in SUBSET Key : Listing(table') = Abs!Without(Listing(table), S)
      BY <3>2, <3>5 DEF Abs!Next, Abs!Delete
    <3>6. CASE \E p \in Others : Listing(table') = Abs!Merged(Listing(table), p)
      BY <3>2, <3>6 DEF Abs!Next, Abs!AddAll
    <3> QED
      BY <3>1, <3>3, <3>4, <3>5, <3>6 DEF Leads
  <2> QED
    BY <2>1, <2>2
<1> QED
  BY <1>1, <1>2, Inductive_IInv, PTL DEF Spec, RefinesMap, Abs!Spec

\* While keyVersion stands, compiled code may go on with the slots it has
\* baked.
THEOREM KeepsSlotsPinned == Spec => SlotsPinned
<1>1. IInv /\ [Next]_table =>
        [table'.keyVersion = table.keyVersion =>
           /\ table'.capacity = table.capacity
           /\ \A s \in Slots(table) : /\ Live(table, s)' = Live(table, s)
                                      /\ table'.entries[s].key = table.entries[s].key]_table
  <2> SUFFICES ASSUME IInv, Next, table'.keyVersion = table.keyVersion
               PROVE  /\ table'.capacity = table.capacity
                      /\ \A s \in Slots(table) : /\ Live(table, s)' = Live(table, s)
                                                 /\ table'.entries[s].key = table.entries[s].key
    OBVIOUS
  <2>1. Pinned(table, table')
    BY StepLeads DEF Leads
  <2>2. \A s : Live(table, s)' = Live(table', s)
    BY DEF Live
  <2> QED
    BY <2>1, <2>2 DEF Pinned
<1> QED
  BY <1>1, Inductive_IInv, PTL DEF Spec, SlotsPinned

-----------------------------------------------------------------------------
(* Traversal.                                                              *)

\* The places a traversal at position i has passed, and how many they are.
Behind(t, i) == {j \in Taken(t) : j <= i}
Passed(t, i) == Cardinality(Behind(t, i))
Onwards(t, i) == {j \in DOMAIN t.order : j > i /\ t.order[j] >= 0}

\* What is passed is a part of what is there.
LEMMA PassedIs ==
  ASSUME NEW t, Sound(t), NEW i \in Nat
  PROVE  /\ IsFiniteSet(Behind(t, i)) /\ Passed(t, i) \in 0 .. t.count
         /\ Cardinality(Taken(t)) = t.count
<1>1. Sized(t) /\ Placed(t) /\ t.count = Cardinality(LiveSlots(t))
  BY DEF Sound, Counted
<1>2. Cardinality(Taken(t)) = t.count
  BY <1>1, TakenLive
<1>3. IsFiniteSet(Taken(t)) /\ Behind(t, i) \subseteq Taken(t)
  BY <1>1, TakenIs DEF Behind
<1>4. IsFiniteSet(Behind(t, i)) /\ Cardinality(Behind(t, i)) <= Cardinality(Taken(t))
  BY <1>3, FS_Subset
<1>5. Cardinality(Behind(t, i)) \in Nat /\ Cardinality(Taken(t)) \in Nat
  BY <1>3, <1>4, FS_CardinalityType
<1> QED
  BY <1>2, <1>4, <1>5 DEF Passed

\* The next place that is no hole is the next pair of the listing.
LEMMA NextPlace ==
  ASSUME NEW t, Sound(t), NEW i \in Nat, Onwards(t, i) # {}, NEW m, m = Min(Onwards(t, i))
  PROVE  /\ m \in Nat /\ Passed(t, m) = Passed(t, i) + 1 /\ Passed(t, m) \in 1 .. t.count
         /\ Listing(t)[Passed(t, m)] = Pair(t, t.order[m])
<1>1. Sized(t) /\ Placed(t) /\ Counted(t)
  BY DEF Sound
<1> PICK A : A = Onwards(t, i)
  OBVIOUS
<1>2. Taken(t) \in SUBSET Nat /\ A = {j \in Taken(t) : j > i}
  BY <1>1, TakenIs DEF Taken, Onwards
<1>3. m \in A /\ \A j \in A : m <= j
  BY <1>2, MinIs
<1>4. m \in Taken(t) /\ m \in Nat /\ m > i
  BY <1>2, <1>3
<1>5. Behind(t, m) = Behind(t, i) \union {m} /\ m \notin Behind(t, i)
  <2> PICK T : T = Taken(t)
    OBVIOUS
  <2>1. ASSUME NEW j \in T PROVE j <= m <=> (j <= i \/ j = m)
    <3>1. j \in Nat /\ (j > i => m <= j)
      BY <1>2, <1>3
    <3> QED
      BY <1>4, <3>1
  <2>2. m \in T /\ ~ m <= i
    BY <1>4
  <2>3. {j \in T : j <= m} = {j \in T : j <= i} \union {m}
    BY ONLY <2>1, <2>2
  <2> QED
    BY <2>2, <2>3 DEF Behind
<1>6. Passed(t, m) = Passed(t, i) + 1
  BY <1>5, PassedIs, FS_AddElement DEF Passed
<1>7. Passed(t, m) \in 1 .. t.count
  <2>1. Passed(t, i) \in 0 .. t.count /\ Passed(t, m) \in 0 .. t.count /\ t.count \in Nat
    BY <1>1, <1>4, PassedIs, FieldTypes
  <2> QED
    BY <1>6, <2>1
<1>8. PlaceOf(t, Passed(t, m)) = m
  <2> PICK T : T = Taken(t)
    OBVIOUS
  <2>1. T \in SUBSET Nat /\ IsFiniteSet(T) /\ m \in T
    BY <1>1, <1>4, TakenIs
  <2>2. Nth(T, Cardinality({j \in T : j <= m})) = m
    BY ONLY <2>1, Counts
  <2> QED
    BY <2>2 DEF PlaceOf, Passed, Behind
<1>9. Listing(t)[Passed(t, m)] = Pair(t, t.order[PlaceOf(t, Passed(t, m))])
  BY <1>1, <1>7, OrderIs
<1> QED
  BY <1>4, <1>6, <1>7, <1>8, <1>9

\* With no place left, all of the listing is passed.
LEMMA AllPassed ==
  ASSUME NEW t, Sound(t), NEW i \in Nat, t.count = 0 \/ Onwards(t, i) = {}
  PROVE  First(Listing(t), Passed(t, i)) = Listing(t)
<1>1. Sized(t) /\ t.count \in Nat /\ Taken(t) \in SUBSET Nat
  BY FieldTypes, TakenIs DEF Sound
<1>2. Passed(t, i) = t.count
  <2>1. CASE t.count = 0
    BY <2>1, PassedIs
  <2>2. CASE Onwards(t, i) = {}
    <3>1. Behind(t, i) = Taken(t)
      <4>1. ASSUME NEW j \in Taken(t) PROVE j <= i
        <5>1. j \in Nat /\ ~ j > i
          BY <1>1, <2>2 DEF Taken, Onwards
        <5> QED
          BY <5>1
      <4> QED
        BY <4>1 DEF Behind
    <3> QED
      BY <3>1, PassedIs DEF Passed
  <2> QED
    BY <2>1, <2>2
<1>3. Listing(t) \in Seq(Key \X Value) /\ DOMAIN Listing(t) = 1 .. t.count
  BY ListingIs
<1> QED
  BY <1>2, <1>3 DEF First

\* One more pair.
LEMMA FirstMore ==
  ASSUME NEW S, NEW m \in Seq(S), NEW n \in Nat, n + 1 \in 1 .. Len(m)
  PROVE  Append(First(m, n), m[n + 1]) = First(m, n + 1)
<1>1. First(m, n) \in Seq(S) /\ Len(First(m, n)) = n
  BY DEF First
<1>2. First(m, n + 1) \in Seq(S) /\ Len(First(m, n + 1)) = n + 1
  BY DEF First
<1>3. Append(First(m, n), m[n + 1]) \in Seq(S) /\ Len(Append(First(m, n), m[n + 1])) = n + 1
  BY <1>1
<1>4. \A i \in 1 .. n + 1 : Append(First(m, n), m[n + 1])[i] = First(m, n + 1)[i]
  BY <1>1 DEF First
<1> QED
  BY ONLY <1>2, <1>3, <1>4, n \in Nat, SeqEqual

\* What a version has been counted up by, as long as it has not come round.
LEMMA Between ==
  ASSUME NEW v \in 0 .. VersionMod - 1, NEW w \in 0 .. VersionMod - 1,
         NEW d, d = (w - v) % VersionMod
  PROVE  d \in Nat /\ w = Later(v, d) /\ (d = 0 => w = v)
<1> PICK c : c = VersionMod
  OBVIOUS
<1>1. c \in Nat /\ c > 0 /\ v \in 0 .. c - 1 /\ w \in 0 .. c - 1
  BY TableAssumption
<1>2. d = IF w >= v THEN w - v ELSE w - v + c
  <2> PICK e, q : e = (IF w >= v THEN w - v ELSE w - v + c) /\ q = (IF w >= v THEN 0 ELSE -1)
    OBVIOUS
  <2>1. e \in 0 .. c - 1 /\ q \in Int /\ w - v = c * q + e
    BY <1>1
  <2>2. (w - v) % c = e
    <3>1. PICK x : x = w - v
      OBVIOUS
    <3>2. x \in Int
      BY <1>1, <3>1
    <3> QED
      BY <1>1, <2>1, <3>1, <3>2, ModUnique
  <2> QED
    BY <2>2
<1>3. d \in Nat /\ (v + d = w \/ v + d = w + c) /\ (d = 0 => w = v)
  BY <1>1, <1>2
<1>4. Later(v, d) = w
  <2>1. CASE v + d = w
    BY <1>1, <2>1, ModSmall DEF Later
  <2>2. CASE v + d = w + c
    <3>1. PICK x, r : x = v + d /\ r = 1
      OBVIOUS
    <3>2. x \in Nat /\ x = c * r + w /\ r \in Int
      BY <1>1, <1>3, <2>2, <3>1
    <3>3. x % c = w
      BY <1>1, <3>2, ModUnique
    <3> QED
      BY <3>1, <3>3 DEF Later
  <2> QED
    BY <1>3, <2>1, <2>2
<1> QED
  BY <1>3, <1>4

\* A version that is where it was, and has not come round, was not counted up.
LEMMA NotRound ==
  ASSUME NEW v \in 0 .. VersionMod - 1, NEW n \in Nat, n < VersionMod, Later(v, n) = v
  PROVE  n = 0
<1>1. VersionMod \in Nat /\ VersionMod > 0 /\ n \in 0 .. VersionMod - 1 /\ v \in Nat
  BY TableAssumption
<1>2. 0 \in 0 .. VersionMod - 1
  BY <1>1
<1>3. (v + 0) % VersionMod = v
  BY LaterNone DEF Later
<1>4. (v + n) % VersionMod = (v + 0) % VersionMod
  BY <1>3 DEF Later
<1> QED
  BY <1>1, <1>2, <1>4, ReachOnce

IterFields == {"on", "index", "limit", "version", "came", "over", "writes"}

\* A traversal it of t: until the table is written to, what came is the
\* beginning of the listing, as far as the position.
Going(t, it) ==
  it.on =>
    /\ it.index \in Nat /\ it.writes \in Nat /\ it.version \in 0 .. VersionMod - 1
    /\ t.version = Later(it.version, it.writes)
    /\ it.writes = 0 => /\ it.over = Listing(t)
                        /\ it.came = First(Listing(t), Passed(t, it.index))

IterInv == IInv /\ DOMAIN iter = IterFields /\ iter.on \in BOOLEAN /\ Going(table, iter)

\* A traversal starts at the beginning.
LEMMA NewGoes ==
  ASSUME NEW t, Sound(t), NEW it, it.on, it.index = 0, it.writes = 0, it.version = t.version,
         it.came = <<>>, it.over = Listing(t)
  PROVE  Going(t, it)
<1>1. t.version \in 0 .. VersionMod - 1 /\ Later(t.version, 0) = t.version
  BY FieldTypes, LaterNone DEF Sound
<1>2. Behind(t, 0) = {}
  <2>1. Taken(t) \in SUBSET (1 .. Len(t.order)) /\ Len(t.order) \in Nat
    BY TakenIs, FieldTypes DEF Sound
  <2> QED
    BY <2>1 DEF Behind
<1>3. Passed(t, 0) = 0
  BY <1>2, FS_EmptySet DEF Passed
<1>4. First(Listing(t), 0) = <<>>
  BY DEF First
<1> QED
  BY <1>1, <1>3, <1>4 DEF Going

\* It produces one pair more.
LEMMA StepGoes ==
  ASSUME NEW t, Sound(t), NEW it, it.on, Going(t, it), Onwards(t, it.index) # {},
         NEW m, m = Min(Onwards(t, it.index)),
         NEW ju, ju.on, ju.index = m, ju.writes = it.writes, ju.version = it.version,
         ju.over = it.over, ju.came = Append(it.came, Pair(t, t.order[m]))
  PROVE  Going(t, ju)
<1>1. it.index \in Nat
  BY DEF Going
<1> PICK i, n : i = it.index /\ n = Passed(t, i)
  OBVIOUS
<1>2. /\ m \in Nat /\ Passed(t, m) = n + 1 /\ Passed(t, m) \in 1 .. t.count
      /\ Listing(t)[Passed(t, m)] = Pair(t, t.order[m])
  BY <1>1, NextPlace
<1>3. n \in Nat /\ Listing(t) \in Seq(Key \X Value) /\ Len(Listing(t)) = t.count
  <2>1. n \in 0 .. t.count
    BY <1>1, PassedIs
  <2> QED
    BY <2>1, ListingIs
<1>4. Append(First(Listing(t), n), Listing(t)[n + 1]) = First(Listing(t), n + 1)
  <2>1. n + 1 \in 1 .. Len(Listing(t))
    BY <1>2, <1>3
  <2> QED
    BY <1>3, <2>1, FirstMore
<1>5. ASSUME it.writes = 0
      PROVE  ju.over = Listing(t) /\ ju.came = First(Listing(t), Passed(t, m))
  BY <1>2, <1>4, <1>5 DEF Going
<1> QED
  BY <1>2, <1>5 DEF Going

\* The table is written to, or not at all.
LEMMA WriteGoes ==
  ASSUME NEW t, Sound(t), NEW u, Leads(t, u), NEW it, it.on, Going(t, it),
         NEW d, d = (u.version - t.version) % VersionMod,
         NEW ju, ju.on, ju.writes = it.writes + d, ju.index = it.index, ju.version = it.version,
         ju.over = it.over, ju.came = it.came
  PROVE  Going(u, ju)
<1>1. t.version \in 0 .. VersionMod - 1 /\ u.version \in 0 .. VersionMod - 1
  BY FieldTypes DEF Sound, Leads
<1>2. d \in Nat /\ u.version = Later(t.version, d) /\ (d = 0 => u.version = t.version)
  BY <1>1, Between
<1>3. /\ it.index \in Nat /\ it.writes \in Nat /\ it.version \in 0 .. VersionMod - 1
      /\ t.version = Later(it.version, it.writes)
  BY DEF Going
<1>4. ju.writes \in Nat /\ u.version = Later(ju.version, ju.writes)
  <2> PICK w : w = it.writes
    OBVIOUS
  <2>1. Later(Later(it.version, w), d) = Later(it.version, w + d)
    BY <1>2, <1>3, LaterLater
  <2> QED
    BY <1>2, <1>3, <2>1
<1>5. ASSUME ju.writes = 0
      PROVE  ju.over = Listing(u) /\ ju.came = First(Listing(u), Passed(u, ju.index))
  <2>1. it.writes = 0 /\ d = 0
    BY <1>2, <1>3, <1>5
  <2>2. Alike(t, u)
    BY <1>2, <2>1 DEF Leads
  <2>3. Passed(u, ju.index) = Passed(t, it.index)
    BY <2>2 DEF Alike, Passed, Behind, Taken
  <2> QED
    BY <2>1, <2>2, <2>3 DEF Going, Alike
<1> QED
  BY <1>3, <1>4, <1>5 DEF Going

\* Every step of the table and its traversal keeps the invariant.
LEMMA IterKeeps == IterInv /\ [IterNext]_vars => IterInv'
<1> SUFFICES ASSUME IterInv, [IterNext]_vars PROVE IterInv'
  OBVIOUS
<1> PICK t, u, it, ju : t = table /\ u = table' /\ it = iter /\ ju = iter'
  OBVIOUS
<1>1. IInv /\ Sound(t) /\ DOMAIN it = IterFields /\ it.on \in BOOLEAN /\ Going(t, it)
  BY DEF IterInv, IInv
<1> SUFFICES IInv' /\ DOMAIN ju = IterFields /\ ju.on \in BOOLEAN /\ Going(u, ju)
  BY DEF IterInv
<1>2. ASSUME u = t PROVE IInv'
  BY <1>1, <1>2 DEF IInv
<1>3. CASE Write
  <2>1. Leads(t, u) /\ u.capacity <= MaxCapacity
    BY <1>1, <1>3, StepLeads DEF Write
  <2>2. IInv'
    BY <2>1 DEF Leads, IInv
  <2> PICK d : d = (u.version - t.version) % VersionMod
    OBVIOUS
  <2>3. ju = IF it.on THEN [it EXCEPT !.writes = @ + d] ELSE it
    BY <1>3 DEF Write, Advance
  <2>4. CASE it.on
    <3>1. ju = [it EXCEPT !.writes = it.writes + d]
      BY <2>3, <2>4
    <3>2. /\ DOMAIN ju = IterFields /\ ju.on = it.on
          /\ ju.writes = it.writes + d /\ ju.index = it.index /\ ju.version = it.version
          /\ ju.over = it.over /\ ju.came = it.came
      BY <1>1, <3>1 DEF IterFields
    <3>3. Going(u, ju)
      BY <1>1, <2>1, <2>4, <3>2, WriteGoes
    <3> QED
      BY <1>1, <2>2, <3>2, <3>3
  <2>5. CASE ~ it.on
    <3>1. ju = it
      BY <2>3, <2>5
    <3> QED
      BY <1>1, <2>2, <2>5, <3>1 DEF Going
  <2> QED
    BY <1>1, <2>4, <2>5
<1>4. CASE IterNew
  <2>1. /\ ju = [on |-> TRUE, index |-> 0, limit |-> t.count, version |-> t.version,
                 came |-> <<>>, over |-> Listing(t), writes |-> 0]
        /\ u = t
    BY <1>4 DEF IterNew
  <2>2. /\ DOMAIN ju = IterFields /\ ju.on = TRUE /\ ju.index = 0 /\ ju.writes = 0
        /\ ju.version = t.version /\ ju.came = <<>> /\ ju.over = Listing(t)
    BY <2>1 DEF IterFields
  <2>3. Going(t, ju)
    BY <1>1, <2>2, NewGoes
  <2> QED
    BY <1>2, <2>1, <2>2, <2>3
<1>5. CASE IterStep
  <2>1. it.on /\ Onwards(t, it.index) # {} /\ u = t
    BY <1>5 DEF IterStep, Ahead, Onwards
  <2> PICK m : m = Min(Onwards(t, it.index))
    OBVIOUS
  <2>2. ju = [[it EXCEPT !.index = m] EXCEPT !.came = Append(it.came, Pair(t, t.order[m]))]
    <3>1. Ahead = Onwards(t, it.index)
      BY DEF Ahead, Onwards
    <3>2. ju = [it EXCEPT !.index = m, !.came = Append(@, Pair(t, t.order[m]))]
      BY <1>5, <3>1 DEF IterStep
    <3> QED
      BY <1>1, <3>2 DEF IterFields
  <2>3. /\ DOMAIN ju = IterFields /\ ju.on = it.on /\ ju.index = m /\ ju.writes = it.writes
        /\ ju.version = it.version /\ ju.over = it.over
        /\ ju.came = Append(it.came, Pair(t, t.order[m]))
    BY <1>1, <2>2 DEF IterFields
  <2>4. Going(t, ju)
    BY <1>1, <2>1, <2>3, StepGoes
  <2> QED
    BY <1>1, <1>2, <2>1, <2>3, <2>4
<1>6. CASE IterEnd \/ IterMutated \/ IterDropped
  <2>1. ju = NoIter /\ u = t
    BY <1>6 DEF IterEnd, IterMutated, IterDropped
  <2>2. DOMAIN ju = IterFields /\ ju.on = FALSE
    BY <2>1 DEF NoIter, IterFields
  <2> QED
    BY <1>2, <2>1, <2>2 DEF Going
<1>7. CASE UNCHANGED vars
  BY <1>1, <1>2, <1>7 DEF vars
<1> QED
  BY <1>3, <1>4, <1>5, <1>6, <1>7 DEF IterNext

\* The table under a traversal is the table: what is shown of Spec holds of it.
THEOREM UnderTraversal == IterSpec => Spec
<1>1. IterInit => Init
  BY DEF IterInit
<1>2. [IterNext]_vars => [Next]_table
  BY DEF IterNext, Write, IterNew, IterStep, IterEnd, IterMutated, IterDropped, vars
<1> QED
  BY <1>1, <1>2, PTL DEF IterSpec, Spec

\* With a loop body writing to it between the steps of jaiIterNext, every field
\* of the table keeps its type.
THEOREM TraversedTyped == IterSpec => []TypeOK
BY UnderTraversal, TypeCorrect, PTL

\* Counters, array and order list agree under a traversal too.
THEOREM TraversedConsistent == IterSpec => []Consistent
BY UnderTraversal, AlwaysConsistent, PTL

\* Traversed or not, the table is a map in insertion order.
THEOREM TraversedRefines == IterSpec => RefinesMap
BY UnderTraversal, Refines, PTL

\* keyVersion pins the slots compiled code has baked under a traversal too.
THEOREM TraversedPinned == IterSpec => SlotsPinned
BY UnderTraversal, KeepsSlotsPinned, PTL

\* The invariant of a traversal is inductive.
THEOREM Inductive_IterInv == IterSpec => []IterInv
<1>1. IterInit => IterInv
  <2> SUFFICES ASSUME IterInit PROVE IterInv
    OBVIOUS
  <2>1. IInv
    BY InitSound DEF IterInit
  <2>2. DOMAIN iter = IterFields /\ iter.on = FALSE
    BY DEF IterInit, NoIter, IterFields
  <2> QED
    BY <2>1, <2>2 DEF IterInv, Going
<1> QED
  BY <1>1, IterKeeps, PTL DEF IterSpec

\* A traversal of a dict or a set produces exactly what was there when it began,
\* or raises, whatever its body writes to the table.
THEOREM TraversalsExact == IterSpec => TraversalExact
<1>1. IterInv /\ IterEnd /\ iter.writes < VersionMod => iter.came = iter.over
  <2> SUFFICES ASSUME IterInv, IterEnd, iter.writes < VersionMod PROVE iter.came = iter.over
    OBVIOUS
  <2> PICK t, it : t = table /\ it = iter
    OBVIOUS
  <2>1. Sound(t) /\ Going(t, it) /\ it.on /\ t.version = it.version
    BY DEF IterInv, IInv, IterEnd, Changed
  <2>2. t.count = 0 \/ Onwards(t, it.index) = {}
    BY DEF IterEnd, Ahead, Onwards
  <2>3. it.writes = 0 /\ it.index \in Nat
    <3>1. /\ it.version \in 0 .. VersionMod - 1 /\ it.writes \in Nat /\ it.index \in Nat
          /\ Later(it.version, it.writes) = it.version
      BY <2>1 DEF Going
    <3> QED
      BY <3>1, NotRound
  <2>4. it.over = Listing(t) /\ it.came = First(Listing(t), Passed(t, it.index))
    BY <2>1, <2>3 DEF Going
  <2>5. First(Listing(t), Passed(t, it.index)) = Listing(t)
    BY <2>1, <2>2, <2>3, AllPassed
  <2> QED
    BY <2>4, <2>5
<1>2. IterInv /\ [IterNext]_vars => [IterEnd /\ iter.writes < VersionMod => iter.came = iter.over]_vars
  BY <1>1
<1> QED
  BY <1>2, Inductive_IterInv, PTL DEF IterSpec, TraversalExact
=============================================================================
