--------------------------- MODULE Threads_proofs ---------------------------
(***************************************************************************)
(* Proofs about Threads for any tasks, mutexes and atomic cells.            *)
(*                                                                          *)
(* That no worker loses its task follows from three facts: a raised flag    *)
(* means that the worker is past its last access (Phased), the task of a    *)
(* join is the one its handle still names (Calls), and what is allocated    *)
(* has one owner (OneOwner), so that what one path frees no other reaches.  *)
(***************************************************************************)
EXTENDS Threads, SequenceTheorems, TLAPS

\* The flag, the memory and the result of a task follow its worker.
Phased ==
  \A t \in Task : /\ finished[t] <=> worker[t] \in {"flagged", "exited"}
                  /\ mem[t] = "unborn" <=> worker[t] = "none"
                  /\ result[t] = answer[t]

\* What the VM thread remembers in the middle of a spawn or a join.
Calls ==
  /\ pc = "spawned" => current \in Task
  /\ pc = "joining" => /\ current \in Task
                       /\ currentId \in DOMAIN handles
                       /\ handles[currentId].ptr = current

\* The part of the list the reaping is done with.
Scanned ==
  /\ due \subseteq {t \in Task : finished[t]}
  /\ pc = "reaping" => \A i \in 1 .. (Len(detached) - scan) : detached[i] \notin due

ThInv == TypeOK /\ OneOwner /\ WorkerSafe /\ JoinDelivers /\ Phased /\ Calls /\ Scanned

-----------------------------------------------------------------------------
(* The handle table.                                                       *)

LEMMA SlotFacts ==
  ASSUME TypeOK, NEW i \in DOMAIN handles
  PROVE  /\ handles[i] \in Slot
         /\ handles[i].ptr \in Thing \union {Null}
         /\ handles[i].kind = "free" <=> handles[i].ptr = Null
         /\ handles[i].kind = "thread" <=> handles[i].ptr \in Task
<1>1. handles[i] \in Slot
  BY DEF TypeOK
<1> QED
  BY <1>1, ThreadsAssumption DEF Slot, FreeSlot, KindOf, Thing

LEMMA ReleaseFacts ==
  ASSUME TypeOK, SlotsDistinct, NEW id \in DOMAIN handles, handles[id].ptr # Null, Release(id)
  PROVE  /\ handles' \in Seq(Slot)
         /\ Len(handles') = Len(handles)
         /\ InSlots' = InSlots \ {handles[id].ptr}
         /\ SlotsDistinct'
<1>1. handles \in Seq(Slot) /\ FreeSlot \in Slot
  BY DEF TypeOK, Slot
<1>2. /\ handles' \in Seq(Slot) /\ Len(handles') = Len(handles)
      /\ DOMAIN handles' = DOMAIN handles
      /\ \A i \in DOMAIN handles : handles'[i] = IF i = id THEN FreeSlot ELSE handles[i]
  BY <1>1 DEF Release
<1>3. FreeSlot.ptr = Null
  BY DEF FreeSlot
<1> QED
  BY <1>2, <1>3 DEF InSlots, SlotsDistinct

LEMMA AddFacts ==
  ASSUME TypeOK, SlotsDistinct, NEW x \in Thing, x \notin InSlots, AddHandle(x)
  PROVE  /\ handles' \in Seq(Slot)
         /\ Len(handles') >= Len(handles)
         /\ InSlots' = InSlots \union {x}
         /\ SlotsDistinct'
<1> DEFINE slot == [kind |-> KindOf(x), ptr |-> x]
<1>1. handles \in Seq(Slot) /\ slot \in Slot /\ slot.ptr = x /\ x # Null
  BY ThreadsAssumption DEF TypeOK, Slot, Thing
<1> HIDE DEF slot
<1>2. CASE FreeSlots = {}
  <2>1. handles' = Append(handles, slot)
    BY <1>2 DEF AddHandle, slot
  <2>2. /\ handles' \in Seq(Slot) /\ Len(handles') = Len(handles) + 1
        /\ DOMAIN handles' = 1 .. (Len(handles) + 1)
        /\ \A i \in DOMAIN handles : handles'[i] = handles[i]
        /\ handles'[Len(handles) + 1] = slot
        /\ DOMAIN handles = 1 .. Len(handles) /\ Len(handles) \in Nat
    BY <1>1, <2>1
  <2> QED
    BY <1>1, <2>2 DEF InSlots, SlotsDistinct
<1>3. CASE FreeSlots # {}
  <2>1. PICK i \in FreeSlots : handles' = [handles EXCEPT ![i] = slot]
    BY <1>3 DEF AddHandle, slot
  <2>2. i \in DOMAIN handles /\ handles[i].ptr = Null
    BY <2>1, SlotFacts DEF FreeSlots
  <2>3. /\ handles' \in Seq(Slot) /\ Len(handles') = Len(handles)
        /\ DOMAIN handles' = DOMAIN handles
        /\ \A j \in DOMAIN handles : handles'[j] = IF j = i THEN slot ELSE handles[j]
    BY <1>1, <2>1, <2>2
  <2>4. Len(handles) \in Nat
    BY <1>1
  <2> QED
    BY <1>1, <2>2, <2>3, <2>4 DEF InSlots, SlotsDistinct
<1> QED
  BY <1>2, <1>3

-----------------------------------------------------------------------------
(* The list of detached tasks.                                             *)

LEMMA RemoveFacts ==
  ASSUME NEW S, NEW s \in Seq(S), NEW k \in 1 .. Len(s)
  PROVE  /\ Without(s, k) \in Seq(S)
         /\ Len(Without(s, k)) = Len(s) - 1
         /\ \A i \in 1 .. (Len(s) - 1) : Without(s, k)[i] = IF i < k THEN s[i] ELSE s[i + 1]
<1> DEFINE a == SubSeq(s, 1, k - 1)
           b == SubSeq(s, k + 1, Len(s))
           r == Without(s, k)
<1>1. Len(s) \in Nat /\ k \in Nat /\ 1 <= k /\ k <= Len(s)
  OBVIOUS
<1>2. a \in Seq(S) /\ Len(a) = k - 1 /\ \A i \in 1 .. (k - 1) : a[i] = s[i]
  BY <1>1
<1>3. b \in Seq(S) /\ Len(b) = Len(s) - k /\ \A i \in 1 .. (Len(s) - k) : b[i] = s[i + k]
  BY <1>1
<1>4. /\ r \in Seq(S) /\ Len(r) = Len(a) + Len(b)
      /\ \A i \in 1 .. Len(a) + Len(b) : r[i] = IF i <= Len(a) THEN a[i] ELSE b[i - Len(a)]
  <2>1. a \in Seq(S) /\ b \in Seq(S)
    BY <1>2, <1>3
  <2>2. r \in Seq(S)
    BY <2>1, ConcatProperties, Zenon DEF Without
  <2>3. Len(r) = Len(a) + Len(b)
    BY <2>1, ConcatProperties, Zenon DEF Without
  <2>4. \A i \in 1 .. Len(a) + Len(b) : r[i] = IF i <= Len(a) THEN a[i] ELSE b[i - Len(a)]
    BY <2>1, ConcatProperties, Zenon DEF Without
  <2> QED
    BY <2>2, <2>3, <2>4
<1> HIDE DEF a, b, r
<1>5. Len(a) = k - 1 /\ Len(b) = Len(s) - k /\ Len(a) + Len(b) = Len(s) - 1
  BY <1>1, <1>2, <1>3
<1>6. ASSUME NEW i \in 1 .. (Len(s) - 1)
      PROVE  r[i] = IF i < k THEN s[i] ELSE s[i + 1]
  <2>1. CASE i < k
    <3>1. i \in 1 .. (k - 1) /\ i \in 1 .. Len(a) + Len(b) /\ i <= Len(a)
      BY <1>1, <1>5, <2>1
    <3> QED
      BY <1>2, <1>4, <2>1, <3>1
  <2>2. CASE ~(i < k)
    <3>1. i - (k - 1) \in 1 .. (Len(s) - k) /\ i \in 1 .. Len(a) + Len(b) /\ ~(i <= Len(a))
      BY <1>1, <1>5, <2>2
    <3>2. r[i] = b[i - (k - 1)]
      BY <1>4, <1>5, <3>1
    <3>3. (i - (k - 1)) + k = i + 1
      BY <1>1
    <3> QED
      BY <1>3, <2>2, <3>1, <3>2, <3>3
  <2> QED
    BY <2>1, <2>2
<1>7. r \in Seq(S) /\ Len(r) = Len(s) - 1
  BY <1>4, <1>5
<1> QED
  BY <1>6, <1>7, Zenon DEF r

\* The reaping step takes one finished task off the list.
LEMMA ReapFacts ==
  ASSUME ThInv, ReapStep, Reapable(detached[Len(detached) - scan + 1])
  PROVE  LET t == detached[Len(detached) - scan + 1] IN
         /\ t \in Task /\ t \in InDetached /\ finished[t]
         /\ mem' = [mem EXCEPT ![t] = "freed"]
         /\ scan' = scan - 1
         /\ detached' \in Seq(Task)
         /\ Len(detached') = Len(detached) - 1
         /\ InDetached' = InDetached \ {t}
         /\ DetachedDistinct'
         /\ \A i \in 1 .. (Len(detached) - scan) : detached'[i] = detached[i]
<1> DEFINE k == Len(detached) - scan + 1
           t == detached[k]
<1>1. /\ detached \in Seq(Task) /\ Len(detached) \in Nat /\ scan \in Nat
      /\ scan > 0 /\ scan <= Len(detached)
      /\ k \in 1 .. Len(detached)
      /\ DetachedDistinct
  BY DEF ThInv, TypeOK, ReapStep, OneOwner
<1>2. /\ scan' = scan - 1 /\ mem' = [mem EXCEPT ![t] = "freed"]
      /\ finished[t]
      /\ detached' = Without(detached, k)
  BY DEF ReapStep, ScanOn, Reapable
<1>3. t \in Task /\ t \in InDetached
  BY <1>1 DEF InDetached
<1>4. /\ detached' \in Seq(Task) /\ Len(detached') = Len(detached) - 1
      /\ \A i \in 1 .. (Len(detached) - 1) :
           detached'[i] = IF i < k THEN detached[i] ELSE detached[i + 1]
  BY <1>1, <1>2, RemoveFacts, Zenon
<1> HIDE DEF k
<1>5. /\ DOMAIN detached' = 1 .. (Len(detached) - 1)
      /\ DOMAIN detached = 1 .. Len(detached)
  BY <1>1, <1>4
<1>6. InDetached' = InDetached \ {t}
  <2>1. ASSUME NEW i \in DOMAIN detached'
        PROVE  detached'[i] \in InDetached /\ detached'[i] # t
    <3>1. /\ i \in 1 .. (Len(detached) - 1)
          /\ i \in DOMAIN detached /\ i + 1 \in DOMAIN detached
          /\ i < k \/ i + 1 # k
      BY <1>1, <1>5, <2>1
    <3>2. i < k => i # k
      BY <1>1, <1>5, <2>1
    <3> QED
      BY <1>1, <1>4, <1>5, <3>1, <3>2 DEF InDetached, DetachedDistinct
  <2>2. ASSUME NEW i \in DOMAIN detached, i # k
        PROVE  detached[i] \in InDetached'
    <3>1. CASE i < k
      <4>1. i \in 1 .. (Len(detached) - 1)
        BY <1>1, <1>5, <3>1
      <4> QED
        BY <1>4, <1>5, <3>1, <4>1 DEF InDetached
    <3>2. CASE ~(i < k)
      <4>1. /\ i - 1 \in 1 .. (Len(detached) - 1) /\ ~(i - 1 < k) /\ (i - 1) + 1 = i
        BY <1>1, <1>5, <2>2, <3>2
      <4>2. detached'[i - 1] = detached[i]
        BY <1>4, <4>1
      <4> QED
        BY <1>5, <4>1, <4>2 DEF InDetached
    <3> QED
      BY <3>1, <3>2
  <2> QED
    BY <2>1, <2>2 DEF InDetached
<1>7. DetachedDistinct'
  <2>1. SUFFICES ASSUME NEW i \in DOMAIN detached', NEW j \in DOMAIN detached', i < j
                 PROVE  detached'[i] # detached'[j]
    BY <1>5 DEF DetachedDistinct
  <2> DEFINE at(x) == IF x < k THEN x ELSE x + 1
  <2>2. /\ at(i) \in DOMAIN detached /\ at(j) \in DOMAIN detached /\ at(i) # at(j)
    BY <1>1, <1>5, <2>1
  <2>3. detached'[i] = detached[at(i)] /\ detached'[j] = detached[at(j)]
    BY <1>4, <1>5, <2>1
  <2> QED
    BY <1>1, <2>2, <2>3 DEF DetachedDistinct
<1>8. \A i \in 1 .. (Len(detached) - scan) : detached'[i] = detached[i]
  <2>1. ASSUME NEW i \in 1 .. (Len(detached) - scan)
        PROVE  i \in 1 .. (Len(detached) - 1) /\ i < k
    BY <1>1 DEF k
  <2> QED
    BY <1>4, <2>1
<1> QED
  BY <1>2, <1>3, <1>4, <1>6, <1>7, <1>8 DEF k

-----------------------------------------------------------------------------
(* The invariant.                                                          *)

LEMMA ThInit == Init => ThInv
<1> SUFFICES ASSUME Init PROVE ThInv
  OBVIOUS
<1>1. handles = <<>> /\ detached = <<>> /\ Len(handles) = 0 /\ Len(detached) = 0
      /\ DOMAIN handles = {} /\ DOMAIN detached = {}
  BY DEF Init
<1>2. TypeOK
  BY <1>1 DEF Init, TypeOK, Answers, Zero, Phases
<1>3. OneOwner
  BY <1>1 DEF Init, OneOwner, InSlots, InDetached, InSpawn, SlotsDistinct, DetachedDistinct
<1>4. WorkerSafe /\ JoinDelivers /\ Phased /\ Calls /\ Scanned
  BY <1>1, <1>3 DEF Init, WorkerSafe, JoinDelivers, Phased, Calls, Scanned, Thing
<1> QED
  BY <1>2, <1>3, <1>4 DEF ThInv

\* StartReap keeps the types and begins with nothing scanned.
LEMMA StartFacts ==
  ASSUME TypeOK, NEW list \in Seq(Task), NEW next \in {"idle", "creating"}, StartReap(list, next)
  PROVE  /\ detached' = list /\ pc' = "reaping" /\ then' = next
         /\ scan' \in 0 .. Len(detached')
         /\ due' \subseteq {t \in Task : finished[t]}
         /\ 1 .. (Len(detached') - scan') = {}
<1>1. Len(list) \in Nat
  OBVIOUS
<1> QED
  BY <1>1 DEF StartReap

LEMMA StepTask ==
  ASSUME ThInv, NEW t \in Task, Worker(t)
  PROVE  ThInv'
<1> USE DEF ThInv
<1>1. UNCHANGED <<handles, detached, mem, pc, current, currentId, scan, then, due, joined>>
  BY DEF Worker, Work, Flag, Exit, Elsewhere, call, reap
<1>2. /\ worker' \in [Task -> Phases] /\ result' \in [Task -> Answers]
      /\ answer' \in [Task -> Answers] /\ finished' \in [Task -> BOOLEAN]
  BY DEF Worker, Work, Flag, Exit, Flagged, TypeOK, Phases
<1>3. TypeOK'
  BY <1>1, <1>2 DEF TypeOK
<1>4. OneOwner'
  BY <1>1 DEF OneOwner, InSlots, InDetached, InSpawn, SlotsDistinct, DetachedDistinct
<1>5. Phased' /\ WorkerSafe'
  BY <1>1 DEF Worker, Work, Flag, Exit, Flagged, TypeOK, Phases, Phased, WorkerSafe
<1>6. JoinDelivers'
  BY <1>1 DEF Worker, Work, Flag, Exit, JoinDelivers, TypeOK
<1>7. Calls'
  BY <1>1 DEF Calls
<1>8. Scanned'
  BY <1>1 DEF Scanned, Worker, Work, Flag, Exit, Flagged, TypeOK
<1> QED
  BY <1>3, <1>4, <1>5, <1>6, <1>7, <1>8

LEMMA StepReap ==
  ASSUME ThInv, ReapStep
  PROVE  ThInv'
<1> USE DEF ThInv
<1> DEFINE t == detached[Len(detached) - scan + 1]
<1>1. UNCHANGED <<handles, pc, current, currentId, then, due, worker, result, finished, answer, joined>>
  BY DEF ReapStep, call, os
<1>2. /\ detached \in Seq(Task) /\ Len(detached) \in Nat /\ scan \in Nat /\ scan > 0
      /\ scan <= Len(detached) /\ pc = "reaping" /\ scan' = scan - 1
      /\ Len(detached) - scan + 1 \in 1 .. Len(detached)
  BY DEF TypeOK, ReapStep, ScanOn
<1>3. CASE Reapable(t)
  <2>1. /\ t \in Task /\ t \in InDetached /\ finished[t]
        /\ mem' = [mem EXCEPT ![t] = "freed"]
        /\ detached' \in Seq(Task) /\ Len(detached') = Len(detached) - 1
        /\ InDetached' = InDetached \ {t} /\ DetachedDistinct'
        /\ \A i \in 1 .. (Len(detached) - scan) : detached'[i] = detached[i]
    BY <1>3, ReapFacts
  <2> HIDE DEF t
  <2>2. TypeOK'
    BY <1>1, <1>2, <2>1 DEF TypeOK, Thing
  <2>3. OneOwner'
    <3>1. mem \in [Thing -> {"unborn", "live", "freed"}] /\ t \in Thing
      BY <2>1 DEF TypeOK, Thing
    <3>2. {x \in Thing : mem'[x] = "live"} = {x \in Thing : mem[x] = "live"} \ {t}
      BY <2>1, <3>1
    <3>3. InSlots' = InSlots /\ InSpawn' = InSpawn /\ SlotsDistinct'
      BY <1>1 DEF InSlots, InSpawn, SlotsDistinct, OneOwner
    <3>4. t \notin InSlots /\ t \notin InSpawn
      BY <2>1 DEF OneOwner
    <3> QED
      BY <2>1, <3>2, <3>3, <3>4 DEF OneOwner
  <2>4. worker[t] \in {"flagged", "exited"}
    BY <2>1 DEF Phased
  <2>5. Phased' /\ WorkerSafe' /\ JoinDelivers'
    BY <1>1, <2>1, <2>4 DEF Phased, WorkerSafe, JoinDelivers, TypeOK, Thing
  <2>6. Calls'
    BY <1>1 DEF Calls
  <2>7. Len(detached') - scan' = Len(detached) - scan
    BY <1>2, <2>1
  <2>8. Scanned'
    BY <1>1, <1>2, <2>1, <2>7 DEF Scanned
  <2> QED
    BY <2>2, <2>3, <2>5, <2>6, <2>8
<1>4. CASE ~Reapable(t)
  <2>1. UNCHANGED <<detached, mem>>
    BY <1>4 DEF ReapStep
  <2>2. TypeOK'
    BY <1>1, <1>2, <2>1 DEF TypeOK
  <2>3. OneOwner'
    BY <1>1, <2>1 DEF OneOwner, InSlots, InDetached, InSpawn, SlotsDistinct, DetachedDistinct
  <2>4. Phased' /\ WorkerSafe' /\ JoinDelivers' /\ Calls'
    BY <1>1, <2>1 DEF Phased, WorkerSafe, JoinDelivers, Calls
  <2>5. t \notin due
    BY <1>4 DEF Reapable, Scanned
  <2>6. ASSUME NEW i \in 1 .. (Len(detached) - scan')
        PROVE  detached[i] \notin due
    <3>1. i \in 1 .. (Len(detached) - scan) \/ i = Len(detached) - scan + 1
      BY <1>2
    <3> QED
      BY <1>2, <2>5, <3>1 DEF Scanned
  <2>7. Scanned'
    BY <1>1, <2>1, <2>6 DEF Scanned
  <2> QED
    BY <2>2, <2>3, <2>4, <2>7
<1> QED
  BY <1>3, <1>4

LEMMA SameOwners ==
  ASSUME ThInv, pc # "spawned", pc' # "spawned",
         UNCHANGED <<handles, detached, mem, worker, result, finished, answer, joined>>
  PROVE  OneOwner' /\ Phased' /\ WorkerSafe' /\ JoinDelivers'
<1>1. InSlots' = InSlots /\ InDetached' = InDetached /\ InSpawn' = {} /\ InSpawn = {}
  BY DEF InSlots, InDetached, InSpawn
<1>2. SlotsDistinct' /\ DetachedDistinct'
  BY DEF ThInv, OneOwner, SlotsDistinct, DetachedDistinct
<1>3. OneOwner'
  BY <1>1, <1>2 DEF ThInv, OneOwner
<1>4. Phased' /\ WorkerSafe'
  BY DEF ThInv, Phased, WorkerSafe
<1>5. JoinDelivers'
  BY DEF ThInv, JoinDelivers
<1> QED
  BY <1>3, <1>4, <1>5

\* The steps that change neither memory nor who owns it.
LEMMA StepQuiet ==
  ASSUME ThInv, \/ ReapDone \/ Spawn \/ SpawnRefused
                \/ \E id \in Ids : Join(id)
                \/ \E id \in Ids, k \in HandleKinds : BadHandle(id, k)
                \/ UNCHANGED vars
  PROVE  ThInv'
<1> USE DEF ThInv
<1>1. UNCHANGED <<handles, mem, worker, result, finished, answer, joined>>
  BY DEF ReapDone, Spawn, SpawnRefused, Join, BadHandle, Raises, os, vars
<1>3. CASE ReapDone
  <2>1. pc' \in {"idle", "creating"} /\ then' = "idle" /\ due' = {} /\ UNCHANGED <<detached, current, currentId, scan>>
    BY <1>3 DEF ReapDone, call, TypeOK
  <2>2. pc = "reaping"
    BY <1>3 DEF ReapDone
  <2>3. OneOwner' /\ Phased' /\ WorkerSafe' /\ JoinDelivers'
    BY <1>1, <2>1, <2>2, SameOwners
  <2>4. TypeOK'
    BY <1>1, <2>1 DEF TypeOK
  <2>5. Calls' /\ Scanned'
    BY <1>1, <2>1 DEF Calls, Scanned
  <2> QED
    BY <2>3, <2>4, <2>5
<1>4. CASE Spawn
  <2>1. /\ pc = "idle" /\ detached' = detached /\ pc' = "reaping" /\ then' = "creating"
        /\ scan' \in 0 .. Len(detached)
        /\ due' \subseteq {t \in Task : finished[t]}
        /\ 1 .. (Len(detached') - scan') = {}
        /\ UNCHANGED <<current, currentId>>
    BY <1>4, StartFacts DEF Spawn, call, TypeOK
  <2>2. TypeOK'
    BY <1>1, <2>1 DEF TypeOK
  <2>3. OneOwner' /\ Phased' /\ WorkerSafe' /\ JoinDelivers'
    BY <1>1, <2>1, SameOwners
  <2>4. Calls'
    BY <2>1 DEF Calls
  <2>5. Scanned'
    BY <1>1, <2>1 DEF Scanned
  <2> QED
    BY <2>2, <2>3, <2>4, <2>5
<1>5. CASE SpawnRefused
  <2>1. pc = "creating" /\ pc' = "idle" /\ UNCHANGED <<detached, current, currentId, scan, then, due>>
    BY <1>5 DEF SpawnRefused, Raises, call, reap
  <2>2. OneOwner' /\ Phased' /\ WorkerSafe' /\ JoinDelivers'
    BY <1>1, <2>1, SameOwners
  <2>3. TypeOK'
    BY <1>1, <2>1 DEF TypeOK
  <2>4. Calls' /\ Scanned'
    BY <1>1, <2>1 DEF Calls, Scanned
  <2> QED
    BY <2>2, <2>3, <2>4
<1>6. ASSUME NEW id \in Ids, Join(id) PROVE ThInv'
  <2>1. /\ pc = "idle" /\ pc' = "joining" /\ current' = handles[id].ptr /\ currentId' = id
        /\ id \in DOMAIN handles /\ handles[id].kind = "thread"
        /\ UNCHANGED <<detached, scan, then, due>>
    BY <1>6 DEF Join, Names, reap
  <2>2. current' \in Task
    BY <2>1, SlotFacts
  <2>3. id \in 0 .. Len(handles)
    BY <2>1 DEF TypeOK
  <2>4. TypeOK'
    BY <1>1, <2>1, <2>2, <2>3 DEF TypeOK
  <2>5. OneOwner' /\ Phased' /\ WorkerSafe' /\ JoinDelivers'
    BY <1>1, <2>1, SameOwners
  <2>6. Calls' /\ Scanned'
    BY <1>1, <2>1, <2>2 DEF Calls, Scanned
  <2> QED
    BY <2>4, <2>5, <2>6
<1>7. CASE UNCHANGED vars
  <2>1. UNCHANGED <<handles, detached, mem, pc, current, currentId, scan, then, due,
                    worker, result, finished, answer, joined>>
    BY <1>7 DEF vars, call, reap, os
  <2>2. TypeOK'
    BY <2>1 DEF TypeOK
  <2>3. OneOwner'
    BY <2>1 DEF OneOwner, InSlots, InDetached, InSpawn, SlotsDistinct, DetachedDistinct
  <2>4. Phased' /\ WorkerSafe' /\ JoinDelivers'
    BY <2>1 DEF Phased, WorkerSafe, JoinDelivers
  <2>5. Calls' /\ Scanned'
    BY <2>1 DEF Calls, Scanned
  <2> QED
    BY <2>2, <2>3, <2>4, <2>5
<1> QED
  BY <1>3, <1>4, <1>5, <1>6, <1>7 DEF BadHandle

\* A new thing: nothing names it yet.
LEMMA Fresh ==
  ASSUME ThInv, NEW x \in Thing, mem[x] = "unborn"
  PROVE  x \notin InSlots /\ x \notin InDetached /\ x \notin InSpawn
BY DEF ThInv, OneOwner

LEMMA StepSpawnCreate ==
  ASSUME ThInv, NEW t \in Task, SpawnCreate(t)
  PROVE  ThInv'
<1> USE DEF ThInv
<1>1. /\ pc = "creating" /\ pc' = "spawned" /\ current' = t /\ mem[t] = "unborn"
      /\ mem' = [mem EXCEPT ![t] = "live"]
      /\ worker' = [worker EXCEPT ![t] = "running"]
      /\ UNCHANGED <<handles, detached, currentId, scan, then, due, result, finished, answer, joined>>
  BY DEF SpawnCreate, reap
<1>2. /\ t \in Thing /\ mem \in [Thing -> {"unborn", "live", "freed"}]
      /\ worker \in [Task -> Phases] /\ worker[t] = "none"
      /\ t \notin InSlots /\ t \notin InDetached
  BY <1>1, Fresh DEF TypeOK, Thing, Phased
<1>3. TypeOK'
  BY <1>1, <1>2 DEF TypeOK, Phases
<1>4. OneOwner'
  <2>1. {x \in Thing : mem'[x] = "live"} = {x \in Thing : mem[x] = "live"} \union {t}
    BY <1>1, <1>2
  <2>2. InSlots' = InSlots /\ InDetached' = InDetached /\ InSpawn' = {t} /\ InSpawn = {}
    BY <1>1 DEF InSlots, InDetached, InSpawn
  <2>3. SlotsDistinct' /\ DetachedDistinct'
    BY <1>1 DEF OneOwner, SlotsDistinct, DetachedDistinct
  <2> QED
    BY <1>2, <2>1, <2>2, <2>3 DEF OneOwner
<1>5. Phased' /\ WorkerSafe'
  BY <1>1, <1>2 DEF Phased, WorkerSafe, Thing
<1>6. JoinDelivers'
  BY <1>1, <1>2 DEF JoinDelivers, TypeOK
<1>7. Calls' /\ Scanned'
  BY <1>1 DEF Calls, Scanned
<1> QED
  BY <1>3, <1>4, <1>5, <1>6, <1>7

LEMMA StepSpawnEnd ==
  ASSUME ThInv, SpawnEnd
  PROVE  ThInv'
<1> USE DEF ThInv
<1>1. /\ pc = "spawned" /\ pc' = "idle" /\ current' = Null /\ AddHandle(current)
      /\ UNCHANGED <<detached, mem, currentId, scan, then, due, worker, result, finished, answer, joined>>
  BY DEF SpawnEnd, reap, os
<1>2. current \in Thing /\ InSpawn = {current} /\ current \notin InSlots /\ current \notin InDetached
  BY <1>1 DEF Calls, InSpawn, OneOwner, Thing
<1>3. /\ handles' \in Seq(Slot) /\ Len(handles') >= Len(handles)
      /\ InSlots' = InSlots \union {current} /\ SlotsDistinct'
  BY <1>1, <1>2, AddFacts DEF OneOwner
<1>4. TypeOK'
  <2>1. currentId \in 0 .. Len(handles')
    <3>1. currentId \in 0 .. Len(handles) /\ Len(handles) \in Nat /\ Len(handles') \in Nat
      BY <1>3 DEF TypeOK
    <3> QED
      BY <1>3, <3>1
  <2> QED
    BY <1>1, <1>3, <2>1 DEF TypeOK
<1>5. OneOwner'
  <2>1. InDetached' = InDetached /\ InSpawn' = {} /\ DetachedDistinct'
    BY <1>1 DEF InDetached, InSpawn, OneOwner, DetachedDistinct
  <2> QED
    BY <1>1, <1>2, <1>3, <2>1 DEF OneOwner
<1>6. Phased' /\ WorkerSafe' /\ JoinDelivers'
  BY <1>1 DEF Phased, WorkerSafe, JoinDelivers
<1>7. Calls' /\ Scanned'
  BY <1>1 DEF Calls, Scanned
<1> QED
  BY <1>4, <1>5, <1>6, <1>7

LEMMA StepNew ==
  ASSUME ThInv, NEW x \in Thing, New(x)
  PROVE  ThInv'
<1> USE DEF ThInv
<1>1. /\ pc = "idle" /\ x \in Mutex \union Atomic /\ mem[x] = "unborn" /\ AddHandle(x)
      /\ mem' = [mem EXCEPT ![x] = "live"]
      /\ UNCHANGED <<detached, pc, current, currentId, scan, then, due, worker, result, finished, answer, joined>>
  BY DEF New, reap, os, call
<1>2. /\ x \notin InSlots /\ x \notin InDetached /\ x \notin Task
      /\ mem \in [Thing -> {"unborn", "live", "freed"}]
  BY <1>1, Fresh, ThreadsAssumption DEF TypeOK
<1>3. /\ handles' \in Seq(Slot) /\ Len(handles') >= Len(handles)
      /\ InSlots' = InSlots \union {x} /\ SlotsDistinct'
  BY <1>1, <1>2, AddFacts DEF OneOwner
<1>4. TypeOK'
  <2>1. currentId \in 0 .. Len(handles')
    <3>1. currentId \in 0 .. Len(handles) /\ Len(handles) \in Nat /\ Len(handles') \in Nat
      BY <1>3 DEF TypeOK
    <3> QED
      BY <1>3, <3>1
  <2>2. mem' \in [Thing -> {"unborn", "live", "freed"}]
    BY <1>1, <1>2
  <2> QED
    BY <1>1, <1>3, <2>1, <2>2 DEF TypeOK
<1>5. OneOwner'
  <2>1. InDetached' = InDetached /\ InSpawn' = {} /\ InSpawn = {} /\ DetachedDistinct'
    BY <1>1 DEF InDetached, InSpawn, OneOwner, DetachedDistinct
  <2>2. {y \in Thing : mem'[y] = "live"} = {y \in Thing : mem[y] = "live"} \union {x}
    BY <1>1, <1>2
  <2> QED
    BY <1>2, <1>3, <2>1, <2>2 DEF OneOwner
<1>6. \A t \in Task : mem'[t] = mem[t]
  BY <1>1, <1>2 DEF Thing
<1>7. Phased' /\ WorkerSafe' /\ JoinDelivers'
  BY <1>1, <1>6 DEF Phased, WorkerSafe, JoinDelivers
<1>8. Calls' /\ Scanned'
  BY <1>1 DEF Calls, Scanned
<1> QED
  BY <1>4, <1>5, <1>7, <1>8

LEMMA StepDispose ==
  ASSUME ThInv, NEW id \in Ids, NEW k \in HandleKinds, Dispose(id, k)
  PROVE  ThInv'
<1> USE DEF ThInv
<1> DEFINE x == handles[id].ptr
<1>1. /\ pc = "idle" /\ id \in DOMAIN handles /\ x # Null /\ handles[id].kind # "thread"
      /\ mem' = [mem EXCEPT ![x] = "freed"] /\ Release(id)
      /\ UNCHANGED <<detached, pc, current, currentId, scan, then, due, worker, result, finished, answer, joined>>
  BY DEF Dispose, Names, reap, os, call
<1>2. /\ handles' \in Seq(Slot) /\ Len(handles') = Len(handles)
      /\ InSlots' = InSlots \ {x} /\ SlotsDistinct'
  BY <1>1, ReleaseFacts DEF OneOwner
<1>3. x \in Thing /\ x \notin Task /\ x \in InSlots
  BY <1>1, SlotFacts DEF InSlots
<1> HIDE DEF x
<1>4. mem \in [Thing -> {"unborn", "live", "freed"}]
  BY DEF TypeOK
<1>5. TypeOK'
  <2>1. mem' \in [Thing -> {"unborn", "live", "freed"}]
    BY <1>1, <1>4
  <2> QED
    BY <1>1, <1>2, <2>1 DEF TypeOK
<1>6. OneOwner'
  <2>1. InDetached' = InDetached /\ InSpawn' = {} /\ InSpawn = {} /\ DetachedDistinct'
    BY <1>1 DEF InDetached, InSpawn, OneOwner, DetachedDistinct
  <2>2. {y \in Thing : mem'[y] = "live"} = {y \in Thing : mem[y] = "live"} \ {x}
    BY <1>1, <1>4
  <2> QED
    BY <1>2, <1>3, <2>1, <2>2 DEF OneOwner
<1>7. \A t \in Task : mem'[t] = mem[t]
  BY <1>1, <1>3, <1>4 DEF Thing
<1>8. Phased' /\ WorkerSafe' /\ JoinDelivers'
  BY <1>1, <1>7 DEF Phased, WorkerSafe, JoinDelivers
<1>9. Calls' /\ Scanned'
  BY <1>1 DEF Calls, Scanned
<1> QED
  BY <1>5, <1>6, <1>8, <1>9

LEMMA StepJoinEnd ==
  ASSUME ThInv, JoinEnd
  PROVE  ThInv'
<1> USE DEF ThInv
<1>1. /\ pc = "joining" /\ worker[current] = "exited" /\ Release(currentId)
      /\ mem' = [mem EXCEPT ![current] = "freed"]
      /\ joined' = joined \union {<<current, result[current]>>}
      /\ current' = Null /\ currentId' = 0 /\ StartReap(detached, "idle")
      /\ UNCHANGED <<worker, result, finished, answer>>
  BY DEF JoinEnd, HasExited, JoinRelease, os
<1>2. /\ current \in Task /\ current \in Thing /\ current # Null
      /\ currentId \in DOMAIN handles /\ handles[currentId].ptr = current
      /\ current \in InSlots
      /\ mem \in [Thing -> {"unborn", "live", "freed"}]
  BY <1>1, ThreadsAssumption DEF Calls, Thing, InSlots, TypeOK
<1>3. /\ handles' \in Seq(Slot) /\ Len(handles') = Len(handles)
      /\ InSlots' = InSlots \ {current} /\ SlotsDistinct'
  BY <1>1, <1>2, ReleaseFacts DEF OneOwner
<1>4. /\ detached' = detached /\ pc' = "reaping" /\ then' = "idle"
      /\ scan' \in 0 .. Len(detached)
      /\ due' \subseteq {t \in Task : finished[t]}
      /\ 1 .. (Len(detached') - scan') = {}
  BY <1>1, StartFacts DEF TypeOK
<1>5. TypeOK'
  <2>1. mem' \in [Thing -> {"unborn", "live", "freed"}] /\ 0 \in 0 .. Len(handles')
    BY <1>1, <1>2, <1>3 DEF TypeOK
  <2>2. joined' \subseteq Task \X Answers
    BY <1>1, <1>2 DEF TypeOK
  <2> QED
    BY <1>1, <1>3, <1>4, <2>1, <2>2 DEF TypeOK
<1>6. OneOwner'
  <2>1. InDetached' = InDetached /\ InSpawn' = {} /\ InSpawn = {} /\ DetachedDistinct'
    BY <1>1, <1>4 DEF InDetached, InSpawn, OneOwner, DetachedDistinct
  <2>2. {y \in Thing : mem'[y] = "live"} = {y \in Thing : mem[y] = "live"} \ {current}
    BY <1>1, <1>2
  <2> QED
    BY <1>2, <1>3, <2>1, <2>2 DEF OneOwner
<1>7. Phased' /\ WorkerSafe'
  BY <1>1, <1>2 DEF Phased, WorkerSafe, Thing
<1>8. JoinDelivers'
  <2>1. result[current] = answer[current]
    BY <1>2 DEF Phased
  <2> QED
    BY <1>1, <2>1 DEF JoinDelivers
<1>9. Calls' /\ Scanned'
  BY <1>1, <1>4 DEF Calls, Scanned
<1> QED
  BY <1>5, <1>6, <1>7, <1>8, <1>9

LEMMA StepDetach ==
  ASSUME ThInv, NEW id \in Ids, Detach(id)
  PROVE  ThInv'
<1> USE DEF ThInv
<1> DEFINE x == handles[id].ptr
<1>1. /\ pc = "idle" /\ id \in DOMAIN handles /\ handles[id].kind = "thread" /\ x # Null
      /\ Release(id) /\ StartReap(Append(detached, x), "idle")
      /\ UNCHANGED <<mem, current, currentId, worker, result, finished, answer, joined>>
  BY DEF Detach, Names, call, os
<1>2. x \in Task /\ x \in Thing /\ x \in InSlots /\ detached \in Seq(Task)
  BY <1>1, SlotFacts DEF InSlots, TypeOK, Thing
<1>3. /\ handles' \in Seq(Slot) /\ Len(handles') = Len(handles)
      /\ InSlots' = InSlots \ {x} /\ SlotsDistinct'
  BY <1>1, ReleaseFacts DEF OneOwner
<1> HIDE DEF x
<1>4. Append(detached, x) \in Seq(Task)
  BY <1>2
<1>5. /\ detached' = Append(detached, x) /\ pc' = "reaping" /\ then' = "idle"
      /\ scan' \in 0 .. Len(detached')
      /\ due' \subseteq {t \in Task : finished[t]}
      /\ 1 .. (Len(detached') - scan') = {}
  BY <1>1, <1>4, StartFacts
<1>6. TypeOK'
  BY <1>1, <1>3, <1>4, <1>5 DEF TypeOK
<1>7. OneOwner'
  <2>1. x \notin InDetached
    BY <1>2 DEF OneOwner
  <2>2. /\ DOMAIN detached' = 1 .. (Len(detached) + 1) /\ DOMAIN detached = 1 .. Len(detached)
        /\ Len(detached) \in Nat /\ detached'[Len(detached) + 1] = x
        /\ \A i \in DOMAIN detached : detached'[i] = detached[i]
    BY <1>2, <1>5
  <2>3. InDetached' = InDetached \union {x} /\ DetachedDistinct'
    BY <2>1, <2>2 DEF InDetached, OneOwner, DetachedDistinct
  <2>4. InSpawn' = {} /\ InSpawn = {}
    BY <1>1, <1>5 DEF InSpawn
  <2> QED
    BY <1>1, <1>2, <1>3, <2>1, <2>3, <2>4 DEF OneOwner
<1>8. Phased' /\ WorkerSafe' /\ JoinDelivers'
  BY <1>1 DEF Phased, WorkerSafe, JoinDelivers
<1>9. Calls' /\ Scanned'
  BY <1>1, <1>5 DEF Calls, Scanned
<1> QED
  BY <1>6, <1>7, <1>8, <1>9

-----------------------------------------------------------------------------
(* The theorems.                                                           *)

\* The invariant holds of every reachable state, whatever tasks, mutexes and
\* cells there are and whatever handles the program tries.
THEOREM ThreadsInvariance == Spec => []ThInv
<1>1. Init => ThInv
  BY ThInit
<1>2. ThInv /\ [Next]_vars => ThInv'
  <2> SUFFICES ASSUME ThInv, [Next]_vars PROVE ThInv'
    OBVIOUS
  <2>1. ASSUME NEW t \in Task, Worker(t) PROVE ThInv'
    BY <2>1, StepTask
  <2>2. CASE ReapStep
    BY <2>2, StepReap
  <2>3. CASE ReapDone \/ Spawn \/ SpawnRefused \/ UNCHANGED vars
    BY <2>3, StepQuiet
  <2>4. ASSUME NEW id \in Ids, Join(id) PROVE ThInv'
    BY <2>4, StepQuiet
  <2>5. ASSUME NEW id \in Ids, NEW k \in HandleKinds, BadHandle(id, k) PROVE ThInv'
    BY <2>5, StepQuiet
  <2>6. ASSUME NEW t \in Task, SpawnCreate(t) PROVE ThInv'
    BY <2>6, StepSpawnCreate
  <2>7. CASE SpawnEnd
    BY <2>7, StepSpawnEnd
  <2>8. CASE JoinEnd
    BY <2>8, StepJoinEnd
  <2>9. ASSUME NEW id \in Ids, Detach(id) PROVE ThInv'
    BY <2>9, StepDetach
  <2>10. ASSUME NEW x \in Thing, New(x) PROVE ThInv'
    BY <2>10, StepNew
  <2>11. ASSUME NEW id \in Ids, NEW k \in HandleKinds, Dispose(id, k) PROVE ThInv'
    BY <2>11, StepDispose
  <2> QED
    BY <2>1, <2>2, <2>3, <2>4, <2>5, <2>6, <2>7, <2>8, <2>9, <2>10, <2>11
       DEF Next, Begin, Continue
<1> QED
  BY <1>1, <1>2, PTL DEF Spec

\* Every variable keeps its type: a slot says what it names, and a join or a
\* detach only ever gets a task.
THEOREM ThreadsTyped == Spec => []TypeOK
BY ThreadsInvariance, PTL DEF ThInv

\* No task is freed before its worker is done with it.
THEOREM WorkersKeepTheirTask == Spec => []WorkerSafe
BY ThreadsInvariance, PTL DEF ThInv

\* What is allocated has exactly one owner; what is freed has none.
THEOREM OwnersUnique == Spec => []OneOwner
BY ThreadsInvariance, PTL DEF ThInv

\* thread_join returns what its own worker came to, after it ended.
THEOREM JoinsDeliver == Spec => []JoinDelivers
BY ThreadsInvariance, PTL DEF ThInv

\* A reaping leaves no task that was finished when it began.
THEOREM ReapingComplete == Spec => Reaped
<1>1. ThInv /\ [Next]_vars => [pc = "reaping" /\ pc' # "reaping" => due \intersect InDetached' = {}]_vars
  <2> SUFFICES ASSUME ThInv, Next, pc = "reaping", pc' # "reaping"
               PROVE  due \intersect InDetached' = {}
    OBVIOUS
  <2>1. ReapDone
    BY DEF Next, Begin, Continue, Worker, Work, Flag, Exit, Elsewhere, Spawn, Join, Detach, New,
       Dispose, BadHandle, ReapStep, SpawnCreate, SpawnRefused, SpawnEnd, JoinEnd, vars
  <2>2. scan = 0 /\ detached' = detached
    BY <2>1 DEF ReapDone
  <2>3. Len(detached) \in Nat /\ DOMAIN detached = 1 .. Len(detached)
    BY DEF ThInv, TypeOK
  <2>4. \A i \in DOMAIN detached : detached[i] \notin due
    BY <2>2, <2>3 DEF ThInv, Scanned
  <2> QED
    BY <2>2, <2>4 DEF InDetached
<1> QED
  BY <1>1, ThreadsInvariance, PTL DEF Spec, Reaped

=============================================================================
