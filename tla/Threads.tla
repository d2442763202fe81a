------------------------------ MODULE Threads ------------------------------
(***************************************************************************)
(* Native threads and the handle table: builtins_thread.c, handles.c and    *)
(* native/posix/thread.c.                                                   *)
(*                                                                          *)
(* The program names a thread, a mutex or an atomic cell by a small integer,*)
(* an index into gHandles; only the VM thread touches that table.  A        *)
(* ThreadTask is shared with the OS thread that runs it, so the task may    *)
(* not be freed before the worker has raised task->finished.  Nothing is    *)
(* locked: the worker's last access to the task is the atomic add, and the  *)
(* VM thread frees a task only after joining its thread or after reading    *)
(* the flag of a detached one.                                              *)
(*                                                                          *)
(* The worker is a native primitive: it ends, with or without an integer.   *)
(* A mutex or a cell is only ever used by the VM thread (a worker is given  *)
(* a byte buffer and nothing else), so what is modelled of them is the      *)
(* lifetime of what a handle names.                                         *)
(***************************************************************************)
EXTENDS Naturals, Sequences, FiniteSets

CONSTANTS
  Task,      \* the ThreadTasks a run makes; a freed one is not used again
  Mutex,     \* the mutexes it makes
  Atomic,    \* the atomic cells it makes
  Null       \* the NULL pointer

ASSUME ThreadsAssumption ==
  /\ Task \intersect Mutex = {} /\ Task \intersect Atomic = {} /\ Mutex \intersect Atomic = {}
  /\ Null \notin Task \union Mutex \union Atomic

Thing == Task \union Mutex \union Atomic

\* What a worker leaves in task->result: 0 (from the memset) unless its
\* function succeeds with an integer.
Zero == 0
Answers == {Zero, 1}

VARIABLES
  handles,   \* gHandles[0 .. gHandleCount - 1]: [kind, ptr]
  detached,  \* gDetached[0 .. gDetachedCount - 1]
  mem,       \* [Thing -> {"unborn", "live", "freed"}]
  pc,        \* where the VM thread is; "idle": in no thread primitive
  current,   \* the task a spawn or a join under way is about
  currentId, \* the handle a join under way was given
  scan,      \* reapDetached: how many of gDetached it has yet to look at
  then,      \* where it returns to
  worker,    \* [Task -> where its OS thread is]
  result,    \* [Task -> Answers]: task->result
  finished,  \* [Task -> BOOLEAN]: task->finished # 0
  answer,    \* history: what each worker's function came to
  joined,    \* history: what thread_join returned, <<task, result>>
  due        \* history: the detached tasks finished when the reaping began

call    == <<current, currentId>>
reap    == <<scan, then, due>>
os      == <<worker, result, finished, answer>>
vars    == <<handles, detached, mem, pc, call, reap, os, joined>>

KindOf(x) == IF x \in Task THEN "thread" ELSE IF x \in Mutex THEN "mutex" ELSE "atomic"

FreeSlot == [kind |-> "free", ptr |-> Null]

Init ==
  /\ handles = <<>> /\ detached = <<>>
  /\ mem = [x \in Thing |-> "unborn"]
  /\ pc = "idle" /\ current = Null /\ currentId = 0
  /\ scan = 0 /\ then = "idle" /\ due = {}
  /\ worker = [t \in Task |-> "none"]
  /\ result = [t \in Task |-> Zero]
  /\ finished = [t \in Task |-> FALSE]
  /\ answer = [t \in Task |-> Zero]
  /\ joined = {}

-----------------------------------------------------------------------------
(* The handle table.                                                       *)

FreeSlots == {i \in DOMAIN handles : handles[i].kind = "free"}

\* jaiHandleAdd: the lowest free slot, else one more.  The slot one thing gave
\* up is the next one's, under the same integer.
AddHandle(x) ==
  LET slot == [kind |-> KindOf(x), ptr |-> x] IN
  IF FreeSlots = {}
  THEN handles' = Append(handles, slot)
  ELSE \E i \in FreeSlots : /\ \A j \in FreeSlots : i <= j
                            /\ handles' = [handles EXCEPT ![i] = slot]

\* jaiHandleGet
Names(id, k) ==
  /\ id \in DOMAIN handles
  /\ handles[id].kind = k
  /\ handles[id].ptr # Null

\* jaiHandleRelease
Release(id) == handles' = [handles EXCEPT ![id] = FreeSlot]

-----------------------------------------------------------------------------
(* reapDetached: the flags are read one after the other, while the workers go on. *)

StartReap(list, next) ==
  /\ detached' = list
  /\ scan' = Len(list)
  /\ due' = {t \in Task : finished[t] /\ \E i \in DOMAIN list : list[i] = t}
  /\ then' = next
  /\ pc' = "reaping"

\* (slip: the flag is not read)
ReapableAny(t) == TRUE
Reapable(t) == finished[t]

\* (slip: the walk ends at the first task that is not finished)
ScanStops(t) == IF Reapable(t) THEN scan - 1 ELSE 0
ScanOn(t) == scan - 1

Without(s, k) == SubSeq(s, 1, k - 1) \o SubSeq(s, k + 1, Len(s))

ReapStep ==
  /\ pc = "reaping" /\ scan > 0
  /\ LET k == Len(detached) - scan + 1
         t == detached[k]
     IN /\ scan' = ScanOn(t)
        /\ IF Reapable(t)
           THEN /\ detached' = Without(detached, k)
                /\ mem' = [mem EXCEPT ![t] = "freed"]
           ELSE UNCHANGED <<detached, mem>>
  /\ UNCHANGED <<handles, pc, call, then, due, os, joined>>

ReapDone ==
  /\ pc = "reaping" /\ scan = 0
  /\ pc' = then
  /\ then' = "idle" /\ due' = {}
  /\ UNCHANGED <<handles, detached, mem, call, scan, os, joined>>

-----------------------------------------------------------------------------
(* The primitives, on the VM thread.                                       *)

\* thread_spawn reaps first ...
Spawn ==
  /\ pc = "idle"
  /\ StartReap(detached, "creating")
  /\ UNCHANGED <<handles, mem, call, os, joined>>

\* ... then makes the task and the thread, which is off at once, before its
\* task has a handle ...
SpawnCreate(t) ==
  /\ pc = "creating" /\ mem[t] = "unborn"
  /\ mem' = [mem EXCEPT ![t] = "live"]
  /\ worker' = [worker EXCEPT ![t] = "running"]
  /\ pc' = "spawned" /\ current' = t
  /\ UNCHANGED <<handles, detached, currentId, reap, result, finished, answer, joined>>

\* ... or raises when the system refuses the thread.
\* (slip: it tries again)
TriesAgain == pc' = "creating"
Raises == pc' = "idle"

SpawnRefused ==
  /\ pc = "creating"
  /\ Raises
  /\ UNCHANGED <<handles, detached, mem, call, reap, os, joined>>

SpawnEnd ==
  /\ pc = "spawned"
  /\ AddHandle(current)
  /\ pc' = "idle" /\ current' = Null
  /\ UNCHANGED <<detached, mem, currentId, reap, os, joined>>

\* thread_join up to pthread_join.
Join(id) ==
  /\ pc = "idle" /\ Names(id, "thread")
  /\ pc' = "joining" /\ current' = handles[id].ptr /\ currentId' = id
  /\ UNCHANGED <<handles, detached, mem, reap, os, joined>>

\* pthread_join returns when the thread has ended.
\* (slip: it is not called)
Unawaited(t) == TRUE
HasExited(t) == worker[t] = "exited"

\* (slip: the handle stays)
JoinKeeps(id) == UNCHANGED handles
JoinRelease(id) == Release(id)

JoinEnd ==
  /\ pc = "joining" /\ HasExited(current)
  /\ joined' = joined \union {<<current, result[current]>>}
  /\ JoinRelease(currentId)
  /\ mem' = [mem EXCEPT ![current] = "freed"]
  /\ current' = Null /\ currentId' = 0
  /\ StartReap(detached, "idle")
  /\ UNCHANGED os

\* thread_detach
Detach(id) ==
  /\ pc = "idle" /\ Names(id, "thread")
  /\ Release(id)
  /\ StartReap(Append(detached, handles[id].ptr), "idle")
  /\ UNCHANGED <<mem, call, os, joined>>

\* mutex_new, cond_new, atomic_new
New(x) ==
  /\ pc = "idle" /\ x \in Mutex \union Atomic /\ mem[x] = "unborn"
  /\ mem' = [mem EXCEPT ![x] = "live"]
  /\ AddHandle(x)
  /\ UNCHANGED <<detached, pc, call, reap, os, joined>>

\* mutex_free, cond_free, atomic_free
Dispose(id, k) ==
  /\ pc = "idle" /\ k # "thread" /\ Names(id, k)
  /\ mem' = [mem EXCEPT ![handles[id].ptr] = "freed"]
  /\ Release(id)
  /\ UNCHANGED <<detached, pc, call, reap, os, joined>>

\* Any of them given an integer that is no such handle: ValueError.
BadHandle(id, k) ==
  /\ pc = "idle" /\ ~Names(id, k)
  /\ UNCHANGED vars

-----------------------------------------------------------------------------
(* The OS thread of task t: threadEntry.                                   *)

Elsewhere == UNCHANGED <<handles, detached, mem, pc, call, reap, joined>>

\* The native primitive returns and its integer, if it made one, is stored.
Work(t) ==
  /\ worker[t] = "running"
  /\ worker' = [worker EXCEPT ![t] = "stored"]
  /\ \E a \in Answers : /\ answer' = [answer EXCEPT ![t] = a]
                        /\ result' = [result EXCEPT ![t] = a]
  /\ UNCHANGED finished
  /\ Elsewhere

\* (slip: a worker that failed returns without raising the flag)
FlaggedIfGood(t) == finished' = [finished EXCEPT ![t] = answer[t] # Zero]
Flagged(t) == finished' = [finished EXCEPT ![t] = TRUE]

\* The atomic add: the worker's last access to its task.
Flag(t) ==
  /\ worker[t] = "stored"
  /\ worker' = [worker EXCEPT ![t] = "flagged"]
  /\ Flagged(t)
  /\ UNCHANGED <<result, answer>>
  /\ Elsewhere

Exit(t) ==
  /\ worker[t] = "flagged"
  /\ worker' = [worker EXCEPT ![t] = "exited"]
  /\ UNCHANGED <<result, finished, answer>>
  /\ Elsewhere

Ids == 0 .. Len(handles) + 1
HandleKinds == {"thread", "mutex", "atomic"}

Worker(t) == Work(t) \/ Flag(t) \/ Exit(t)

\* A primitive under way goes on; only a join waits for anything.
Continue == ReapStep \/ ReapDone \/ (\E t \in Task : SpawnCreate(t)) \/ SpawnRefused \/ SpawnEnd \/ JoinEnd

Begin ==
  \/ Spawn
  \/ \E id \in Ids : Join(id) \/ Detach(id)
  \/ \E x \in Thing : New(x)
  \/ \E id \in Ids, k \in HandleKinds : Dispose(id, k) \/ BadHandle(id, k)

Next == Begin \/ Continue \/ \E t \in Task : Worker(t)

\* The VM thread is not suspended for ever, the system runs every thread and a
\* native primitive returns.
Spec == Init /\ [][Next]_vars /\ WF_vars(Continue) /\ \A t \in Task : WF_vars(Worker(t))

-----------------------------------------------------------------------------
Slot == {FreeSlot} \union {[kind |-> KindOf(x), ptr |-> x] : x \in Thing}

Phases == {"none", "running", "stored", "flagged", "exited"}

TypeOK ==
  /\ handles \in Seq(Slot)
  /\ detached \in Seq(Task)
  /\ mem \in [Thing -> {"unborn", "live", "freed"}]
  /\ pc \in {"idle", "reaping", "creating", "spawned", "joining"}
  /\ current \in Task \union {Null}
  /\ currentId \in 0 .. Len(handles)
  /\ scan \in 0 .. Len(detached)
  /\ then \in {"idle", "creating"}
  /\ worker \in [Task -> Phases]
  /\ result \in [Task -> Answers] /\ answer \in [Task -> Answers]
  /\ finished \in [Task -> BOOLEAN]
  /\ joined \subseteq Task \X Answers
  /\ due \subseteq Task

\* Whatever the VM thread does meanwhile, a worker that has yet to raise its
\* flag reads and writes a task that has not been freed.
WorkerSafe == \A t \in Task : worker[t] \in {"running", "stored"} => mem[t] = "live"

\* What the VM thread holds of live memory: slots, gDetached and, in the middle
\* of a spawn, a C local.
InSlots == {handles[i].ptr : i \in DOMAIN handles} \ {Null}
InDetached == {detached[i] : i \in DOMAIN detached}
InSpawn == IF pc = "spawned" THEN {current} ELSE {}

SlotsDistinct ==
  \A i, j \in DOMAIN handles :
    i # j /\ handles[i].ptr # Null => handles[i].ptr # handles[j].ptr
DetachedDistinct ==
  \A i, j \in DOMAIN detached : i # j => detached[i] # detached[j]

\* Every task, mutex and cell that is allocated has exactly one owner and none
\* that is freed has any: nothing leaks, is freed twice or is reached by an
\* integer after it was freed.
OneOwner ==
  /\ {x \in Thing : mem[x] = "live"} = InSlots \union InDetached \union InSpawn
  /\ InSlots \intersect InDetached = {}
  /\ InSpawn \intersect (InSlots \union InDetached) = {}
  /\ SlotsDistinct /\ DetachedDistinct

\* A join returns what its own worker came to.
JoinDelivers == \A j \in joined : j[2] = answer[j[1]] /\ worker[j[1]] = "exited"

\* A detached task that had finished when a spawn, join or detach began to reap
\* is gone when that call returns: finished tasks do not pile up.
Reaped == [][pc = "reaping" /\ pc' # "reaping" => due \intersect InDetached' = {}]_vars

\* Every primitive returns, a join too.
CallsReturn == pc # "idle" ~> pc = "idle"

\* Once a thread is detached, a program that goes on spawning frees its task.
\* (That it goes on is the hypothesis: nothing else reaps.)
DetachedFreed ==
  ([]<><<ReapDone>>_vars) => \A t \in Task : (t \in InDetached) ~> (mem[t] = "freed")

=============================================================================
