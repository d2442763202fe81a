SPECIFICATION Spec
CONSTANTS
  Task = {t1, t2}
  Mutex = {m1}
  Atomic = {a1}
  Null = Null
INVARIANTS WorkerSafe OneOwner JoinDelivers
PROPERTIES CallsReturn DetachedFreed
