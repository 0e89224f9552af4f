SPECIFICATION FairSpec
CONSTANTS
  Threads = {t1, t2, t3}
  Ops = {"lock", "try_lock", "try_lock_until"}
  None = None
INVARIANTS
  TypeOK
  HeldIsLocked
  UnlockFrees
PROPERTIES
  ImplementsLock
  LockSucceeds
