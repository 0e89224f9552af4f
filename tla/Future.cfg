SPECIFICATION FairSpec
CONSTANTS
  Setters = {s1, s2}
  Waiters = {w1, w2}
  Owner = o
  Task = task
  Modes = {"promise", "async"}
INVARIANTS
  TypeOK
  StateAlive
  PromiseKept
PROPERTY WaitReturns
CHECK_DEADLOCK FALSE
