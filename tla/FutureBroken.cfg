SPECIFICATION Spec
CONSTANTS
  Setters = {s1, s2}
  Waiters = {w1, w2}
  Owner = o
  Task = task
  Modes = {"promise"}
INVARIANT BrokenPromiseSignalled
CHECK_DEADLOCK FALSE
