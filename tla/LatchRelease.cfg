SPECIFICATION LSFairSpec
CONSTANTS
  Waiters = {c1, c2}
  Updaters = {p1}
  Kinds = {"latch"}
  MaxCount = 2
  ObjectValues = {0, 1}
  DestroyAtZero = FALSE
PROPERTY LatchReleases
CHECK_DEADLOCK FALSE
