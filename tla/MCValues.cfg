SPECIFICATION ValuesSpec
CONSTANTS
  Waiters = {c1, c2}
  Updaters = {p1, p2}
  Kinds = {"latch", "synchronic"}
  MaxCount = 2
  ObjectValues = {0, 1}
  DestroyAtZero = FALSE
  Lockers = {t1, t2}
  Mutexes = {m1, m2}
  Guards = {g1, g2}
  Nobody = Nobody
  Flags = {e1, e2}
  Unit = 2
  MaxPiece = 2
  Durations = {0, 1, 2, 4, 5, 7}
  MaxDelay = 3
  MaxWakeups = 1
  Readers = {r1, r2}
  High = 2
  Low = 2
  Trv = 1
  MaxElapsed = 9
  Users = {u1, u2}
  Width = 2
  Free = Free
  Rests = {0, 1}
  Sizes = {"small", "large"}
  Pointers = {q1, q2, q3}
  Objects = {o1, o2}
  NoObject = NoObject
  MaxRaw = 1
  Functions = {f1, f2, f3}
  Temporary = tmp
  tempStorage = ts
  Heap = {b1, b2, b3, b4}
  Small = {sa, sb}
  Large = {la, lb}
  NoCallable = NoCallable
  Types <- MCTypes
  Counts <- MCCounts
  Bits = 9
  UserClasses = {"app", "app_io", "app_len", "placed"}
  Thrown = {"app_io", "app_len", "placed"}
  Registered = {"app", "app_io"}
  UserParent <- MCParent
  MaxRegistered = 2
  NumElem = 3
  Null = Null
  PoolUsers = {v1, v2}
  Element = Element
  Promises = {pa, pb}
  Futures = {fa, fb}
  SharedStates = {x1, x2, x3}
  NoState = NoState
  Dead = Dead
  Word = 2
  StateAlign = 4
  StateSize = 4
  LongDouble = 4
  MinStack = 4
  TooLarge = 13
  StackBegins = {9, 10, 12}
  StackSizes = {0, 5, 11, 14, 20, 24}
  NoStack = NoStack
  ThreadStates = {n1, n2, n3, n4}
  Nil = Nil
  SignalFlags = {s1, s2, s3}
  MaxPieces = 2
  RecThreads = {k1, k2}
  MaxLevel = 2
  MaxTries = 1
  NoThread = NoThread
  UniquePtrs = {up, uq}
  Owned = {w1, w2}
  Deleters = {d1, d2}
  Nullptr = Nullptr
  MaxFrames = 4
  MaxScopeGuards = 1
  MaxUncaught = 2
  MovesAnyGuard = FALSE
INVARIANTS
  TypesOK
  NoSleeperMissed
  LocksExact
  NobodyOversleeps
  TimeoutKept
  NowExactUnlessLate
  ResourcesOwned
  ThreadsAccounted
  DurationsExact
  CaptureFaithful
PROPERTY ImplementsRegister
CHECK_DEADLOCK FALSE
