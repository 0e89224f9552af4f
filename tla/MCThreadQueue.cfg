SPECIFICATION Spec
CONSTANTS
  low = low
  mid1 = mid1
  mid2 = mid2
  Waiters <- MCWaiters
  Prio <- MCPrio
  Null = Null
  Preemptible = {"one", "all"}
  MaxNesting = 2
INVARIANTS
  TypeOK
  QueueExact
  TokensMatch
  SortedBehindHead
PROPERTIES
  ImplementsWaitQueue
