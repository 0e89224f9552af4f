SPECIFICATION Spec
CONSTANTS
  low = low
  mid1 = mid1
  mid2 = mid2
  Waiters <- MCWaiters
  Prio <- MCPrio
  Null = Null
  Preemptible = {"link", "unlink", "one", "all"}
  MaxNesting = 2
INVARIANT QueueExact
