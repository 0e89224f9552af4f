SPECIFICATION Spec
CONSTANTS
  Handles = {h1, h2}
  Tasks = {t1, t2, t3}
  Heap = {heap1}
  Custom = {custom1}
  None = None
INVARIANT StackExclusive
