SPECIFICATION FairSpec
CONSTANTS
  Waiters = {c1, c2}
  Producers = {p1, p2}
  MaxItems = 3
INVARIANTS
  TypeOK
  NoLostWakeup
PROPERTY ItemsServed
