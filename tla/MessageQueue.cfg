SPECIFICATION FairSpec
CONSTANTS
  NumElem = 2
  Null = Null
  Senders = {s1, s2}
  Receivers = {r1, r2}
  Elements = {a, b}
INVARIANTS
  TypeOK
  ChunksExact
PROPERTIES
  ImplementsQueue
  SenderServed
CHECK_DEADLOCK FALSE
