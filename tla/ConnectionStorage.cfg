SPECIFICATION FairSpec
CONSTANTS
  Threads = {t1, t2, t3}
  Connections = {c1, c2, c3, c4}
  Size = 3
  Garbage = Garbage
  NoThread = NoThread
INVARIANTS
  ArrayIntact
  NoDanglingPointer
  TraversalComplete
PROPERTIES
  ImplementsSet
  CriticalSectionReleased
