SPECIFICATION Spec
CONSTANTS
  Workers = {w1, w2}
  Contexts = {c1, c2, c3}
  NoContext = NoContext
  InitAccepts = 1
  MaxConnections = 1
  ClientCalls <- AnyCalls
  Faults = {"reset", "accept", "associate", "empty"}
INVARIANTS
  TypeOK
  NoUseAfterFree
  SoleHolder
  TagTruthful
  SocketsAccounted
PROPERTIES
  FollowsLifecycle
CHECK_DEADLOCK FALSE
