SPECIFICATION FairSpec
CONSTANTS
  Workers = {w1}
  Contexts = {c1, c2}
  NoContext = NoContext
  InitAccepts = 1
  MaxConnections = 1
  ClientCalls <- TestCalls
  Faults = {"reset"}
PROPERTIES
  KeepAliveCloses
CHECK_DEADLOCK FALSE
