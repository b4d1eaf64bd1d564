SPECIFICATION FairSpec
CONSTANTS
  Workers = {w1, w2}
  Contexts = {c1, c2, c3}
  NoContext = NoContext
  InitAccepts = 1
  MaxConnections = 1
  ClientCalls <- TestCalls
  Faults = {}
PROPERTIES
  ClosedPeerReaped
  StopTerminates
CHECK_DEADLOCK FALSE
