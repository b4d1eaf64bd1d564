SPECIFICATION Spec
CONSTANTS
  Workers = {w1, w2}
  Contexts = {c1, c2, c3}
  NoContext = NoContext
  InitAccepts = 2
  MaxConnections = 1
  ClientCalls <- AnyCalls
  Faults = {"accept"}
SYMMETRY Symmetry
INVARIANTS
  DisconnectNeverRefills
PROPERTIES
  AcceptPoolNeverGrows
  UsesStorageProperly
CHECK_DEADLOCK FALSE
