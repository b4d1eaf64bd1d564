SPECIFICATION Spec
CONSTANTS
  Memory = 90
  Granularity = 18
  MinChunk = 3
  SegmentSize = 3
  StateSize = 3
  MinLarge = 6
  Requests = {4, 9, 11, 12}
  Resizes = {5, 7}
  MaxBlocks = 2
  TrimThreshold = 11
  ReleaseRate = 1
  None = None
INVARIANTS CheckedState NothingLeaks
PROPERTIES ImplementsHeap SystemIsLast
