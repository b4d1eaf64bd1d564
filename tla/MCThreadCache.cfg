SPECIFICATION Spec
CONSTANTS
  Blocks = {b1, b2, b3}
  Null = Null
  MaxBin = 2
  Overhead = 1
  Slack = 1
  MaxFree = 6
  ReleaseAge = 2
  FreesModulus = 4
  NoopSlack = 0
SYMMETRY Symmetry
INVARIANTS CacheConsistent LargeEnough AgeingWorks
PROPERTY ImplementsBins
