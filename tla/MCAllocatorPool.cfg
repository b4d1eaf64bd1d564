SPECIFICATION Spec
CONSTANTS
  Threads = {t1, t2, t3}
  Mspaces = {s1, s2, s3}
  None = None
  MaxThreads = 2
  MaxCaches = 2
SYMMETRY Symmetry
INVARIANTS PoolConsistent LockedForUse NeverJammed OnlyLocksStop
