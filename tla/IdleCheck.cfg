SPECIFICATION FairSpec
CONSTANTS
  Contexts = {c1, c2}
  Handles = {h1}
  Timers = {t1, t2}
  None = None
  TickModulus = 6
  IdleTimeout = 2
  Latency = 0
INVARIANT JustifiedShutdown
PROPERTIES ShutdownHitsVisited IdleReaped
CHECK_DEADLOCK FALSE
