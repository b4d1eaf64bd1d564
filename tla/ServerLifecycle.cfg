SPECIFICATION FairSpec
CONSTANTS
  Workers = {w1, w2, w3}
  Main = Main
  Timer = Timer
  None = None
  WorkerCounts = {2, 3}
  InitAccepts = 1
  MaxWaitObjects = 2
  MaxStarts = 2
  MaxStartups = 2
  MaxClients = 1
  Misuse = {"callback", "enum"}
INVARIANTS WorkersOutlived OnlyLateTimerDangles OnlyCreateCriesBlind ServingWorks
PROPERTIES ServesOnce StopReturns
CHECK_DEADLOCK FALSE
