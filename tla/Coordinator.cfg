SPECIFICATION FairSpec
CONSTANTS
  lead = lead
  w1 = w1
  w2 = w2
  None = None
  Name = {lead, w1, w2}
  First = {lead}
  SpawnNames <- MCSpawnNames
  Orders <- MCOrders
  QueueCap = 1
  SeedAttempts = 2
  MaxOrders = 3
  MaxFaults = 1
INVARIANTS TypeOK NoIdleWorker CompleteIsTrue
PROPERTIES ReportsAreKept EveryCallReturns
CHECK_DEADLOCK FALSE
