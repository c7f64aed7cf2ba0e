\* The process may die at any step; the machine keeps its power.
SPECIFICATION FairSpec
CONSTANTS
  NoFile = NoFile
  Sessions = {s1}
  Bodies = {x, y}
  MaxRecords = 3
  BatchSize = 2
  MaxCrashes = 2
  MaxFaults = 2
  PowerLoss = FALSE
INVARIANTS TypeOK ReplicaAgrees
PROPERTIES CatchesUp RefinesHistoryStore
CHECK_DEADLOCK FALSE
