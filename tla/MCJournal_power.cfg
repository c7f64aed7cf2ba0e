\* The machine may lose power between any two steps.
SPECIFICATION Spec
CONSTANTS
  NoFile = NoFile
  Sessions = {s1}
  Bodies = {x, y}
  MaxRecords = 3
  BatchSize = 2
  MaxCrashes = 2
  MaxFaults = 1
  PowerLoss = TRUE
INVARIANTS AcceptedSurvives SavedIsReplicated NeverRefused
CHECK_DEADLOCK FALSE
