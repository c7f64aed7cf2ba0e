\* Expected to fail: a record found on boot may not have been synced.
SPECIFICATION Spec
CONSTANTS
  NoFile = NoFile
  Sessions = {s1}
  Bodies = {x}
  MaxRecords = 2
  BatchSize = 2
  MaxCrashes = 2
  MaxFaults = 1
  PowerLoss = TRUE
INVARIANTS VisibleIsDurable
CHECK_DEADLOCK FALSE
