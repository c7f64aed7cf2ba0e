\* Any three commands of every kind, one fault, stale samples of the disk.
SPECIFICATION Spec
CONSTANTS
  Prompts = {p1, p2}
  Interrupts = {i1}
  Stops = {t1}
  Resumes = {m1}
  Cancels = {c1}
  Compacts = {k1, k2}
  Sleeps = {z1}
  Closes = {x1}
  Start = start
  None = none
  MaxRequests = 4
  MaxHarnesses = 2
  MaxRestarts = 0
  MaxFaults = 1
  MayIdle = FALSE
  MayFill = FALSE
  MayStall = TRUE
  MayFork = FALSE
INVARIANTS DroppedNeverRuns ReadyHasHandle OneTurn
PROPERTIES ReceiptsEnd DrainHolds
CHECK_DEADLOCK FALSE
