\* What is asked for is answered across a crash or a planned restart and a lost reply.
SPECIFICATION FairSpec
CONSTANTS
  Prompts = {p1}
  Interrupts = {i1}
  Stops = {t1}
  Resumes = {}
  Cancels = {}
  Compacts = {k1}
  Sleeps = {z1}
  Closes = {x1}
  Start = start
  None = none
  MaxRequests = 3
  MaxHarnesses = 5
  MaxRestarts = 1
  MaxFaults = 1
  MayIdle = FALSE
  MayFill = FALSE
  MayStall = FALSE
  MayFork = TRUE
PROPERTIES QueueMoves RequestsSettle
CHECK_DEADLOCK FALSE
