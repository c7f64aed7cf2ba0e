\* What is asked for is answered: three of any commands, background jobs, a disk that fills, no lost call.
SPECIFICATION FairSpec
CONSTANTS
  Prompts = {p1, p2}
  Interrupts = {i1}
  Stops = {t1}
  Resumes = {}
  Cancels = {}
  Compacts = {k1}
  Sleeps = {z1}
  Closes = {x1}
  Start = start
  None = none
  MaxRequests = 4
  MaxHarnesses = 2
  MaxRestarts = 0
  MaxFaults = 0
  MayIdle = FALSE
  MayFill = TRUE
  MayStall = FALSE
  MayFork = TRUE
PROPERTIES QueueMoves RequestsSettle
CHECK_DEADLOCK FALSE
