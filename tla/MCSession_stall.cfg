\* Expected to fail: a sample expires while a turn ends.
SPECIFICATION FairSpec
CONSTANTS
  Prompts = {p1, p2}
  Interrupts = {}
  Stops = {}
  Resumes = {}
  Cancels = {}
  Compacts = {}
  Sleeps = {}
  Closes = {}
  Start = start
  None = none
  MaxRequests = 3
  MaxHarnesses = 1
  MaxRestarts = 0
  MaxFaults = 0
  MayIdle = FALSE
  MayFill = FALSE
  MayStall = TRUE
  MayFork = FALSE
PROPERTIES QueueMoves
CHECK_DEADLOCK FALSE
