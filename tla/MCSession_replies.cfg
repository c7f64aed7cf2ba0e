\* Expected to fail: the reply to an interrupt or a compaction, or the harness, is lost.
SPECIFICATION FairSpec
CONSTANTS
  Prompts = {p1}
  Interrupts = {i1}
  Stops = {}
  Resumes = {}
  Cancels = {}
  Compacts = {k1}
  Sleeps = {}
  Closes = {}
  Start = start
  None = none
  MaxRequests = 4
  MaxHarnesses = 2
  MaxRestarts = 0
  MaxFaults = 1
  MayIdle = FALSE
  MayFill = FALSE
  MayStall = FALSE
  MayFork = FALSE
PROPERTIES EventsOwnProgress
CHECK_DEADLOCK FALSE
