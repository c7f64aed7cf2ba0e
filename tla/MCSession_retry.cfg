\* Expected to fail: a failed startup is retried while an attempt is wound up.
SPECIFICATION Spec
CONSTANTS
  Prompts = {}
  Interrupts = {}
  Stops = {}
  Resumes = {m1, m2, m3}
  Cancels = {}
  Compacts = {}
  Sleeps = {}
  Closes = {}
  Start = start
  None = none
  MaxRequests = 4
  MaxHarnesses = 4
  MaxRestarts = 1
  MaxFaults = 2
  MayIdle = FALSE
  MayFill = FALSE
  MayStall = FALSE
  MayFork = FALSE
INVARIANTS CleanBeforeRetry
CHECK_DEADLOCK FALSE
