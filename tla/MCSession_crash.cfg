\* Prompts, retries, sleep and close under faults, idle time and a restart.
SPECIFICATION Spec
CONSTANTS
  Prompts = {p1, p2}
  Interrupts = {}
  Stops = {}
  Resumes = {m1}
  Cancels = {}
  Compacts = {}
  Sleeps = {z1}
  Closes = {x1}
  Start = start
  None = none
  MaxRequests = 3
  MaxHarnesses = 3
  MaxRestarts = 1
  MaxFaults = 2
  MayIdle = TRUE
  MayFill = FALSE
  MayStall = FALSE
  MayFork = FALSE
INVARIANTS TypeOK AtMostOnce InOrder QueueSound OneHarness
PROPERTIES RefinesPromptLedger
CHECK_DEADLOCK FALSE
