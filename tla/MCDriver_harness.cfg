CONSTANTS
  p1 = p1
  p2 = p2
  None = None
  Prompts <- MCPrompts
  Plans <- MCPlans
  EventsMax = 1
  PipeMax = 2
SPECIFICATION FairSpec
INVARIANTS TypeOK TurnSound InterruptSeesItsTurn HistoryBeforeEnd FreeBetweenTurns
PROPERTIES RefinesTurns TurnsEnd CallsReturn
CHECK_DEADLOCK FALSE
