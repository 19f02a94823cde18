CONSTANTS
  N = 5
  MaxCrashes = 2
  BootCrashes = TRUE
  MaxClients = 0
  MaxCallers = 0
  Coalescing = TRUE
  WORD = 100
SPECIFICATION Spec
INVARIANTS
  TypeOK
  AtMostOneIndex
  SkipsOnlyTheDead
  NoticesAreTrue
  DeathsCountedOnce
  GossipStops
  IndexKnowsFollowers
  PreviousPeerWasIndex
  ReportsFitTable
CHECK_DEADLOCK FALSE
