CONSTANTS
  N = 4
  MaxCrashes = 1
  BootCrashes = FALSE
  MaxClients = 0
  MaxCallers = 0
  Coalescing = FALSE
  WORD = 100
SPECIFICATION FairSpec
PROPERTIES
  RingHeals
CHECK_DEADLOCK FALSE
