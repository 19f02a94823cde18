CONSTANTS
  N = 4
  MaxCrashes = 0
  BootCrashes = FALSE
  MaxClients = 0
  MaxCallers = 0
  Coalescing = TRUE
  WORD = 100
SPECIFICATION FairSpec
PROPERTIES
  RingForms
CHECK_DEADLOCK FALSE
