CONSTANTS
  N = 5
  MaxCrashes = 1
  BootCrashes = FALSE
  MaxClients = 0
  MaxCallers = 0
  Coalescing = FALSE
  WORD = 100
SPECIFICATION FairSpec
PROPERTIES
  RingForms
  DeathIsLearned
  SuccessorElected
CHECK_DEADLOCK FALSE
