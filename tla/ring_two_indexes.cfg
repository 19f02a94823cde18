CONSTANTS
  N = 3
  MaxCrashes = 1
  BootCrashes = FALSE
  MaxClients = 0
  MaxCallers = 0
  Coalescing = TRUE
  WORD = 100
SPECIFICATION Spec
INVARIANTS
  AtMostOneIndex
CHECK_DEADLOCK FALSE
