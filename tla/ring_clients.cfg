CONSTANTS
  N = 3
  MaxCrashes = 1
  BootCrashes = TRUE
  MaxClients = 2
  MaxCallers = 1
  Coalescing = TRUE
  WORD = 100
SPECIFICATION Spec
INVARIANTS
  OperatingRingIsWhole
  ElectionHasBothPeers
CHECK_DEADLOCK FALSE
