CONSTANTS
  N = 5
  Sizes = {2, 7}
  MaxFiles = 2
  MaxCrashes = 1
  CrashDuringFanout = TRUE
  MINIMAL_SIZE_FOR_SPLIT = 3
SPECIFICATION Spec
INVARIANTS
  EmptySlotsAreNotFiled
CHECK_DEADLOCK FALSE
