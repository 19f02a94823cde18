CONSTANTS
  N = 4
  Sizes = {2, 7}
  MaxFiles = 2
  MaxCrashes = 1
  CrashDuringFanout = FALSE
  MINIMAL_SIZE_FOR_SPLIT = 3
SPECIFICATION Spec
INVARIANTS
  StoredFilesReadable
CHECK_DEADLOCK FALSE
