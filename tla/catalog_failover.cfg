CONSTANTS
  N = 5
  Sizes = {2, 4, 7}
  MaxFiles = 3
  MaxCrashes = 1
  CrashDuringFanout = TRUE
  MINIMAL_SIZE_FOR_SPLIT = 3
SPECIFICATION Spec
INVARIANTS
  TypeOK
  PointersAreBacked
  CopiesApart
  StoredFilesReadable
  NothingForgotten
  IdsUnique
  OneContainerPerFile
PROPERTY
  ImplementsStore
CHECK_DEADLOCK FALSE
