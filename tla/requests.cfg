CONSTANTS
  N = 3
  Client = {1, 2}
  Leaving = {2}
  MINIMAL_SIZE_FOR_SPLIT = 3
  Known = "old"
  Size <- MCSize
  Short = {"old"}
  RECV = 7
  PRESENTATION = 1
  CREATION = 2
SPECIFICATION FairSpec
INVARIANTS
  TypeOK
  CyclesThroughIndex
  ReadsAreWhole
  StoredWhole
  StraysNeedOverlap
PROPERTY
  LoneRequestsEnd
CHECK_DEADLOCK FALSE
