CONSTANTS
  N = 3
  Client = {1, 2}
  Leaving = {}
  MINIMAL_SIZE_FOR_SPLIT = 3
  Known = "old"
  Size <- MCSize
  Short = {"old"}
  RECV = 7
  PRESENTATION = 1
  CREATION = 2
SPECIFICATION Spec
INVARIANTS
  NoCircularWait
CHECK_DEADLOCK FALSE
