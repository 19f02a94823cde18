CONSTANTS
  BUCKET = 4
  Sizes <- MCSizes
  MaxFollowed = 5
SPECIFICATION FairSpec
INVARIANTS
  TypeOK
  
  CompleteWhenDone
  MultiplesWait
PROPERTIES
  OthersEnd
CHECK_DEADLOCK FALSE
