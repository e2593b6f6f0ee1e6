SPECIFICATION FairSpec
CONSTANTS
  MaxMsg = 5
  ChunkSize = 2
  PageSize = 3
INVARIANTS
  NoneMissed
PROPERTIES
  IsOneLook
  ScanEnds
CHECK_DEADLOCK FALSE
