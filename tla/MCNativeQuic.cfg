SPECIFICATION FairSpec
CONSTANTS
  Id = {0}
  MaxWrite <- Amounts
  ReadMax = 2
  Chunk = 1
  Faults = 1
INVARIANTS
  TypeOK
PROPERTIES
  Pipes
  ReadsEnd
  Arrive
CHECK_DEADLOCK FALSE
