SPECIFICATION FairSpec
CONSTANTS
  Thread <- Mount
  FirstId <- Ids
  Path = {"f"}
  Size = 2
  MaxCalls = 2
  Faults = 1
INVARIANTS
  TypeOK
  KeepsWrites
  Saved
  CallsKept
PROPERTIES
  CallsEnd
CHECK_DEADLOCK FALSE
