SPECIFICATION FairSpec
CONSTANTS
  Share = {1}
  Attempts = 1
  Conn = {1, 2}
  Kind = {"quic", "tcp"}
INVARIANTS
  NothingLeftBehind
  MountHasClient
PROPERTIES
  EjectHitsItsOwn
  
  EjectNoticed
CHECK_DEADLOCK FALSE
