SPECIFICATION FairSpec
CONSTANTS
  s1 = s1
  s2 = s2
  Stream = {s1, s2}
  Stalled = {s2}
  QueueMax = 1
  MaxRequests = 1
INVARIANTS
  NoDangling
  NewestKept
PROPERTIES
  NewestHeard
  NobodyBlocked
CHECK_DEADLOCK FALSE
