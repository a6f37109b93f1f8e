SPECIFICATION FairSpec
CONSTANTS
  Conn = {c1, c2}
  Caller = {t1, t2}
  Used = {c1}
  UpMax = 1
  DownMax = 1
  MaxCalls = 2
  MaxNews = 1
INVARIANTS
  TypeOK
  AllOrNothing
  RecordsOpen
  NoCallIsMissed
PROPERTIES
  Contract
  CallsReturn
CHECK_DEADLOCK FALSE
