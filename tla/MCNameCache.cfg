SPECIFICATION Spec
CONSTANTS
  Name <- Share
  Dir <- Folders
  Thread = {t1}
  Notifier = {n1}
  MetaTtl = 0
  NegTtl = 0
  DirTtl = 0
  MetaMax = 1
  NegMax = 1
  DirMax = 1
  Latency = 0
  MaxVer = 2
  MaxChanges = 1
  MaxTime = 1
INVARIANTS
  OwnChangesSeen
  TypeOK
  NamesHeal
CHECK_DEADLOCK FALSE
