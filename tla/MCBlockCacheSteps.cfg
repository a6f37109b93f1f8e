SPECIFICATION Spec
CONSTANTS
  Path = {p1}
  NBlocks = 3
  Handle = {h1}
  Reader = {r1}
  Prefetcher = {f1}
  Writer = {w1}
  Notifier = {n1}
  MetaTtl = 1
  Latency = 1
  Capacity = 2
  Budgets = {2}
  QueueMax = 1
  MaxWindow = 1
  CoarseStamps = TRUE
  Replaceable = TRUE
  MaxGen = 2
  MaxTime = 0
  MaxReads = 3
INVARIANTS
  TypeOK
  ReadYourWrites
  NoReadAfterRelease
CHECK_DEADLOCK FALSE
