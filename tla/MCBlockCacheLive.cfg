SPECIFICATION FairSpec
CONSTANTS
  Path = {p1}
  NBlocks = 3
  Handle = {h1}
  Reader = {r1}
  Prefetcher = {f1, f2}
  Writer = {}
  Notifier = {}
  MetaTtl = 1
  Latency = 1
  Capacity = 4
  Budgets = {}
  QueueMax = 1
  MaxWindow = 2
  CoarseStamps = TRUE
  Replaceable = FALSE
  MaxGen = 2
  MaxTime = 0
  MaxReads = 3
INVARIANTS
  SingleFetch
PROPERTIES
  CallsReturn
CHECK_DEADLOCK FALSE
