SPECIFICATION Spec
CONSTANTS
  Path = {p1}
  NBlocks = 1
  Handle = {h1}
  Reader = {r1, r2}
  Prefetcher = {}
  Writer = {}
  Notifier = {}
  MetaTtl = 1
  Latency = 1
  Capacity = 1
  Budgets = {1}
  QueueMax = 1
  MaxWindow = 1
  CoarseStamps = FALSE
  Replaceable = FALSE
  MaxGen = 2
  MaxTime = 5
  MaxReads = 3
SYMMETRY Symmetric
INVARIANTS
  BoundedStaleness
CHECK_DEADLOCK FALSE
