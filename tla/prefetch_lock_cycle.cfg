\* One caller reads records, another asks for statistics.
SPECIFICATION Spec
CONSTANTS
  t1 = t1
  t2 = t2
  NoOne = NoOne
  Threads <- MCThreads
  Calls <- MCReadersAndStats
  InitialStrategy = "Adaptive"
  SmallFile = TRUE
  RecordCount = 3
  RecordsPerPage = 1
  PrefetchDepth = 2
  GapPages = 1
  MaxPages = 2
  SEQUENTIAL_THRESHOLD = 1
  RANDOM_THRESHOLD = 1
  MIN_OBSERVATIONS = 1
  UPGRADE_SEQUENTIAL_THRESHOLD = 2
  U32_MAX = 1000
  MaxCalls = 4
  MaxPauses = 0
INVARIANT NoLockCycle

