SPECIFICATION SysSpec
CONSTANTS
  QueueMax = 2
  SeqStart = 8
  MaxSeq = 13
  MaxBucket = 1
  MaxLives = 3
  MaxCrashes = 1
  SideSeq = 11
  SideLives = 2
  StoreMax = 2
  BatchMax = 2
  FlushEvery = 2
  MaxErrors = 1
  HistoryFiles = 2
  MaxConsoles = 2
  MaxExports = 2
INVARIANTS Accounted ReplayExact ReadersExact StoreExact
PROPERTY ReadersFollow
CHECK_DEADLOCK FALSE
