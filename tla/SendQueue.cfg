SPECIFICATION FairSpec
CONSTANTS
  Maxsize = 2
  Reserve = 1
  MaxPuts = 3
  Rearms = 1
INVARIANTS Orderly NothingLeftBehind
PROPERTIES ReserveRule AnsweredWhileAlive
CHECK_DEADLOCK FALSE
