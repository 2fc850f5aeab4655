SPECIFICATION SupSpec
CONSTANTS
  Keys = {"A", "B"}
  Apply = {TRUE, FALSE}
  MaxWrites = 1
  MaxTrades = 1
  MaxFaults = 1
INVARIANT LockTrue
PROPERTIES HandsOff VerdictReachesLock
CHECK_DEADLOCK FALSE
