SPECIFICATION FairSpec
CONSTANTS
  Symbols = {s1, s2}
  Cids = {c1, c2, c3}
  None = None
  MaxPositions = 1
  Ttl = 2
  Patience = 1
  MaxFills = 2
  Notices = {"done", "rest", "unknown"}
INVARIANT SlotsKept
PROPERTIES LockSpec SymbolFreed
CHECK_DEADLOCK FALSE
