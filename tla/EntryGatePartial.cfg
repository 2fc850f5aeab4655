SPECIFICATION Spec
CONSTANTS
  Symbols = {s1}
  Cids = {c1, c2}
  None = None
  MaxPositions = 2
  Ttl = 2
  Patience = 1
  MaxFills = 2
  Notices = {}
INVARIANT QuantityTracked
CHECK_DEADLOCK FALSE
