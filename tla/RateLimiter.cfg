SPECIFICATION RateSpec
CONSTANTS
  Span10 = 0
  Span1m = 1
  Limit10 = 2
  Limit1m = 2
  OrderReserve = 1
  RetryAfter = {0}
  MaxWait = 1
  MaxQueue = 1
  MaxRepairs = 1
INVARIANTS WindowHolds ReserveLeft RoomKept
CHECK_DEADLOCK FALSE
