SPECIFICATION GateSpec
CONSTANTS
  MaxKeys = 3
  Console = {"console", "operator"}
  Trips = {"trader"}
  Posts = {p1, p2}
  MaxResets = 2
  MaxRestarts = 1
  Orders = {o1}
  Algos = {a1}
  MaxTrades = 2
  Ttl = 1
  Repeats = 1
  Reorders = TRUE
INVARIANTS BeliefsTrue OrdersOnce
PROPERTIES ConnectionsHeal StopEnds FlagFollowsFile SwitchKept NeverBackwards EndIsSeen
CHECK_DEADLOCK FALSE
