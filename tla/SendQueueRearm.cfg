SPECIFICATION FairSpec
CONSTANTS
  Maxsize = 2
  Reserve = 1
  MaxPuts = 2
  Rearms = 1
PROPERTIES EveryCommandAnswered
CHECK_DEADLOCK FALSE
