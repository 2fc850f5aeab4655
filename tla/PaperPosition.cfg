SPECIFICATION FairSpec
CONSTANTS
  TProtect = 1
  TBackup = 1
  ExitTtl = 1
  MaxHold = 1
  MinInterval = 1
  TickSize = 2
  MinQty = 1
  MinNotional = 1
  BaseCost = 1
  Tp1 = 1
  Tp1Den = 2
  LockTrigger = 1
  LockOffset = 1
  TrailGap = 2
  TrailStep = 1
  Rules = {"R2", "R3", "trail", "R4", "R5"}
  EntryPrice = 10
  EntryQtys = {2}
  EntryStop = 9
  Marks = {9, 15}
  Modes = {"FULL", "PROTECTION_ONLY"}
  FundingRates <- Received
  MaxFunding = 5
  MaxVersion = 3
INVARIANTS NeverNaked OneExit
PROPERTIES StopNeverLoosens ExitCompletes
CHECK_DEADLOCK FALSE
