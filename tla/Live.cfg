SPECIFICATION LiveSpec
CONSTANTS
  TProtect = 0
  TBackup = 1
  ExitTtl = 1
  MaxHold = 0
  MinInterval = 0
  TickSize = 1
  MinQty = 1
  MinNotional = 1
  BaseCost = 1
  Tp1 = 1
  Tp1Den = 2
  LockTrigger = 1
  LockOffset = 1
  TrailGap = 1
  TrailStep = 1
  Rules = {"R2"}
  EntryPrice = 10
  EntryStop = 8
  EntryQty = 2
  PendTtl = 3
  RecPeriod = 1
  MaxWait = 1
  MaxDelay = 1
  QMax = 3
  Reserve = 1
  UserModes = {"shadow", "active"}
  ReconcileModes <- MCReconcileModes
  MaxEntries = 2
  MaxFaults = 1
INVARIANT OneEntryAtATime
PROPERTIES ProtectionStands NakedIsLocked LeaseComesBack
CHECK_DEADLOCK FALSE
