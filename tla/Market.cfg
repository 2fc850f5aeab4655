SPECIFICATION AllSpec
CONSTANTS
  Levels = 2
  Widths = {1, 2}
  MaxId = 6
  MaxLost = 1
  MaxSnaps = 2
  Limit <- MCLimit
  CheckEvery = 2
  TickEvery = 1
  BarLen = 2
  WarmUp = 1
  MaxAge = 1
  Ttl = 3
  MaxTime = 6
  MaxLate = 1
  Samples <- MCSamples
  Window = 3
  MaxOrders = 2
  MaxRej = 2
  Jitter = 1
  MaxBack = 2
  MaxSeen <- MCMaxSeen
  W = 2
  NShort = 1
  NLong = 1
  PLo = 20
  PHi = 80
  Span = 2
  MaxHold = 3
  Horizons = {1, 2}
  MaxBars <- MCMaxBars
  Assets = {c1, c2, c3}
  Notional = 4
  GrossCap = 7
  Slots = 2
  Quotes = {1, 2}
INVARIANTS RiskSound MonitorsExact BacktestExact GrossKept
PROPERTIES BookFollows ActsOnFresh
CHECK_DEADLOCK FALSE
