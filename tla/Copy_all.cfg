CONSTANTS
  a = a
  b = b
  Cond <- MCCond
  Key <- MCOneMarket
  PerPosition = 2
  Capital = 4
  MaxGross = 4
  MaxConcurrent = 2
  GrossPct = 50
  Equity = {}
  DailyLoss = 2
  StopLoss = 2
  MinShares = 2
  MissPrune = 2
  SweepMax = 1
  Face = 2
  ExitPx <- MCExitPx
  MayTimeout = TRUE
  MayDrop = {}
  MaxSignals = 1
  MaxRestarts = 1
  MayResolve <- MCMayResolve
SPECIFICATION FairSpec
PROPERTIES
  PhantomsPruned
CHECK_DEADLOCK FALSE
