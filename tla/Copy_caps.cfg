CONSTANTS
  a = a
  b = b
  Cond <- MCCond
  Key <- MCKey
  PerPosition = 2
  Capital = 2
  MaxGross = 2
  MaxConcurrent = 2
  GrossPct = 50
  Equity <- LargeEquity
  DailyLoss = 1
  StopLoss = 1
  MinShares = 1
  MissPrune = 1
  SweepMax = 1
  Face = 2
  ExitPx <- MCExitPx
  MayTimeout = TRUE
  MayDrop = {"day"}
  MaxSignals = 2
  MaxRestarts = 1
  MayResolve = {}
SPECIFICATION Spec
CONSTRAINT Lagging
INVARIANTS
  OneSide
  CapsHold

  
CHECK_DEADLOCK FALSE
