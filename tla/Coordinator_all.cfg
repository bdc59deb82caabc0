SPECIFICATION FairSpec
CONSTANTS
  m1 = m1
  m2 = m2
  s1 = s1
  s2 = s2
  Market <- MCMarket
  Shape <- MCShape
  Opp <- AllOpps
  Leftover <- FewLeftover
  NoOpp = NoOpp
  NoNet = NoNet
  NoCap = NoCap
  SessionLossCap = 1
  Bankroll = 4
  PerMarketCap = 3
  MaxUnhedged = 2
  MaxOpenOrders = 3
  MaxBasketLegs = 2
  DrawdownLimit = 2
  ErrorHaltCount = 1
  RestartStormCount = 3
  ImprovementPct = 50
  Live = TRUE
  ReleasedAtStart = FALSE
  BasketCap = 2
  Overrun = 1
  OrderErrors = {0}
  Equity <- FallingEquity
  SessionStarts = {1, 3}
  Watched = s1
  OppCap = 2
  ExecMayPanic = TRUE
INVARIANTS
  ExposureAccounted
  ExposureBounded
  HaltLogged
  CleanEnd
PROPERTIES
  SessionEnds
  KillTrips
  RepeatsImprove
  ImplementsExposure
