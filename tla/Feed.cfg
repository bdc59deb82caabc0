SPECIFICATION FairSpec
CONSTANTS
  t1 = t1
  t2 = t2
  Token <- MCToken
  Levels = 4
  OffTick = {9}
  VenueBook <- TwoTokens
  CrossedBook <- Crossing
  OffTickThreshold = 2
  WireCap = 1
  MaxFaults = 1
  One = 24
  Unit = 6
  Bp = 1
  ShareGrain = 2
  CashGrain = 1
  MinOrder = 8
  Nets <- MCNets
  Caps <- MCCaps
  Spreads <- MCSpreads
  Skews <- MCSkews
  Bands <- MCBands
  Depths <- MCDepths
  LeastDepth = 2
  Slips <- MCSlips
INVARIANTS
  NothingLost
  PostOnly
PROPERTIES
  Recovers
