SPECIFICATION FairSpec
CONSTANTS
  m1 = m1
  m2 = m2
  y1 = y1
  n1 = n1
  y2 = y2
  n2 = n2
  Market <- MCMarket
  Token <- MCToken
  Pair <- MCPair
  Legs = 2
  Opp <- AllOpps
  LiveModes = {TRUE, FALSE}
  MaxUnhedged = 3
  MergeDust = 2
  StoreMayFail = TRUE
INVARIANTS
  WriteAhead
  ReportIsTruth
  WithinMeans
  ReportAsAssumed
PROPERTIES
  Returns
