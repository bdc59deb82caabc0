SPECIFICATION StartupSpec
CONSTANTS
  a = a
  b = b
  c = c
  Condition <- MCCondition
  Event <- MCEvent
  Metrics <- MCMetrics
  Configs <- MCConfigs
  Favourable <- MCFavourable
  Followed <- MCFollowed
  MaxLaunches = 3
  MaxTrades = 2
INVARIANT
  NoPhantomAsk
PROPERTY
  Assembled
CHECK_DEADLOCK FALSE
