SPECIFICATION UniverseSpec
CONSTANTS
  Dollar = 12
  BpsDen = 100
  Gas <- MCGas
  Redeem = "Merge"
  MaxBasis = 56
  MinProfit = 1
  FloorC12 = 3
  FloorC3 = 10
  MaxWorlds = 4
  Amounts <- MCAmounts
  Solved <- MCSolved
  Conditions <- MCConditions
  EventIds = {"E"}
  Scenarios <- MCScenarios
  Open <- MCOpen
  Usable <- MCUsable
  Unsteady <- MCUnsteady
  Priority <- MCPriority
  MaxPages = 2
  Concurrency = 2
  MaxPool = 3
  NegRiskSets = TRUE
  Fees <- MCFees
  Shapes <- MCShapes
INVARIANT
  Riskless
  FetchIsTheWalk
  LimitsStillPay
  BestSize
CHECK_DEADLOCK FALSE
