SPECIFICATION Spec
CONSTANTS
  yes = yes
  Token <- MCToken
  Key <- MCKey
  TokenOf <- MCTokenOf
  SideOf <- MCSideOf
  Px = {1, 2}
  Size = {2}
  MaxOrders = 6
  LiveModes = {TRUE, FALSE}
  RewardFarm = FALSE
  PxBand = 0
  SizeBand = 1
  Cap = 2
  GrossCap = 2
  MinSell = 1
  Vetoable = {1}
  MaxFaults = 1
INVARIANTS
  NoOrphan
  InventoryTrue
  InventoryBounded
  StopsFlat
CHECK_DEADLOCK FALSE
