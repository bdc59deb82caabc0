SPECIFICATION LedgerSpec
CONSTANTS
  Yes = "yes"
  No = "no"
  Share = 3
  Sizes <- MCSizes
  Prices <- MCPrices
  QueueCap = 2
  MaxRows = 4
INVARIANT
  BooksBalance
  StoreFollows
  NoOversell
CHECK_DEADLOCK FALSE
