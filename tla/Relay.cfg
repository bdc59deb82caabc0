SPECIFICATION FairSpec
CONSTANTS
  Yes = "yes"
  No = "no"
  MaxFills = 3
  MaxFaults = 2
INVARIANT
  NothingForgotten
  NeverOvercredited
PROPERTY
  WinnerCollected
CHECK_DEADLOCK FALSE
