SPECIFICATION FairSpec
CONSTANTS
  Loops = {"mm"}
  Modes <- LiveModes
  OppCap = 1
  JobCap = 1
  Workers = 1
  StoreCap = 1
  CtlCap = 1
  TuiCap = 1
  MayPanic = {"lp", "coord", "exec", "writer", "mm"}
  LateKeys = 1
  MaxKeys = 1
  MaxEpochs = 1
  OneFault = TRUE
INVARIANTS
  ConfirmedLive
  HealthTruth
  Drained
PROPERTIES
  Stops
CHECK_DEADLOCK FALSE
