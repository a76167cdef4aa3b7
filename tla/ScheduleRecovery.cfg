SPECIFICATION FairSpec
CONSTANTS
  Runner = {w1, w2}
  Nobody = nobody
  NoOrigin = noOrigin
  Interval = 2
  LeaseLength = 1
  Lag = 1
  MaxBackfill = 2
  StartedFrom = noOrigin
  MaxClock = 7
  MaxFailure = 1
  MaxCrash = 1
  LastCrash = 3
PROPERTIES
  KeepsDuty
  WindowsSettle
CHECK_DEADLOCK FALSE
