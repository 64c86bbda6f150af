SPECIFICATION FairSpec
CONSTANTS
  PerMinute = 1
  Lookback = 10
  Ids <- MCIds
  Configs <- Either
  InitStates <- WithHistory
  RetryLimit = 1
  Slots = 2
  Outcomes = {"success", "failed", "fatal"}
  Forcible = {"s"}
  MayReload = FALSE
  MayCrash = FALSE
  MayPause = FALSE
  MaxNow = 3
  MaxBatches = 8
  MaxForced = 1
  Firings = {1}
PROPERTIES RetryHappens ComesToRest
CHECK_DEADLOCK FALSE
