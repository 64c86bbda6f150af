SPECIFICATION Spec
CONSTANTS
  PerMinute = 1
  Lookback = 10
  Ids <- MCIds
  Configs <- JustAlone
  InitStates <- WithHistory
  RetryLimit = 1
  Slots = 2
  Outcomes = {"success", "failed"}
  Forcible = {}
  MayReload = FALSE
  MayCrash = TRUE
  MayPause = FALSE
  MaxNow = 2
  MaxBatches = 4
  MaxForced = 0
  Firings = {1}
INVARIANT CaughtUp
CHECK_DEADLOCK FALSE
