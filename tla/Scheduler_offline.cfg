SPECIFICATION Spec
CONSTANTS
  PerMinute = 1
  Lookback = 10
  Ids <- MCIds
  Configs <- NetFlow
  InitStates <- WithHistory
  RetryLimit = 1
  Slots = 2
  Outcomes = {"success", "failed"}
  Forcible = {}
  MayReload = FALSE
  MayCrash = FALSE
  MayPause = FALSE
  MaxNow = 2
  MaxBatches = 4
  MaxForced = 0
  Firings = {1}
INVARIANT FlowsCaughtUp
CHECK_DEADLOCK FALSE
