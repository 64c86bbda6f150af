SPECIFICATION Spec
CONSTANTS
  PerMinute = 1
  Lookback = 10
  Ids <- MCIds
  Configs <- Edited
  InitStates <- WithHistory
  RetryLimit = 1
  Slots = 2
  Outcomes = {"success", "failed"}
  Forcible = {}
  MayReload = TRUE
  MayCrash = TRUE
  MayPause = TRUE
  MaxNow = 3
  MaxBatches = 4
  MaxForced = 0
  Firings = {1}
INVARIANTS AttemptsCapped WindowFiresOnce DependentsFollowParents
PROPERTY RetrySpent
CHECK_DEADLOCK FALSE
