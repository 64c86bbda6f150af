SPECIFICATION Spec
CONSTANTS
  PerMinute = 1
  Lookback = 10
  Ids <- MCIds
  Configs <- NetBoth
  InitStates <- WithHistory
  RetryLimit = 1
  Slots = 2
  Outcomes = {"success", "failed"}
  Forcible = {"a"}
  MayReload = FALSE
  MayCrash = FALSE
  MayPause = FALSE
  MaxNow = 3
  MaxBatches = 4
  MaxForced = 1
  Firings = {1, 3}
INVARIANTS TypeOK WindowFiresOnce AttemptMadeOnce DependentsFollowParents RetryFollowsFailure CaughtUp
CHECK_DEADLOCK FALSE
