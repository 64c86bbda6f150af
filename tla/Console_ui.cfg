SPECIFICATION FairSpec
CONSTANTS
  Tasks <- MCTasks
  MaxRuns = 2
  NoRun = NoRun
  NoTask = NoTask
  MaxCalls = 2
INVARIANTS TypeOK ShownLinesBelong
PROPERTY FollowEnds
CHECK_DEADLOCK FALSE
