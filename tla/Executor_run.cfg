SPECIFICATION FairSpec
CONSTANT PipeCap = 2
INVARIANTS TypeOK StatusTellsWhy ResultIsFinal FailureSeen
PROPERTY RunReturns
CHECK_DEADLOCK FALSE
