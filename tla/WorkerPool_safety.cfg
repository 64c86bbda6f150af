SPECIFICATION FairSpec
CONSTANTS
  j1 = j1  j2 = j2  j3 = j3  j4 = j4
  tA = tA  tB = tB  tC = tC
  NoJob = NoJob
  Jobs = {j1, j2, j3, j4}
  Tasks <- MCTasks
  TaskOf <- MCTaskOf
  Slots = 2
  ResultsCap = 2
INVARIANTS TypeOK SlotAccounting SlotBound WaitGroupCounts OneResultPerJob NoStaleActive SoloJobIsActive
PROPERTIES ShutdownWaits ImplementsService ShutdownReturns EveryJobHandled
CHECK_DEADLOCK FALSE
