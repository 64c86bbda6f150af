SPECIFICATION Spec
CONSTANTS
  Callers = {scheduler, watcher}
  Boot = boot
  Nobody = nobody
  InitFiles <- MCInitFiles
  MayLosePower = TRUE
  MaxUpdates = 3
INVARIANTS TypeOK NeverTorn AckedSurvive
PROPERTY ImplementsAtomicStore
CHECK_DEADLOCK FALSE
