SPECIFICATION FairSpec
CONSTANTS
  Daemons <- MCDaemons
  Content <- MCContent
  Empty = "empty"
  Half = "half"
  Unparsable = Unparsable
  Unset = Unset
  NoDoc = NoDoc
  NoFile = NoFile
  StaleFile = StaleFile
  MaxStarts = 2
  MaxWrites = 2
INVARIANTS TypeOK InForceIsSound OneDaemonServes
PROPERTIES StopEnds EditTakesEffect
CHECK_DEADLOCK FALSE
