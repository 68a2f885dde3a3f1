SPECIFICATION FairSpec
CONSTANTS
  Transfers = 2
  MaxBuffers = 2
  Rests = {TRUE, FALSE}
  MaxStarts = 1
  MaxEvents = 1
  Waits = TRUE
  StopsPaused = FALSE
INVARIANTS HeaderErrorPasses WindowTellsTruth
PROPERTIES ImplementsSession TransfersReturn StopEndsSession RemovalEndsSession
CHECK_DEADLOCK FALSE
