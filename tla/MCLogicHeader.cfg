SPECIFICATION Spec
CONSTANTS
  Transfers = 2
  MaxBuffers = 2
  Rests = {FALSE}
  MaxStarts = 1
  MaxEvents = 0
  Waits = TRUE
  StopsPaused = FALSE
INVARIANT RunningStaysConnected
CHECK_DEADLOCK FALSE
