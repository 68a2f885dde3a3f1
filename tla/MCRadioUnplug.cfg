CONSTANTS
  MaxStarts = 1
  MaxBuffers = 2
  MaxUnplugs = 1
  MaxEvents = 1
  StoredGainAuto = FALSE
  MaxSwitches = 0
  Patient = TRUE
SPECIFICATION FairSpec
INVARIANT WindowTellsTruth
PROPERTIES ImplementsSession RemovalEndsSession
CHECK_DEADLOCK FALSE
