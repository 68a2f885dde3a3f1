CONSTANTS
  MaxStarts = 2
  MaxBuffers = 2
  MaxUnplugs = 0
  MaxEvents = 1
  StoredGainAuto = FALSE
  MaxSwitches = 2
  Patient = TRUE
SPECIFICATION FairSpec
INVARIANTS NoTailLost WindowTellsTruth NoOrphanSession
PROPERTIES ImplementsSession Answered FlushEnds
CHECK_DEADLOCK FALSE
