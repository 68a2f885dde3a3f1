CONSTANTS
  MaxStarts = 1
  MaxBuffers = 0
  MaxUnplugs = 1
  MaxEvents = 1
  StoredGainAuto = FALSE
  MaxSwitches = 0
  Patient = TRUE
SPECIFICATION FairSpec
PROPERTY StopFinishesDecoding
CHECK_DEADLOCK FALSE
