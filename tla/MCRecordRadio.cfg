SPECIFICATION Spec
CONSTANTS
  MaxSeconds = 1
  SizeModulus = 3
  ReadLength = 2
  Fitted = {{"logic"}, {"radio"}}
  LogicChannels = 3
  MaxUnits = 2
  MaxStarts = 2
  MaxOpens = 1
  MaxUnplugs = 1
  RemovesRunning = FALSE
  StopsReplay = FALSE
INVARIANT RecorderLives
CHECK_DEADLOCK FALSE
