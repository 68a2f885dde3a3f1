SPECIFICATION FairSpec
CONSTANTS
  MaxSeconds = 1
  SizeModulus = 3
  ReadLength = 2
  Fitted = {{"logic"}, {"radio"}}
  LogicChannels = 3
  MaxUnits = 2
  MaxStarts = 2
  MaxOpens = 1
  MaxUnplugs = 1
  RemovesRunning = FALSE
  StopsReplay = FALSE
INVARIANTS OneStreamPerFile HeaderIsWritten ReplayIsFaithful OnlyWantedIsRecorded
PROPERTIES FinishedIsKept ReplayEnds
CHECK_DEADLOCK FALSE
