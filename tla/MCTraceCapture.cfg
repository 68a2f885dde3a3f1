CONSTANTS
  Interval = 2
  BlockLength = 3
  RadioLevels <- MCRadioLevels
  DeltaModulus = 3
  SampleModulus = 4
  ChunkPoints = 2
  MaxCommands = 2
  SelectFrames = FALSE
  MaxBuffers = 2
  FrameRanges <- MCFrameRanges
SPECIFICATION Spec
INVARIANTS GapsFitByte PointsFitBuffer EdgesKept HeaderCountsBody CacheGapsFitByte LogicSaveAllCovers FileHoldsSelection
PROPERTY LoadYieldsFile
CHECK_DEADLOCK FALSE
