SPECIFICATION FairSpec
CONSTANTS
  PipeCap = 1
  ChanCap = 2
  MaxPrompt = 2
  MaxLines = 1
PROPERTY HardTimeout
CHECK_DEADLOCK FALSE
