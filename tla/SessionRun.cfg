SPECIFICATION FairSpec
CONSTANTS
  PipeCap = 1
  ChanCap = 2
  MaxPrompt = 2
  MaxLines = 2
INVARIANTS
  FinishedIsLast
  WholeOutput
  NoOrphan
  Terminable
PROPERTIES
  KillReaches
  Answered
CHECK_DEADLOCK FALSE
