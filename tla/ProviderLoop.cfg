SPECIFICATION FairSpec
CONSTANTS
  Runs = {r1}
  Others = {down}
  Shutdown = down
  MaxEmit = 3
  MaxQueue = 2
PROPERTIES StreamSpec SilentAfterResponse CloseReturns
CHECK_DEADLOCK FALSE
