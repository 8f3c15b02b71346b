SPECIFICATION FairSpec
CONSTANTS
  MaxStarts = 1
  ChanCap = 4
  PipeCap = 1
  MaxOut = 0
  MaxSend = 0
  ExitCodes = {0, 7}
  NaturalEof = FALSE
  EofBeforeSignal = TRUE
  StartFailures = {}
  Destroyers = {"watcher"}
PROPERTY DestroyReturns
CHECK_DEADLOCK FALSE
