SPECIFICATION Spec
CONSTANTS
  MaxStarts = 1
  ChanCap = 4
  PipeCap = 1
  MaxOut = 0
  MaxSend = 0
  ExitCodes = {0, 7}
  NaturalEof = TRUE
  EofBeforeSignal = TRUE
  StartFailures = {}
  Destroyers = {"ui"}
INVARIANT ExitCodeTrue
CHECK_DEADLOCK FALSE
