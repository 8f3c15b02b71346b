SPECIFICATION Spec
CONSTANTS
  MaxStarts = 2
  ChanCap = 1
  PipeCap = 1
  MaxOut = 0
  MaxSend = 1
  ExitCodes = {259}
  NaturalEof = TRUE
  EofBeforeSignal = FALSE
  StartFailures = {"reader","writer"}
  Destroyers = {}
INVARIANTS ExitsBounded PtyOutlivesUsers ExitCodeTrue
CHECK_DEADLOCK FALSE
