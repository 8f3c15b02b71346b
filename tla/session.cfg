SPECIFICATION FairSpec
CONSTANTS
  MaxStarts = 1
  ChanCap = 1
  PipeCap = 1
  MaxOut = 1
  MaxSend = 1
  ExitCodes = {259}
  NaturalEof = TRUE
  EofBeforeSignal = TRUE
  StartFailures = {"pty"}
  Destroyers = {"ui", "pump"}
INVARIANT TypeOK
INVARIANTS OnceEach NoCallbackAfterFree ReapedWhenFreed LastFrameComplete
PROPERTIES DestroyReturns ExitTold OutputShown KeepsContract
CHECK_DEADLOCK FALSE
