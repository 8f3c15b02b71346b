SPECIFICATION Spec
CONSTANTS
  MaxSessions = 2
  MaxChanges = 1
  Titles = {}
  HostCalls = {"start", "startAgain", "free"}
  OnExitCalls = {"none"}
INVARIANT NothingLeftBehind
CHECK_DEADLOCK FALSE
