SPECIFICATION Spec
CONSTANTS
  MaxSessions = 2
  MaxChanges = 1
  Titles = {}
  HostCalls = {"start", "restart"}
  OnExitCalls = {"none"}
INVARIANT ActiveTells
CHECK_DEADLOCK FALSE
