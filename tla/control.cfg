SPECIFICATION FairSpec
CONSTANTS
  MaxSessions = 2
  MaxChanges = 2
  Titles = {"new"}
  HostCalls = {"start", "stop", "window", "free", "scroll"}
  OnExitCalls = {"none", "restart"}
INVARIANTS TypeOK FrameAnnounced NothingLeftBehind ActiveTells
PROPERTIES CallsReturn ExitHeard TitleFollows ScreenFollows UsesContract
CHECK_DEADLOCK FALSE
