SPECIFICATION Spec
CONSTANTS
  Procs = {shell, tool, gui}
  Shell = shell
INVARIANTS TypeOK LeaksBounded ClosesItsOwn TreeInJob
PROPERTIES TreeEnds ReaderReleased
CHECK_DEADLOCK FALSE
