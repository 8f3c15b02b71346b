SPECIFICATION Spec
CONSTANTS
  Rows = 2
  WheelLines = 1
  MaxHist = 2
INVARIANTS TypeOK InfoTrue DragEnds ButtonsPaired
