SPECIFICATION Spec
CONSTANTS
  Cap = 14
  Pieces <- MCPieces
  MaxPieces = 3
INVARIANTS TypeOK CwdTrue PathTrue ReadsWhole
CHECK_DEADLOCK FALSE
