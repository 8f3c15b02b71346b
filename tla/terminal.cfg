SPECIFICATION Spec
CONSTANTS
  a = a
  b = b
  u = u
  v = v
  Blank = blank
  NoUri = noUri
  Rows = 3
  Scrollback = 1
  Outputs <- MCOutputs
  Narrow <- MCNarrow
  Hash <- MCHash
  MaxWrites = 3
  MaxOps = 3
INVARIANTS TypeOK FrameCurrent PatchedTrue SearchTrue
CHECK_DEADLOCK FALSE
