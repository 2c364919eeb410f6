CONSTANTS
  i1 = i1
  i2 = i2
  Item = {i1, i2}
  Cell = {0, 1}
  NoCell = NoCell
  Length <- MCLength
  Persistent = {i1}
  SectorSize = 8
  Page = 2
  InitialSequence = 2
SPECIFICATION ResizeSpec
INVARIANT LengthAsPassed
CHECK_DEADLOCK FALSE
