SPECIFICATION Spec
CONSTANTS
  Size = 4
  Blk = 2
  MaxByte = 1
  MaxDraw = 3
  MaxFaults = 0
  Book <- MCBook
  Options <- MCOps2

INVARIANT
  Ops2PatternsFilled
