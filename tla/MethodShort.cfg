SPECIFICATION Spec
CONSTANTS
  Size = 4
  Blk = 2
  MaxByte = 1
  MaxDraw = 3
  MaxFaults = 1
  Book <- MCBook
  Options <- MCShort

INVARIANT
  ShortTransferIsNonFatal
