SPECIFICATION Spec
CONSTANTS
  MaxSuffix = 1
  Writers = {p1, p2}
  MaxLines = 1
  LogMayFill = FALSE
  Diskettes <- MCDiskettes
INVARIANT
  SavedIsComplete
