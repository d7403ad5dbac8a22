SPECIFICATION Spec
CONSTANTS
  MaxSuffix = 1
  Writers = {p1, p2}
  MaxLines = 1
  LogMayFill = TRUE
  Diskettes <- MCDiskettes
INVARIANTS
  TypeOK
  SavedUnlessFailed
  NoLineLost
PROPERTY
  ArchivesAreKept
