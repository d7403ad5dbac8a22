SPECIFICATION FairSpec
CONSTANTS
  Size = 5
  Blk = 2
  MaxByte = 1
  MaxDraw = 3
  MaxFaults = 2
  Book <- MCBook
  Options <- MCSound
INVARIANTS
  TypeOK
  PassWritesPattern
  SuccessMeansFinalPattern
  VerifyAllCatchesLoss
  PromisedOverwrites
  FlushedAtExit
  GutmannUsesBookOnce
PROPERTIES
  WipeEnds
  ImplementsWipeProcess
