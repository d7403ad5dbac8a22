SPECIFICATION FairSpec
CONSTANTS
  N = 2
  Named = FALSE
  Signals <- MCSignals
  ForkMayFail = TRUE
  WaitMayFail = FALSE
  MayStall = FALSE

PROPERTY
  ReturnsOnceChildrenHave
