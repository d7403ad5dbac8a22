SPECIFICATION RcFairSpec
CONSTANTS
  N = 3
  Named = TRUE
  Signals <- MCSignals
  ForkMayFail = TRUE
  WaitMayFail = TRUE
  MayStall = TRUE
INVARIANTS
  RcTypeOK
  WaitCountsReaped
  SuccessIsTrue
  NoProcessLeft
  BrokenDeviceStopsAll
  AutonukeWipesAllDisks
  LastPictureIsFinal
  SuccessToldIsTrue
  FailureToldIsTrue
PROPERTIES
  OutcomeIsTold
  ResultsAreFinal
  ImplementsWipeJob
