CONSTANTS
  MaxRuns = 2
SPECIFICATION FairSpec
CHECK_DEADLOCK FALSE
INVARIANTS NoForgottenSession ScreenAgrees
PROPERTIES KeepsLife SessionsEnd StopIsSeen LossIsReported
