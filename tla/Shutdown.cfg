CONSTANTS
    Ps = {p1, p2}
    Worker = {w1, w2}
    Spare = {x1}
    Spread = TRUE
    MaxCrashes = 1
    TaskMaxFailures = 2
SPECIFICATION FairSpec
INVARIANTS
  StoppedInOrder
  WorkersFinishFirstIfNoneFails
PROPERTIES
  ShutdownEnds
CHECK_DEADLOCK FALSE
