CONSTANTS
    NumExecutors = 3
    NumPs = 1
    Executor = {e1, e2, e3}
    Slot = {s1}
    InputModes <- MCInputModes
    TaskMaxFailures = 3
    MaxCrashes <- MCMaxCrashes
SPECIFICATION FairSpec
INVARIANTS
  ManagerIsSingletonIfNoneFails
  
  
PROPERTIES
  ClusterStartsUnlessFailure
CHECK_DEADLOCK FALSE
