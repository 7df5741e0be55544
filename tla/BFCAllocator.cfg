CONSTANTS
  Clients = {c1, c2, c3}
  NoRetry = {c2, c3}
  RequestSizes = {300, 1100}
  MemoryLimit = 3100
  FirstAllocation = 1100
  DeviceMemory = {1024, 2816, 3328}
  MinAllocationSize = 256
  NumBins = 3
SPECIFICATION Spec
CHECK_DEADLOCK FALSE
INVARIANTS
  MemoryIsExclusive
  HeapConsistent
PROPERTIES
  BestFit
  CallsReturnUnlessSpinning
