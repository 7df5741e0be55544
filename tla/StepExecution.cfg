CONSTANTS
  w1 = w1  w2 = w2  u1 = u1  u2 = u2  u3 = u3  k1 = k1  k2 = k2  f = f
  Order <- MCOrder
  Units <- MCUnits
  WorkerOf <- MCWorkerOf
  Keys <- MCKeys
  Fetches = {f}
  Src <- MCSrc
  Dst <- MCDst
  Needs <- MCNeeds
  Blocking = {u1}
  Fed = {w1}
  MayMiss = {w1}
SPECIFICATION Spec
INVARIANTS
  
  
  NoSpuriousAbort
PROPERTIES
  StepEnds
  
CHECK_DEADLOCK FALSE
