CONSTANTS
  Nodes <- MCNodes
  Kind <- MCKind
  Edges <- MCEdges
  Loop <- MCLoop
  Invariant = {"c"}
  Parallel <- MCParallel
  MaxTrips = 3
  MayFail = {"b2"}
SPECIFICATION Spec
INVARIANTS
  FramesConsistent
  RunsAsMeant
PROPERTIES
  Finishes
CHECK_DEADLOCK FALSE
