CONSTANTS
  Steps = {1, 2}
  TensorSizes <- MCTensorSizes
  MaxOutstanding = 2
SPECIFICATION Spec
CHECK_DEADLOCK FALSE
INVARIANTS TypeOK OwnTensorUnlessRaced
PROPERTIES ImplementsPipe 
