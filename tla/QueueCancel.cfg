CONSTANTS
  Ops = {"o1", "o2", "o3"}
  Steps = {"s1", "s2"}
  Programs <- MCPrograms
  Capacity = 2
SPECIFICATION Spec
CHECK_DEADLOCK FALSE
INVARIANT CallbackLeavesManagerAlone
