CONSTANTS
  Operators = {o1}
  MaxInstances = 2
  MaxTime = 1
  Faults = {"show"}
  None = None
SPECIFICATION Spec
INVARIANT DestructionConfirmed
CHECK_DEADLOCK FALSE
