SPECIFICATION UnsteadySpec
CONSTANTS
  None = None
INVARIANTS
  LateEditsAreFound
CHECK_DEADLOCK FALSE
