SPECIFICATION UnsteadySpec
CONSTANTS
  None = None
INVARIANTS
  ForgottenTestsRun
CHECK_DEADLOCK FALSE
