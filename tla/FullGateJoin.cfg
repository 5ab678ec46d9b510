SPECIFICATION EditedSpec
CONSTANTS
  a = a  b = b  r1 = r1  r2 = r2  r3 = r3  None = None
CHECK_DEADLOCK FALSE
PROPERTY JoinIsForSameInputs
