SPECIFICATION Spec
CONSTANTS
  a = a  b = b  NoRun = NoRun  r1 = r1  r2 = r2   None = None
PROPERTIES
  EveryTicketAnswered
  EveryRunAnswered
  WaitersLeave
CHECK_DEADLOCK FALSE
