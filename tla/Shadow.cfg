SPECIFICATION ShadowSpec
CONSTANTS
  Runs = {f1, f2, s1, s2}
  ModeOf <- ModesShadow
  Tests = {x, y}
  Paths = {a, b, ta, tb}
  FileOf <- FilesXY
  Groups <- GroupsAB
  Always = {}
  NoTests = {}
  FullTriggers = {}
  RatioNum = 7
  RatioDen = 10
  Trees <- PolicyTrees
  MaxEdits = 3
  Summaries = 4
  WholeGate = WholeGate
  None = None
  StartTree <- Clean
  EditsTo <- Corrected
  Observable <- OneFails
  ReportKinds = {"whole"}
  f1 = f1  f2 = f2  a1 = a1  c1 = c1  s1 = s1  s2 = s2
  x = x  y = y  a = a  b = b  ta = ta  tb = tb
  p1 = p1  p2 = p2  g1 = g1  r1 = r1
  Publishers = {p1, p2, g1}
  FullGates = {g1}
  Shadows = {p2}
  Readers = {r1}
  Settings <- Stores
SYMMETRY Interchangeable
INVARIANTS
  TypeOK
  ShadowComparesPlannedSource
  SelectionMissesNothing
PROPERTIES
  QuarantineStands
  OverlapClearsNothing
CHECK_DEADLOCK FALSE
