SPECIFICATION DeletingSpec
CONSTANTS
  lib = lib  ta = ta  tb = tb  terminal = terminal  None = None
  Gateways = {w0, w1}  gw0 = w0  Grants <- FullAndScoped
  Openers = {p, q, r}
  Sources = {lib, ta, tb}  Cases = {ta, tb}  Imports <- OneImport  Corner = {tb}
  Large = {tb}  MaxFailed = 1  MaxGreenFiles = 2
  MaxCommits = 2  MaxEdits = 3
INVARIANTS
  DeletionsAreFound
CHECK_DEADLOCK FALSE
