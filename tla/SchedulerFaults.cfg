SPECIFICATION FaultsSpec
CONSTANTS
  a = a
  b = b
  c = c
  NoRun = NoRun
  Runs = {a, c}
  Checkout <- OwnCheckouts
  Namespace <- OneNamespace
  Want <- OneSlotEach
  PerWorker <- NoEstimate
  Exclusive = {}
  Locks <- NoLocks
  Parent <- NoParent
  Configs <- OneSlot
  MaxPending = 2
  KeepTerminal = 2
  Events = {"crash", "kill", "escape", "blur"}
INVARIANTS
  ChargedWork
  KeptGrants
  ConflictsExcluded
PROPERTIES
  HandoffNeverUndone
  CommittedIsQuiescent
  NestingNeverWaits
CHECK_DEADLOCK FALSE
