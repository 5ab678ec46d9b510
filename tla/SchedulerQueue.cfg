SPECIFICATION QueueSpec
CONSTANTS
  a = a
  b = b
  c = c
  NoRun = NoRun
  Runs = {a, b, c}
  Checkout <- OwnCheckouts
  Namespace <- OneNamespace
  Want <- TwoForC
  PerWorker <- AllButB
  Exclusive = {}
  Locks <- OneDatabase
  Parent <- NoParent
  Configs <- TwoConfigs
  MaxPending = 2
  KeepTerminal = 2
  Events = {"late"}
INVARIANTS
  TypeOK
  Isolation
  FirstComeFirstServed
PROPERTIES
  GrantsWithinLimits
  ImplementsAdmission
CHECK_DEADLOCK FALSE
