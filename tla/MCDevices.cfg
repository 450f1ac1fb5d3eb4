SPECIFICATION MCSpec
CONSTANTS
  Scopes = {"route", "restore", "recovery", "rivals", "rotation", "schema", "beat"}
  Strangers <- MCStrangers
  PreauthLimit <- MCPreauth
  AuthLimit = 1
  Peers = {"p", "q"}
  Fresh = {"f", "g"}
  PlanIds = {"x", "y"}
  Routes = {"a"}
  Effects = {"e"}
  ReconIds = {1}
  MaxGeneration = 1
  Managed = TRUE
  Old = "old"
  Devices = {1, 2}
  MaxGen = 2
  Faults = {"loss", "crash", "revoke", "delay"}
  Migrators = {"m1", "m2"}
  Databases <- MCDatabases
  Deadlines = {0, 3, 6}
  RefreshTime = 5
  NotifyLimit = 2
  BusyLimit = 3
  Clients = {"c"}
  MaxLaunch = 2
INVARIANTS ExchangeSafe ProcessSafe
PROPERTIES RecoverySafe RotationSafe
CHECK_DEADLOCK FALSE
