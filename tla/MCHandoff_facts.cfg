CONSTANTS
  Ids = {i1}
  Claude = {i1}
  Procs = {p1}
  ReceiptIds = {r1}
  MaxWaits = 1
  None = None
  MaxEpoch = 1
  MaxBoot = 1
  Commands = {"wait"}
  Faults = {"restore"}
SPECIFICATION Spec
CHECK_DEADLOCK FALSE
INVARIANTS NativeFactsReported
