CONSTANTS
  Ids = {i1}
  Claude = {i1}
  Procs = {p1, p2}
  ReceiptIds = {r1}
  MaxWaits = 2
  None = None
  MaxEpoch = 1
  MaxBoot = 1
  Commands = {"ack", "wait"}
  Faults = {"process", "restore"}
SPECIFICATION Spec
SYMMETRY Symmetry
CHECK_DEADLOCK FALSE
INVARIANTS AtMostOneEffect UnsentMeansNoEffect OutcomeTruthful
PROPERTIES KeepsPromise
