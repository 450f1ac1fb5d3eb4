CONSTANTS
  Ids = {i1}
  Claude = {i1}
  Procs = {p1, p2}
  ReceiptIds = {r1, r2}
  MaxWaits = 2
  None = None
  MaxEpoch = 2
  MaxBoot = 2
  Commands = {"plain", "wait", "delivered", "dry", "waitAcknowledged", "waitDelivered"}
  Faults = {"machine", "collector", "age"}
SPECIFICATION Spec
SYMMETRY Symmetry
CHECK_DEADLOCK FALSE
INVARIANTS TypeOK LedgerValid StatusTrue
PROPERTIES ClassificationFinal AuthorityHeld
