SPECIFICATION Spec
CONSTANTS
  Clients = {c1}
  Files = {f1}
  Links = {l1}
  Procs = {p1}
  Faults = {"loss", "crash", "cancel", "revoke"}
  None = None
PROPERTY OffersSound
CHECK_DEADLOCK FALSE
