SPECIFICATION FairSpec
CONSTANTS
  Clients = {c1}
  Files = {}
  Links = {l1}
  Procs = {p1, p2}
  Faults = {"loss", "week"}
  None = None
PROPERTY Reconciles
CHECK_DEADLOCK FALSE
