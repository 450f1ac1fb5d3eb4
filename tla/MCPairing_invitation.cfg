SPECIFICATION Spec
CONSTANTS
  Clients = {c1, c2}
  Files = {f1}
  Links = {}
  Procs = {p1}
  Faults = {"loss", "revoke"}
  None = None
INVARIANTS ReservationsOwned
CHECK_DEADLOCK FALSE
