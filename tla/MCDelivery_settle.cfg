CONSTANTS
  Calls = {c1, c2}
  Ids = {i1, i2}
  Texts = {t1}
  Bindings = {b1}
  MaxRows = 2
  Slots = 1
  Faults = {"database", "revoke"}
  None = None
SPECIFICATION FairSpec
CHECK_DEADLOCK FALSE
INVARIANTS RevocationOvertakenOnce
PROPERTIES PendingSettles
