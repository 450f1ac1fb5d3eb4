CONSTANTS
  Calls = {c1, c2, c3}
  Ids = {i1}
  Texts = {t1, t2}
  Bindings = {b1, b2}
  MaxRows = 2
  Slots = 1
  Faults = {"loss", "down", "database", "restore"}
  None = None
SPECIFICATION Spec
SYMMETRY Symmetry
CHECK_DEADLOCK FALSE
INVARIANTS TypeOK AtMostOneSubmission AnswersTrue NotFoundSettles
PROPERTIES ReceiptsKept KeepsPromise
