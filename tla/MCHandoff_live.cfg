CONSTANTS
  Ids = {i1}
  Claude = {i1}
  Procs = {p1, p2}
  ReceiptIds = {r1}
  MaxWaits = 2
  None = None
  MaxEpoch = 1
  MaxBoot = 1
  Commands = {"ack", "wait", "waitAcknowledged"}
  Faults = {}
SPECIFICATION FairSpec
CHECK_DEADLOCK FALSE
PROPERTIES EarlyReceiptSettled WaitersReturn
