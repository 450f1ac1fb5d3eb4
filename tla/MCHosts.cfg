SPECIFICATION MCSpec
CONSTANTS
  Scopes = {"ssh", "copies", "chain", "rate", "control", "book", "rebind", "update", "config"}
  Senders = {"s1", "s2"}
  Handoffs = {"i1"}
  Budget = 1
  Closing = 1
  MaxNow = 2
  MaxTarget = 1
  Homes = {"h1", "h2", "h3"}
  ThreadOf <- MCThreadOf
  Sends = {"s1", "s2"}
  Rates = {1, 2}
  Window = 2
  Hops = {1, 2}
  MaxWriter = 2
  MaxReal = 2
  MaxBack = 1
  Principals = {"phone", "phone2", "phone3", "desk"}
  Enrolled = {"phone", "desk"}
  Operations <- MCOperations
  Admissions <- MCAdmissions
  MaxTickets = 1
  MaxRevision = 2
  MaxEpoch = 1
  MaxSpent = 1
  CPFaults = {"loss", "crash", "disk", "commit", "replay"}
  Users = {1, 2, 3}
  Choices <- MCChoices
  Places = {"r1", "r2"}
  Capacity = 2
  MaxSession = 1
  BookFaults = {"kill", "power", "disk"}
  Clients = {1, 2}
  ReleaseOf <- MCReleaseOf
  OutsideReleases = {2, 3}
  MaxOutside = 1
  UpdateFaults = {"killed", "broken", "disk"}
  MaxNode = 3
  MaxChanges = 2
  Modes = {"explicit", "plain", "bounded", "identity"}
INVARIANTS SshTrustSafe AddressesSafe UpdatesSafe
PROPERTIES RemoteSafe WakeSafe RegisterSafe
CHECK_DEADLOCK FALSE
