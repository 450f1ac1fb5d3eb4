SPECIFICATION MCSpec
CONSTANTS
  Scopes = {"rooms", "claude", "bridge", "begin", "offer", "invite", "watch", "accounts", "tools", "layers", "file"}
  MaxMoves = 4
  Tickets <- MCTickets
  RoomOf <- MCRoomOf
  RoleOf <- MCRoleOf
  DeviceOf <- MCDeviceOf
  Socks = {1, 2, 3}
  Limits <- MCLimits
  NoSock = 0
  Pids = {1, 2}
  Sockets = {"p1", "p2"}
  Profiles = 2
  Names = {"m", "n"}
  Wanted <- MCWanted
  MaxBirths = 3
  MaxNodes = 3
  MaxSwaps = 1
  Uses = {"here", "ssh"}
  Bridges = {1, 2}
  Attempts = {1, 2}
  RequestIds = {"r"}
  Texts = {"x", "y"}
  MaxRequests = 1
  MaxTui = 2
  Runs = {1, 2}
  MaxOffers = 2
  MaxInvites = 2
  MaxIdentities = 2
  Intents = {"a", "b"}
  Policies = {"p", "q"}
  Invitations = {"i", "j"}
  MaxHistory = 4
  MaxEpochs = 2
  FrameLimit = 2
  MaxInterrupts = 2
  Identities = {"a", "p", "l"}
  Allowlisted = {"a"}
  Legacy = {"l"}
  Callbacks = {1, 2}
  SessionIds = {1, 2, 3}
  Codes = {"c", "d"}
  CodeLimit = 1
  MaxAsked = 1
  Nobody = "-"
  ToolCalls = {1}
  ToolAgents = {"claude", "codex"}
  Capabilities = {"list", "send", "wake", "preflight", "diagnostics", "diagnostics_probe", "presets"}
  Matching = {"r1", "r2"}
  OtherRoutes = {"r3"}
  MaxToolEdits = 2
  Walks <- MCWalks
  HomeDirs = {"up"}
  MaxLayerEdits = 1
  MaxFileWrites = 3
INVARIANTS ClaudeSafe BridgeSafe WatchSafe AccountsSafe ToolsSafe StorageSafe
PROPERTIES RoomsSafe SetupSafe
CHECK_DEADLOCK FALSE
