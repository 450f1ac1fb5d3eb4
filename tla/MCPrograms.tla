----------------------------- MODULE MCPrograms -----------------------------
(* One instance of each part that runs in, or beside, one program: the      *)
(* rooms of a relay, a message to a Claude session, the Antigravity bridge, *)
(* guided setup, a watched handoff, the accounts of the control server, the *)
(* tool server, and the storage checks of Codex.  A behaviour is about one  *)
(* of them, chosen at the start; the others stay as they began.             *)
EXTENDS RelayRooms, ClaudeInbox, AntigravityBridge, SetupJournal, HandoffWatch, AccountGate, McpServer,
        CodexStorage

CONSTANTS Scopes,   \* the parts a run is about
          MaxMoves  \* bound: what the machine of a Claude session does meanwhile
VARIABLES scope, moves

Laptop == [user |-> "alice", receiver |-> "laptop"]
MCTickets == {"tr", "tc", "tx"}
MCRoomOf == [t \in MCTickets |-> Laptop]
MCRoleOf == [t \in MCTickets |-> IF t = "tr" THEN "receiver" ELSE "client"]
MCDeviceOf == [t \in MCTickets |-> IF t = "tr" THEN "laptop" ELSE "phone"]
MCLimits == [sessions |-> 2, global |-> 3, user |-> 2, device |-> 2]
MCWanted == {[name |-> "n", pid |-> 0]}

programVars == <<roomVars, claudeVars, agyVars, setupVars, watchVars, accountVars, toolVars, storageVars>>

(* One Claude session is listed, under the name the operator asks for.      *)
ListedSession ==
  LET first == [pid |-> 1, birth |-> 1] IN
  /\ life = [p \in Pids |-> IF p = 1 THEN 1 ELSE 0] /\ births = 1
  /\ listed = [f \in (1 .. Profiles) \X Pids |->
                 IF f = <<1, 1>> THEN [started |-> 1, path |-> "p1", name |-> "n"] ELSE NoEntry]
  /\ inbox = [s \in Sockets |-> IF s = "p1" THEN [node |-> 1, owner |-> first] ELSE Unbound]
  /\ freed = {} /\ reused = FALSE /\ swaps = [d \in 1 .. Profiles |-> 0] /\ sender = Unused /\ caller = ""

(* Guided setup finds an empty directory, or for offers an identity.        *)
FirstSetup ==
  LET there == IF scope = "offer" THEN 1 ELSE 0 IN
  /\ files = [key |-> there, cert |-> there, db |-> there]
  /\ traces = (scope = "offer") /\ generated = there
  /\ setupLock = 0 /\ idLock = 0 /\ journal = NoJournal
  /\ offerRow = [o \in 1 .. MaxOffers |-> "none"] /\ offersTried = 0 /\ shownLinks = {}
  /\ minted = 0 /\ savedInvites = 0 /\ policyFile = "unset" /\ enrollSent = {} /\ enrolled = {}
  /\ peerState = "unknown" /\ pairTried = {} /\ run = [p \in Runs |-> NoRun]

(* At most two layers and directories say anything: one of them whatever it *)
(* can; two of them, and then the command is not a dry run, storage or      *)
(* markers, a root or a link.  If one is edited later, at most one does     *)
(* before, it comes to name storage or a root, and the command is no dry    *)
(* run either.                                                              *)
MCWalks == [w \in {"queue", "thread", "lexical"} |->
              CASE w = "queue" -> <<"q", "up">> [] w = "thread" -> <<"t", "up">> [] OTHER -> <<"t", "alias">>]
Told == Cardinality({l \in Layers : layer[l] # "plain"}) + Cardinality({d \in Dirs : mark[d] # "none"})
FewLayers ==
  LET plain == [l \in Layers |-> "plain"]
      bare == [d \in Dirs |-> "none"]
  IN IF scope = "layers"
     THEN /\ layer \in {[plain EXCEPT ![k] = c, ![l] = e] : k, l \in Layers, c, e \in Contents}
          /\ mark \in {[bare EXCEPT ![d] = m, ![b] = n] : d, b \in Dirs, m, n \in Marks}
          /\ Told <= 2
          /\ Told = 2 => /\ \A d \in Dirs : mark[d] \in {"none", "repo", "link"}
                         /\ \A l \in Layers : layer[l] # "odd"
     ELSE layer = plain /\ mark = bare /\ version = "reviewed"

MCInit ==
  /\ scope \in Scopes /\ moves = 0
  /\ FewLayers
  /\ RoomInit /\ ListedSession /\ AgyInit /\ FirstSetup /\ WatchInit /\ AccountInit /\ ToolInit /\ StorageInit
  /\ scope # "accounts" => open
  /\ scope # "tools" => preset = ""

(* Connections are numbered in the order in which they are made, tickets    *)
(* are issued in one order, to be used in any; one of them expires or one   *)
(* device is withdrawn.                                                     *)
RoomScope ==
  /\ RoomNext
  /\ "tx" \in issued' => "tc" \in issued'
  /\ "tc" \in issued' => "tr" \in issued'
  /\ Cardinality(expired') + Cardinality(revoked') <= 1
  /\ \A s, c \in Socks : c < s /\ sock'[s].pc # "new" => sock'[c].pc # "new"

(* The second process is never the one asked for, and what the machine does *)
(* after the message is of no interest.                                     *)
ClaudeScope ==
  /\ ClaudeNext
  /\ moves' = IF machineVars' = machineVars THEN moves ELSE moves + 1
  /\ moves' <= IF caller' = "here" THEN MaxMoves ELSE MaxMoves - 1
  /\ \A d \in 1 .. Profiles : listed'[d, 2].name # "n"
  /\ sender.pc \in {"done", "dead"} => UNCHANGED machineVars

(* Beginning with an identity, its policy and enrollment; then offers; then *)
(* invitations and pairing.                                                 *)
Avoids(pcs) == \A p \in Runs : run'[p].pc \notin pcs
SetupScope ==
  /\ SetupNext
  /\ scope = "begin" => UNCHANGED <<offerVars, pairVars>> /\ Avoids({"pend", "intend", "record"})
  /\ scope = "offer" => UNCHANGED <<enrollVars, inviteVars, pairVars, policyFile>>
                        /\ Avoids({"publish", "prepare", "promise", "intend"})
  /\ scope = "invite" => UNCHANGED <<enrollVars, offerVars, policyFile>>
                         /\ Avoids({"publish", "prepare", "pend", "record"})

(* The first request is one that may be repeated, with the text x, which is *)
(* also that of every request that cannot be; a TUI that starts again has a *)
(* bridge left to start.                                                    *)
BridgeScope ==
  /\ AgyNext
  /\ attempt'[1] # NoAttempt => attempt'[1].id.given = "r" /\ attempt'[1].text = "x"
  /\ \A a \in Attempts : attempt'[a].id.given = "" => attempt'[a].text \in {"", "x"}
  /\ tuis' # tuis => At(2, "none")

StorageScope ==
  IF scope = "file" THEN FileNext
  ELSE /\ StorageNext /\ UNCHANGED fileVars
       /\ Told = 2 => ~job'.dry
       /\ layerEdits' # layerEdits =>
            /\ Told <= 1 /\ ~job.dry
            /\ \A l \in Layers : layer'[l] \in {layer[l], "storage", IF l \in Fixed THEN "markers" ELSE "plain"}
            /\ \A d \in Dirs : mark'[d] \in {mark[d], "none", "repo"}

MCNext ==
  /\ scope' = scope
  /\ \/ scope = "rooms" /\ RoomScope
        /\ UNCHANGED <<moves, claudeVars, agyVars, setupVars, watchVars, accountVars, toolVars, storageVars>>
     \/ scope = "claude" /\ ClaudeScope
        /\ UNCHANGED <<roomVars, agyVars, setupVars, watchVars, accountVars, toolVars, storageVars>>
     \/ scope = "bridge" /\ BridgeScope
        /\ UNCHANGED <<moves, roomVars, claudeVars, setupVars, watchVars, accountVars, toolVars, storageVars>>
     \/ scope \in {"begin", "offer", "invite"} /\ SetupScope
        /\ UNCHANGED <<moves, roomVars, claudeVars, agyVars, watchVars, accountVars, toolVars, storageVars>>
     \/ scope = "watch" /\ WatchNext
        /\ UNCHANGED <<moves, roomVars, claudeVars, agyVars, setupVars, accountVars, toolVars, storageVars>>
     \/ scope = "accounts" /\ AccountNext
        /\ UNCHANGED <<moves, roomVars, claudeVars, agyVars, setupVars, watchVars, toolVars, storageVars>>
     \/ scope = "tools" /\ ToolNext
        /\ UNCHANGED <<moves, roomVars, claudeVars, agyVars, setupVars, watchVars, accountVars, storageVars>>
     \/ scope \in {"layers", "file"} /\ StorageScope
        /\ UNCHANGED <<moves, roomVars, claudeVars, agyVars, setupVars, watchVars, accountVars, toolVars>>

MCSpec == MCInit /\ [][MCNext]_<<scope, moves, programVars>>
=============================================================================
