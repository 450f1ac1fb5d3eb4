--------------------------- MODULE ControlProcess ---------------------------
(***************************************************************************)
(* The control service as a process (control/src/server): main.ts with its *)
(* two listeners, its timers and its way to stop, watchdog.ts, and the     *)
(* database it opens (storage.ts) once the command of migrate.ts has       *)
(* brought it to the first-party schema (migrations.ts).                   *)
(*                                                                         *)
(* systemd starts the process, waits for READY=1, kills it when no         *)
(* WATCHDOG=1 came for the time it gave, and starts it again.  Time is in  *)
(* seconds.  The driver of the database is synchronous: a statement that   *)
(* needs the lock of a migration holds the event loop for up to BusyLimit  *)
(* seconds, in which no timer fires and no request is served; nothing else *)
(* keeps the loop for a whole second.  What the service publishes is       *)
(* module ControlPlane; here a publication succeeds or fails.              *)
(***************************************************************************)
EXTENDS Integers, FiniteSets

CONSTANTS
  Migrators,       \* runs of the migration command
  Databases,       \* what may be in the database at first
  Deadlines,       \* watchdog times of systemd, 0 without a watchdog
  RefreshTime,     \* the time between two publications
  NotifyLimit,     \* the time a notification may take
  BusyLimit,       \* the time a statement waits for the lock
  Clients,         \* requests at the listeners
  MaxLaunch        \* bound on starts of the service

(* A committed database: the relay's tables, the ledger of migrations, the *)
(* indexes, whether columns are missing (odd), the marker of its contract, *)
(* its revision, whether it holds devices or operations, or one of the     *)
(* contract before (legacy), the versions it records, and whether it is    *)
(* intact with all other tables (whole).                                   *)
Database ==
  [relay : {"none", "part", "all"}, ledgerTable : BOOLEAN, indexes : BOOLEAN, odd : BOOLEAN,
   marker : {"none", "zero_based_v1", "other"}, revision : {"none", "zero", "used", "bad"}, rows : BOOLEAN,
   legacy : BOOLEAN, versions : SUBSET Int, whole : BOOLEAN]

ASSUME ProcessAssumption ==
  /\ Databases \subseteq Database /\ Deadlines \subseteq Nat
  /\ {RefreshTime, MaxLaunch, BusyLimit} \subseteq Nat \ {0}
  /\ NotifyLimit \in 1..2          \* systemd-notify is killed after two seconds

VARIABLES
  database,    \* what is committed
  migration,   \* migration[m]: its stage, and its transaction
  process,     \* the service
  request,     \* request[c]: "", or how far it is
  systemd,     \* its state, and the time since it last heard WATCHDOG=1
  setting,     \* its watchdog time, and whether there is a second listener
  history      \* ghost: what was in the database, and why a beat may be missing

controlProcessVars == <<database, migration, process, request, systemd, setting, history>>

NoTxn == [relay |-> "none"]
Down == [pc |-> "down", listening |-> {}, healthy |-> FALSE, stopped |-> FALSE, notify |-> "none", heard |-> FALSE,
         age |-> 0, timer |-> 0, refresh |-> 0, publishing |-> FALSE, hold |-> 0]

ProcessInit ==
  /\ database \in Databases
  /\ migration = [m \in Migrators |-> [pc |-> "idle", txn |-> NoTxn]]
  /\ process = Down /\ request = [c \in Clients |-> ""]
  /\ systemd = [state |-> "inactive", since |-> 0, launches |-> 0]
  /\ setting \in [deadline : Deadlines, listeners : {{"main"}, {"main", "admin"}}]
  /\ history = [first |-> database, missed |-> FALSE, unhealthy |-> 0, held |-> 0]

-----------------------------------------------------------------------------
(* migrations.ts.  The transaction is immediate: it holds the only lock of *)
(* a writer until it commits, rolls back or dies.  A migration that waited *)
(* for another in vain fails; its own wait keeps nobody.                   *)

LockHeld == \E m \in Migrators : migration[m].pc \in {"locked", "recording"}
MigrationStage(m, pc) == [migration EXCEPT ![m].pc = pc]
Ends(m, pc) == [migration EXCEPT ![m] = [pc |-> pc, txn |-> NoTxn]]
ProcessRest == <<process, request, systemd, setting>>

(* migrationOne, in the order of its refusals.                             *)

MayAdopt(data) ==
  /\ ~data.legacy
  /\ data.marker = "none" => ~data.rows
  /\ data.marker \in {"none", "zero_based_v1"}
  /\ data.revision = "none" => ~data.rows
  /\ data.revision # "bad"
Adopted(data) ==
  [data EXCEPT !.relay = "all", !.indexes = TRUE, !.marker = "zero_based_v1", !.revision = IF @ = "none" THEN "zero" ELSE @]

Opens(m) ==
  /\ migration[m].pc = "idle"
  /\ \E pc \in {"opened", "failed"} : migration' = MigrationStage(m, pc)       \* the database, or Better Auth's own tables
  /\ UNCHANGED <<database, ProcessRest, history>>
Locks(m) ==
  /\ migration[m].pc = "opened"
  /\ migration' = IF LockHeld THEN MigrationStage(m, "failed")                 \* busy
                  ELSE [migration EXCEPT ![m] = [pc |-> "locked", txn |-> [database EXCEPT !.ledgerTable = TRUE]]]
  /\ UNCHANGED <<database, ProcessRest, history>>
Migrates(m) ==
  LET data == migration[m].txn IN
  /\ migration[m].pc = "locked"
  /\ migration' = IF \E v \in data.versions : v < 1 \/ v > 1 THEN Ends(m, "failed")
                  ELSE IF 1 \in data.versions THEN MigrationStage(m, "recording")
                  ELSE IF MayAdopt(data) THEN [migration EXCEPT ![m] = [pc |-> "recording", txn |-> Adopted(data)]]
                  ELSE Ends(m, "failed")
  /\ UNCHANGED <<database, ProcessRest, history>>
Commits(m) ==
  /\ migration[m].pc = "recording"
  /\ database' = [migration[m].txn EXCEPT !.versions = @ \cup {1}]
  /\ migration' = Ends(m, "committed")
  /\ UNCHANGED <<ProcessRest, history>>

(* validateFirstPartySchema.                                               *)
ValidSchema(data) ==
  /\ data.whole /\ data.relay = "all" /\ data.ledgerTable /\ data.indexes /\ data.versions = {1}
  /\ ~data.odd /\ data.marker = "zero_based_v1" /\ data.revision \notin {"none", "bad"}
Checks(m) ==
  /\ migration[m].pc = "committed"
  /\ migration' = Ends(m, IF ValidSchema(database) THEN "done" ELSE "failed")
  /\ UNCHANGED <<database, ProcessRest, history>>
MigrationDies(m) ==
  /\ migration[m].pc \in {"opened", "locked", "recording", "committed"}
  /\ migration' = Ends(m, "failed")
  /\ UNCHANGED <<database, ProcessRest, history>>

-----------------------------------------------------------------------------
(* main.ts: the start, the listeners and the publications.                 *)

MigratorRest == <<migration, setting>>
Exits == /\ process' = Down /\ request' = [c \in Clients |-> ""]
         /\ systemd' = [systemd EXCEPT !.state = "inactive", !.since = 0]
         /\ history' = [history EXCEPT !.missed = FALSE, !.unhealthy = 0, !.held = 0]
Watched == setting.deadline # 0

Launches ==
  /\ systemd.state = "inactive" /\ systemd.launches < MaxLaunch
  /\ systemd' = [state |-> "starting", since |-> 0, launches |-> systemd.launches + 1]
  /\ process' = [Down EXCEPT !.pc = "booting"]
  /\ UNCHANGED <<database, MigratorRest, request, history>>

(* The loop runs unless a publication or a request waits for the lock in   *)
(* the middle of a statement; it waits no longer than the driver lets it.  *)
Free == ~process.publishing /\ \A c \in Clients : request[c] # "waiting"
WaitOver == ~LockHeld \/ process.hold = BusyLimit

(* A publication first takes a new revision, which needs the lock.         *)
Published(ok) ==
  /\ ok => ~LockHeld
  /\ database' \in {database, [database EXCEPT !.revision = "used"]}
  /\ (ok \/ database' # database) => (database'.revision = "used" /\ ~LockHeld)

(* openDatabase, validateFirstPartySchema, the checks and the first        *)
(* publication of RelayControl, and the settings of the watchdog.          *)
Boots ==
  /\ process.pc = "booting"
  /\ \/ /\ ValidSchema(database) /\ ~database.legacy /\ setting.deadline \notin {1, 2}
        /\ Published(TRUE)
        /\ process' = [process EXCEPT !.pc = "listening", !.healthy = TRUE, !.refresh = RefreshTime]
        /\ UNCHANGED <<request, systemd, history>>
     \/ UNCHANGED database /\ Exits
  /\ UNCHANGED MigratorRest

(* The second listener is opened when the first one is.                    *)
Listens ==
  LET open == process.listening \cup {IF process.listening = {} THEN "main" ELSE "admin"} IN
  /\ process.pc = "listening" /\ ~process.stopped /\ Free
  /\ \/ /\ process' = [process EXCEPT !.listening = open, !.pc = IF open = setting.listeners THEN "announcing" ELSE @]
        /\ UNCHANGED <<request, systemd, history>>
     \/ Exits
  /\ UNCHANGED <<database, MigratorRest>>

PublishDue ==
  process.refresh = 0 /\ process.pc \in {"listening", "announcing", "ready", "serving"} /\ ~process.stopped /\ Free
(* It takes the health before it waits.                                    *)
PublishWaits ==
  /\ PublishDue /\ LockHeld
  /\ process' = [process EXCEPT !.healthy = FALSE, !.publishing = TRUE, !.hold = 0]
  /\ UNCHANGED <<database, MigratorRest, request, systemd, history>>
Publishes ==
  /\ (PublishDue /\ ~LockHeld) \/ (process.publishing /\ WaitOver)
  /\ \E ok \in BOOLEAN :
       /\ Published(ok)
       /\ process' = [process EXCEPT !.healthy = ok, !.refresh = RefreshTime, !.publishing = FALSE, !.hold = 0]
       /\ history' = [history EXCEPT !.unhealthy = IF ok THEN 0 ELSE @]
  /\ UNCHANGED <<MigratorRest, request, systemd>>
(* Something is not as it was published.                                   *)
Disturbed ==
  /\ process.pc \in {"listening", "announcing", "ready", "serving"} /\ process.healthy
  /\ process' = [process EXCEPT !.healthy = FALSE]
  /\ UNCHANGED <<database, MigratorRest, request, systemd, history>>

-----------------------------------------------------------------------------
(* watchdog.ts.                                                            *)

IsHealthy == process.listening = setting.listeners /\ process.healthy
MayPulseMutant == ~process.stopped /\ process.notify = "none"
MayPulse == ~process.stopped /\ process.notify = "none" /\ IsHealthy
Pulse(kind) == [process EXCEPT !.notify = kind, !.heard = FALSE, !.age = 0]
TimerPeriod == IF setting.deadline \div 3 < 5 THEN setting.deadline \div 3 ELSE 5

(* start(): without systemd there is nothing to announce.                  *)
Announces ==
  /\ process.pc = "announcing" /\ Free
  /\ \/ /\ ~Watched /\ process' = [process EXCEPT !.pc = "serving"]
        /\ UNCHANGED <<request, systemd, history>>
     \/ /\ Watched /\ MayPulse /\ process' = [Pulse("ready") EXCEPT !.pc = "ready"]
        /\ UNCHANGED <<request, systemd, history>>
     \/ Watched /\ ~MayPulse /\ Exits
  /\ UNCHANGED <<database, MigratorRest>>

(* systemd-notify is a process of its own: systemd hears its message even  *)
(* while the loop is held, which then cannot end it either.  A message is  *)
(* ignored once systemd is stopping the service.                           *)
Hears ==
  /\ process.notify # "none" /\ ~process.heard /\ (process.age < NotifyLimit \/ ~Free)
  /\ process' = [process EXCEPT !.heard = TRUE]
  /\ systemd' = [systemd EXCEPT !.since = 0,
                                !.state = IF process.notify = "ready" /\ @ = "starting" THEN "running" ELSE @]
  /\ history' = [history EXCEPT !.missed = FALSE, !.held = 0]
  /\ UNCHANGED <<database, MigratorRest, request>>
NotifyEnded == [process EXCEPT !.notify = "none", !.heard = FALSE, !.age = 0]
AfterStart == [NotifyEnded EXCEPT !.pc = IF process.stopped THEN @ ELSE "serving",
                               !.timer = IF process.stopped THEN 0 ELSE TimerPeriod]
Notifies ==
  /\ process.heard /\ Free
  /\ process' = IF process.notify = "ready" THEN AfterStart ELSE NotifyEnded
  /\ UNCHANGED <<database, MigratorRest, request, systemd, history>>
(* The start fails for good; a later one is only missing.                  *)
NotifyFails ==
  /\ process.notify # "none" /\ Free
  /\ \/ process.notify = "ready" /\ Exits
     \/ /\ process.notify = "beat" /\ process' = NotifyEnded
        /\ history' = [history EXCEPT !.missed = @ \/ ~process.heard] /\ UNCHANGED <<request, systemd>>
  /\ UNCHANGED <<database, MigratorRest>>
Beats ==
  /\ process.pc = "serving" /\ Watched /\ ~process.stopped /\ process.timer = 0 /\ Free
  /\ process' = [(IF MayPulse THEN Pulse("beat") ELSE process) EXCEPT !.timer = TimerPeriod]
  /\ history' = [history EXCEPT !.missed = @ \/ ~IsHealthy]
  /\ UNCHANGED <<database, MigratorRest, request, systemd>>

-----------------------------------------------------------------------------
(* Requests: the host, the path and the size are looked at first; a        *)
(* request may end at any time, with its client or with an error.          *)

Arrives(c) ==
  /\ process.listening # {} /\ ~process.stopped /\ request[c] = "" /\ Free
  /\ request' = [request EXCEPT ![c] = "reading"]
  /\ UNCHANGED <<database, MigratorRest, process, systemd, history>>
(* The second listener, for this machine alone, only reads.                *)
AdminArrives(c) ==
  /\ "admin" \in process.listening /\ ~process.stopped /\ request[c] = "" /\ Free
  /\ request' = [request EXCEPT ![c] = "metrics"]
  /\ UNCHANGED <<database, MigratorRest, process, systemd, history>>
Accepts(c) ==
  /\ request[c] = "reading" /\ Free /\ request' = [request EXCEPT ![c] = "handling"]
  /\ UNCHANGED <<database, MigratorRest, process, systemd, history>>
(* A statement of its own change, or of the revision before it.            *)
Waits(c) ==
  /\ request[c] = "handling" /\ LockHeld /\ Free
  /\ request' = [request EXCEPT ![c] = "waiting"] /\ process' = [process EXCEPT !.hold = 0]
  /\ UNCHANGED <<database, MigratorRest, systemd, history>>
(* One write or several; a change that is published (mutate) has a new     *)
(* revision, and brings the health back or takes it.                       *)
Handles(c) ==
  /\ (request[c] = "handling" /\ Free) \/ (request[c] = "waiting" /\ WaitOver)
  /\ \/ UNCHANGED database
     \/ /\ ~LockHeld
        /\ \/ database' = [database EXCEPT !.rows = TRUE]
           \/ \E rows \in {database.rows, TRUE} : database' = [database EXCEPT !.revision = "used", !.rows = rows]
  /\ \E ok \in BOOLEAN :
       /\ ok /\ ~process.healthy => ~LockHeld /\ database'.revision = "used"
       /\ process' = [process EXCEPT !.healthy = ok, !.hold = 0]
       /\ history' = [history EXCEPT !.unhealthy = IF ok /\ ~process.healthy THEN 0 ELSE @]
  /\ \E pc \in {"handling", "answering"} : request' = [request EXCEPT ![c] = pc]
  /\ UNCHANGED <<MigratorRest, systemd>>
RequestEnds(c) ==
  /\ request[c] # "" /\ Free /\ request' = [request EXCEPT ![c] = ""]
  /\ UNCHANGED <<database, MigratorRest, process, systemd, history>>

(* systemd has its signal sent and waits; the loop hears of it, or of one  *)
(* from elsewhere, when it runs.                                           *)
Terminates ==
  /\ process.pc \notin {"down", "booting"} /\ systemd.state \in {"starting", "running"}
  /\ systemd' = [systemd EXCEPT !.state = "stopping"]
  /\ UNCHANGED <<database, MigratorRest, process, request, history>>
(* stop(): the listeners take nothing new, and the last connection to end  *)
(* closes the database and the process.                                    *)
Stops ==
  /\ process.pc \notin {"down", "booting"} /\ ~process.stopped /\ Free
  /\ process' = [process EXCEPT !.stopped = TRUE, !.timer = 0, !.refresh = 0]
  /\ UNCHANGED <<database, MigratorRest, request, systemd, history>>
Drained ==
  /\ process.stopped /\ Free /\ (\A c \in Clients : request[c] = "") /\ Exits
  /\ UNCHANGED <<database, MigratorRest>>

-----------------------------------------------------------------------------
(* systemd and time.                                                       *)

WatchdogExpired == systemd.state = "running" /\ Watched /\ systemd.since >= setting.deadline
Kills == WatchdogExpired /\ Exits /\ UNCHANGED <<database, MigratorRest>>
Dies == process.pc # "down" /\ Exits /\ UNCHANGED <<database, MigratorRest>>

(* What a running loop, a waiting statement or systemd does before time    *)
(* goes on.                                                                *)
LoopDue ==
  \/ process.pc = "serving" /\ Watched /\ ~process.stopped /\ process.timer = 0
  \/ process.refresh = 0 /\ ~process.stopped
  \/ process.heard
  \/ process.notify # "none" /\ process.age = NotifyLimit
Due == (Free /\ LoopDue) \/ (~Free /\ WaitOver) \/ WatchdogExpired
Less(n) == IF n = 0 THEN 0 ELSE n - 1

(* The age of a notification counts to its limit; the time without health  *)
(* leaves out what a held loop adds to a notification that is under way.   *)
Second ==
  LET age == IF process.notify = "none" THEN 0 ELSE IF process.age < NotifyLimit THEN process.age + 1 ELSE NotifyLimit
      running == systemd.state = "running" /\ Watched
      slow == ~Free /\ process.notify # "none" /\ ~process.heard
  IN
  /\ process.pc \notin {"down", "booting"} /\ ~Due
  /\ process' = [process EXCEPT !.timer = Less(@), !.refresh = Less(@), !.age = age, !.hold = IF Free THEN 0 ELSE @ + 1]
  /\ systemd' = [systemd EXCEPT !.since = IF running THEN @ + 1 ELSE 0]
  /\ history' = [history EXCEPT !.unhealthy = IF IsHealthy \/ ~running THEN 0 ELSE IF slow THEN @ ELSE @ + 1,
                                !.held = IF ~running THEN 0 ELSE IF Free THEN @ ELSE @ + 1]
  /\ UNCHANGED <<database, MigratorRest, request>>

ProcessNext ==
  \/ \E m \in Migrators : Opens(m) \/ Locks(m) \/ Migrates(m) \/ Commits(m) \/ Checks(m) \/ MigrationDies(m)
  \/ Launches \/ Boots \/ Listens \/ PublishWaits \/ Publishes \/ Disturbed
  \/ Announces \/ Hears \/ Notifies \/ NotifyFails \/ Beats
  \/ \E c \in Clients : Arrives(c) \/ AdminArrives(c) \/ Accepts(c) \/ Waits(c) \/ Handles(c) \/ RequestEnds(c)
  \/ Terminates \/ Stops \/ Drained \/ Kills \/ Dies \/ Second

ProcessSpec == ProcessInit /\ [][ProcessNext]_controlProcessVars

-----------------------------------------------------------------------------
(* What the start, the watchdog and the migration promise.                 *)

(* The service listens only on a database with the whole schema, and a     *)
(* request only ever meets that, whatever a migration does meanwhile.      *)
ServesValid == process.listening # {} \/ (\E c \in Clients : request[c] # "") => ValidSchema(database)

(* A recorded schema is there as a whole, and nothing is invented for a    *)
(* database that held data: neither the marker of its contract nor a       *)
(* revision that was lost, and a revision in use never starts anew.        *)
MigrationWhole ==
  /\ (1 \in database.versions \ history.first.versions) =>
       (database.relay = "all" /\ database.indexes /\ database.marker = "zero_based_v1" /\ database.revision # "none")
  /\ history.first.rows => (database.marker = history.first.marker
                            /\ (history.first.revision \in {"none", "bad"} => database.revision = history.first.revision))
  /\ history.first.revision = "used" => database.revision = "used"

(* A service that lost its health is down within the watchdog time and one *)
(* notification: no beat is sent on behalf of a health that is gone.  Only *)
(* a notification under way while the loop is held may take longer, by as  *)
(* much as it is held.                                                     *)
WatchdogTrue == history.unhealthy <= setting.deadline + NotifyLimit

(* And a service that kept its health, and whose notifications arrived in  *)
(* their time, is never killed for a missing beat, unless it is on its way *)
(* to stop, or waits for a migration's lock held the loop so long, since   *)
(* the last beat was heard, that less than a period of the timer and one   *)
(* notification were left of the watchdog time.                            *)
TimedOut == process.notify # "none" /\ ~process.heard /\ process.age = NotifyLimit
HeldTooLong == history.held + TimerPeriod + NotifyLimit > setting.deadline
HealthyKept == WatchdogExpired => history.missed \/ TimedOut \/ process.stopped \/ HeldTooLong

(* The service, its database and its watchdog keep what they promise.      *)
ProcessSafe == ServesValid /\ MigrationWhole /\ WatchdogTrue /\ HealthyKept
=============================================================================
