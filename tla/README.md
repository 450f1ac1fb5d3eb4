# Verification of session-peer

TLA+ models of session-peer, the TLC configurations that check them on small
instances, and TLAPS proofs that hold for every instance. Paths are relative to
the repository; line numbers are in `PROJECT.json` under `map`.

session-peer carries messages between coding-agent sessions: on one machine,
over SSH, or between paired devices over a direct connection or a relay. Its
hard promises are about what is *not* done twice and what is *not* claimed:

- a message is handed to the receiving session at most once, however often it is
  retried, whoever crashes and whatever backup is restored;
- an outcome that is not known is reported as unknown, and what is reported as
  submitted or refused is true;
- a message reaches the session that was reviewed, or nobody;
- trust between devices is created by one authenticated exchange, belongs to one
  device, survives a change of keys, and is taken away by revocation only;
- an acknowledgement counts only if its authority was minted for that message;
- whatever stops halfway can be repeated, and leaves nothing held, open or half
  done.

Contents: [inventory](#inventory), [modules and code](#modules-and-code),
[runs](#runs), [fairness](#fairness), [proofs](#proofs), [finding](#the-finding),
[not modelled](#not-modelled), [plan](#plan).

## Inventory

| Component | State it keeps | Operations | Interacts by | Hard part | Correct when |
| --- | --- | --- | --- | --- | --- |
| Correlated handoff (`session_peer_core/handoff.py`) | `ledger.json`, one record per correlation id; collector process, its socket | `send` with an id, `handoff prepare/wait/confirm/status`, collector mint/classify/receipt, retention, quarantine | file lock between processes; frames to the collector; frames from the receiving session | two senders on one id; a kill between fence, native call and outcome; receipts early, late, twice; clocks of different epochs; restored ledgers | one submission per id, true outcomes, final waits and acknowledgements, authority only for the message it was minted for |
| Handoff over SSH (`handoff_remote.py`, `handoff_process.py`) | the same ledger; the bounded SSH child | probe, intent, effect command, outcome | SSH subprocess; the remote command | an outcome lost with the connection; a remote command that outlives its client; a replaced target | one submission, before its cutoff, to the recorded target |
| Handoff watch (`handoff_watch.py`) | cursors, a writer child | sample, frame, end | pipe to the child, output that may block | interrupts and deadlines in the middle of a write | a true account with at most its last frame cut |
| Paired delivery journal (`session_peer_relay/app.py`, `native.py`, `store.py`, `worker.py`) | SQLite `requests`, worker processes, slots | dispatch, begin, invoke, finish, status; backup and restore | authenticated channel, subprocesses | repetition while a worker runs; receiver crash; database failure after the effect; a restore from before the effect | one submission per request id, true answers, `not_found` that settles |
| Receiver admission and routes (`app.py`, `transport_errors.py`) | preauthentication and authenticated places; the race of two dials | spawn, handle, release; dial, race, submit | asyncio tasks | cancellation before a task starts; both routes succeed; a burst of strangers | places are returned, one channel submits, none stays open |
| Pairing (`store.py`, `app.pair`, `finish_pair`) | tables `invites`, `pairing_offers`, `pairing_reservations`, `peers`, `peer_keys`; at the client `peers` and `pairing_intents` | create file or link, prepare, commit, cancel, expire, stage, remember, revoke | two requests over the channel | lost answers, late requests, two clients, two clocks, cancellation during a commit | one owner per invitation, truthful offer status, no lost or surplus trust |
| Identity rotation (`rotation.py`) | the saved proposal, tables `peer_keys`, `rotations` | prepare locally, prepare/ask/commit at every peer, activate | requests to peers; the state lock stops the device's own receiver | interruption anywhere, lost commit answers, late commits, several devices at once | no peer is lost, one key acts, retired keys stay retired |
| Approved recovery, backup, restore (`recovery.py`, `lifecycle.py`) | recovery plan, approvals, tombstones, staged state | begin, approve, commit, activate, backup, restore | files carried by the operator | partial approvals, repeated steps, two rival recoveries, interruption | a restored identity is gated until approved everywhere, nothing half trusted |
| Relay server (`relay.py`) | sessions (tickets), waiting rooms, connection places | issue, redeem, wait, pair, forward, close | websockets | expired rooms, busy roles, capacities, the order in which handlers notice an end | a ticket is used once, a room joins one receiver and one client, nothing stays behind |
| Control service: register and tickets (`relay-control.ts`, `protocol.ts`) | devices, operations, challenges, revision in SQLite; `state.json` | challenge, register, recover, revoke, admit, publish | HTTP; a file read by the relay | a crash between revision, file and commit; lost answers | a healthy file is what is committed, an operation takes effect once |
| Relay's view of the register (`auth.py`) | replay file: revision, spent tickets | authorize, read state | the state file | a lost replay file, a rolled-back file | a ticket admits once, and current keys only |
| Control service: its process (`main.ts`, `watchdog.ts`, `migrations.ts`, `storage.ts`, `migrate.ts`) | listeners, timers, schema versions | migrate, start, publish, beat, stop | systemd; a migration beside it | a migration beside a running service; a beat for a health that is gone | serves a valid schema only; killed if and only if it is ill |
| Control server: accounts, sessions, codes (`auth.ts`, `app.ts`) | reservations, accounts, sessions, device codes, claims | sign in, hooks, revoke, ask, open, approve, redeem | concurrent requests, Better Auth | an await between a check and its use | nobody is signed in, or approved for, without a right of his own |
| Control client and relay commands (`control.py`, `cli.py`) | receipts | challenged operations, commands | HTTP | lost answers | one effect per operation |
| Codex queue, home selection, writer lock, wake (`codex.py`, `wake_chain.py`) | wake lock file with stamps; queue of the native program | inspect, select, queue, wake | files and processes of another program | writers that come between two looks; chains and rates | told outcomes are true, no message beside a writer, chains and rates end |
| Codex storage (`codex.py`) | none | read layers, ask the version, check again, hand over | configuration edited by others | an edit between check and use | another database only by an edit after the last check |
| Claude sessions (`claude.py`, `target_generation.py`, `registry.py`, `sending.py`, `ssh.py`) | none; registry files and sockets of others | list, resolve, revalidate, post | sockets, SSH | numbers, paths and files used again | a pinned message reaches the listed process or nobody |
| Antigravity bridge (`antigravity.py`) | lock, socket, registration, remembered requests | start, serve, stop; send | a socket; the TUI | repetition to a bridge that died or is slow | one native call per request and generation |
| Route presets and addresses (`presets.py`, `addresses.py`, `address_cli.py`, `address_selection.py`, `preset_cli.py`) | two revisioned files with locks | add, replace, remove, reselect, send | file locks; a probe of the session | a change between probe and write; kills and power loss in a write | confirmed changes stay; a send reaches what was reviewed |
| Dismissed update notices (`update_preferences.py`) | a third such file | dismiss | file lock | as above | as above |
| Updates and installation (`updates.py`, `ssh.py`, `install.sh`) | the installed program, launcher, lock | push, publish, verify, roll back | SSH; installers that take no lock | a publisher killed or overtaken between two steps | truthful result, no downgrade, a clean undo |
| Selected SSH configuration (`ssh_config.py`, `ssh_identity.py`, `ssh.py`) | open descriptors, the selection | walk, revalidate, query, connect | the file system | a path that changes under the walk | every ssh uses what was selected; no descriptor left |
| Tool server (`session_peer_mcp.py`) | calls and their process groups | expand, spawn, read, cancel, terminate, reap, answer | subprocesses | cancellation during cleanup; holders of a pipe | no process left, true answers, the confirmed route |
| Guided setup (`setup.py`, `identity.py`, `pairing_ui.py`) | `setup.json`, identity files, locks | init, offer, enroll, policy, invite, pair | the store, the control service, files | a stop between journal, effect and receipt; two runs | nothing twice, a journal that is true |
| Link text, wire format, adapters and replies, command line and output, server configuration and metrics, the single file, the legacy tool | none | parse, validate, render | all of the above | malformed input | see [not modelled](#not-modelled) |

`session_peer.py` at the root is generated by concatenating
`session_peer_core/*.py`; everything is mapped to the parts.

How they meet: `RouteSelection` decides over which channel a paired request
goes and `DeliveryJournal` what becomes of it; `Pairing`, `Rotation` and
`Recovery` change who may send one. `ControlPlane` gives the tickets `RelayRooms`
redeems; `AccountGate` and `ControlProcess` stand before and around it. On one
machine or over SSH, `AddressBook` and `SshTrust` choose the way, `Handoff` or
`RemoteHandoff` keep the licence of a message, and `ClaudeInbox`, `CodexWake` with
`CodexStorage`, or `AntigravityBridge` deliver it; `McpServer` calls them as
subprocesses.

The hazards, each with its line and the properties that would catch it, are in
`PROJECT.json`; every one has a property.

## Modules and code

| Module | Models |
| --- | --- |
| `SubmissionPromise` | the abstract promise of every path that submits under an id |
| `HandoffRecord` | a ledger record and the pure changes transactions make to it |
| `Handoff` (EXTENDS `HandoffRecord`) | the processes around the ledger, refining `SubmissionPromise` |
| `RemoteHandoff` | the handoff over SSH, refining `SubmissionPromise` |
| `HandoffWatch` | the watched handoff and its output |
| `DeliveryJournal` | delivery between paired devices, refining `SubmissionPromise` |
| `RouteSelection` | the race of routes and the receiver's admission |
| `Pairing` | invitations, offers and the client's `device pair` |
| `Rotation` | `device rotate` at any number of mutually paired devices |
| `Recovery` | restored archives, approvals and the activation of a fresh identity |
| `RelayRooms` | the relay's tickets, places and rooms |
| `ControlPlane` | the device register, its publication, tickets and the relay's replay file |
| `ControlProcess` | the control service as a process, its watchdog and migrations |
| `AccountGate` | sign-ins, sessions and device codes of the control server |
| `CodexWake` | sending to a Codex thread and waking it |
| `CodexStorage` | the storage checks before a Codex submission |
| `ClaudeInbox` | posting to a Claude session |
| `AntigravityBridge` | the bridge in a TUI and the commands that use it |
| `AddressBook` | presets, addresses and dismissed notices |
| `Updates` | pushing a release to a host |
| `SshTrust` | the selected SSH configuration |
| `McpServer` | tool calls and their processes |
| `SetupJournal` | guided setup |
| `MCHandoff`, `MCDelivery`, `MCPairing`, `MCDevices`, `MCHosts`, `MCPrograms` | TLC instances |
| `HandoffProofs`, `HandoffHistoryProofs`, `DeliveryJournalProofs`, `PairingProofs`, `DeviceProofs`, `HostProofs`, `ProgramProofs`, `CodexStorageProofs` | the theorems |

The components of `MCDevices`, `MCHosts` and `MCPrograms` share no state. Such a
module composes them so that every behaviour is about one of them: `scope` is
chosen at the start and the others stay in one initial state. This is only an
economy of runs; the interactions that exist are inside a module.

In every module an operator named `...Mutant` is a deliberately wrong form of
the definition that follows it: a dropped guard, a missing reset. No behaviour
uses it. Replacing the definition by it must make a property fail, which shows
that the property can see that mistake.

Where a component has many properties, they are conjuncts, each with its own
comment, of one definition that the run checks (`RoomsSafe`, `WakeSafe`, ...).

### SubmissionPromise

Every id is a licence: `open`, `held` by someone who may be submitting, `spent`.
`Take`, `Use`, `Refuse`, `Learn`, `Forget` say how a licence, the submissions the
session got and the claimed facts may change; one step makes one such choice for
every id, because retention, a quarantine or a restore touches them together.
`Handoff`, `DeliveryJournal` and `RemoteHandoff` each instantiate it as `Promise`
with their own refinement mapping (`Licence`, `Fact`).

### Handoff

*State.* `ledger` is the file, `backup` a copy the operator kept, `proc` the CLI
processes with a program counter between transactions, `coll`, `sock`, `spawned`
the collector, its socket file and launches under way, `requests` the frames
written to it, `effects` what the receiving session got, `holders` who knows the
receipt capability, `age`, `due`, `boot` time. `used` is the set of correlation
ids generated; ids are never generated twice.

*Steps.* Each ledger transaction holds the file lock, reads and validates all
records, applies retention, runs its body and replaces the file, and a body that
raises saves nothing. So a transaction is one step; everything between two
transactions interleaves. `cmd_handoff_send` is `SendFresh`/`SendPrepared`,
`Refuse`, `LaunchCollector`, `AskMint`, `MintFails`, `RevokeAuthority`, `Fence`
(the durable intent to submit), `Native`, `RecordOutcome`; `handoff_wait` is
`WaitBegin`, `QueryClock`, `OpenWait`, `Poll`, `Interrupt`; the collector is
`CollectorStart`, `HandleMint`, `Receipt`, `HandleClassify`, `CollectorStop`;
`Compact` is any transaction that only persists retention. Faults: a process, the
collector or the machine stops at any point, records grow old, a copy is taken
and restored with `quarantine_restored`.

*Abstractions.* Addresses, texts and the evidence checks before a send are
refusals that may come. Clock readings are ordered only within a collector epoch
(`capClock`), which is what `OrderProvable` tests. The record keeps the fields the
validation (`RecordValid`) and the public projection (`PublicValid`) look at.

### RemoteHandoff

*State.* `ledger` and `sender` as above for the other caller; `child` the bounded
SSH child, `job` its effect command on the remote host, `target` and `boot` what a
restart there changes, `delivered` what the session got, by whom and when; `now`.

*Steps.* Refusals, probe, durable intent (`Intend`), the child with what it shows
(`Spawned`, `KeySeen`, `SourceStreamed`, `ChildEnds`), `Binds` (the response is the
sender's), `Classify`, the terminal record. An interrupt of the sender itself
(`SenderInterrupted`), outside what the child's supervision catches, may fall
before the response is bound, which loses it, into its validation, or into the
validation of the retained one, which loses it too. The remote command (`RemoteStarts`, `RemoteSubmits`, `RemoteFails`) goes on
without its client; its only guard is the deadline it derives from the probe's
clock value. The sender may be killed, the target replaced, the host rebooted.

*Abstractions.* Both clocks advance together and are never compared with each
other. `generation` stands for what identifies a target.

### HandoffWatch

`history` moves, `Samples` reads it, a frame goes to the writer child (`helper`)
which may write a part of it and block; `Acknowledged` and `Counts` are two steps,
between which an interrupt may fall, as in the code. `clock` has the three limits
(samples, end frame, waiting). An interrupt between acknowledgement and counting
leaves the end frame's count one behind; `EndTrue` says so.

### DeliveryJournal

*State.* `call` the sender's commands, `frames` requests on their way, `task` the
receiver's handlers, `loop` the one request in the stretch of the event loop
between reading the authorization and the journal's transaction, `worker` the
native workers, `journal`, `peer`, `recovery` the database, `backup` its snapshot.
`closed` and `late` are history.

*Steps.* The sender's `app.exchange` is `StartCall`, `NoRoute`, `Submit`, `GiveUp`,
`Expire`. `Receiver.dispatch` is `Dispatch` (`OnStatus`, `OnSend`), then
`Store.begin` is `Begin`, one transaction that commits the pending row before any
effect; `Native.invoke` is `Spawn`/`SpawnFails`, `WorkerEnds`, `Finish` with the
result recorded or the transaction failed, `Answer`. `ReceiverGone` is a stop or
a crash: the workers survive it. `Revoke`, `Backup`, `Restore` are other processes.

*Abstractions.* One receiver and one of its peers: the key of a row is the pair
(peer, id). A lost answer is `GiveUp`; a request that outlives it still arrives.

### RouteSelection

*State.* At the client the exchange (`client`), a dialling task per route (`task`)
and its ends of channels (`near`); at the receiver the handlers (`far`), the sets
of places (`places`), the relay `listener`, `closing`, `withdrawn`. A channel is
named by its route and attempt; strangers are other clients.

*Steps.* `Connects`, `Handshake`, `Probed`, `TimesOut`, `Fails`, `TriesAgain`,
`Select` (winner, cancellation and closing of the losers), `Send`, the answer or
none, `CloseChannel`; `HandlerStarts` (or never, when cancelled first), `Served`,
`HandlerEnds` with its finally block, `Cleanup`, `WatchPeer`, `Close`, `Listen`.

### Pairing

*State.* `db` the receiver's rows about invitations, peers, keys and reservations;
`cl` each client's own store: its peer row for the receiver, its staged
reservation, its saved intents; `proc` the `device pair` commands; `strays`
requests whose client gave up, which are still handled; `past` and `clientPast`
two independent clocks; `old` offers past the week for which they are kept.

*Steps.* Every store operation first expires what is overdue and keeps that even
when the operation is refused (`Expire`, then `Prepared`, `Committed`, ...). The
receiver answers `prepare` (`PrepareEffect`) and `commit` (`CommitEffect`). The
client's command: save the intent (links), look at its store, try to reconcile an
earlier attempt, stage the pending peer, prepare, commit, remember, or discard.
The operator creates files and links, cancels, lists and revokes. A receiver
upgraded from the version before offers may start with pending peers that have
no reservation (`Init`, `Adopted`).

*Abstractions.* Keys are first-generation, so a principal is its key; attempt
limits and capacities are refusals that may come at any time; a transaction
happens at one instant of the receiver's clock; link text and prompts are left out.

### Rotation

*State.* `keyGen` the key generation of each device, `saved` its saved proposal,
`run` its `device rotate` with the loop it is in and the peers left to do,
`serving` whether its receiver runs, `peer[e][d]` what `e` has recorded about `d`
(status, pinned certificate, key rows, operations), `requests` those under way.

*Steps.* `Rotate` takes the state lock, which needs the receiver stopped
(`Locked`), and starts or resumes. The first loop prepares the new key with the
old one (`SendPrepare`) or, where the peer has it already, asks with the new one
(`AskStatus`); the second commits with the new one (`SendCommit`); `ActivateKey`
makes the key the device's own. Any failure ends the run (`Failed`, `GivesUp`) and
it is resumed. `Handle` is a request's admission and its transaction; a
revocation by another process may fall between the two, so `RevokeDevice` also
says which requests had been admitted. Faults: lost answers and late requests,
crashes, revocation, and delay: the ten minutes for which a retired key may still
ask for the outcome end (`WindowEnds`).

*Abstractions.* Devices are all paired with each other at the start and are
numbers, for the order in which a loop takes its peers; a proposal that fails
validation and registration at a control server are left out. A generation
doubles as the operation's id, since a proposal is reused until active.

### Recovery

*State.* `staging` with the directory under way and what kills have left, the
`restored` directory; the `archive`; per fresh state
`plan`, `gate`, `pinned`; per peer `trust`, `generation`, `approvals`; `files`, the
requests and approvals that are carried, lost, kept and used again; `fenced`.

*Steps.* `Stage`, `PublishRestored`, `RestoreFails` and then `Removes`, file by file and
in any order, `RestoreKilled` at any point, also of the removal; `BeginRecovery`, `Reconcile`, `MakeRequest`, `Approve`,
`CommitApproval`, `Fence`, `Activate`: each command holds its store's lock and
writes one transaction. Peers rotate and revoke meanwhile. Peers that were paired
after the snapshot are not in the plan; a peer that rotated after it can approve,
but its approval, by a key the archive does not know, is not accepted.

### RelayRooms

*State.* Tickets `issued`, `expired`, in `sessions`; `revoked` devices; `connections`,
`waiting`, `room`, `sock` with each handler's program counter.

*Steps.* One asyncio loop: a handler is cut only where it awaits, so
`process_request` (`Connect`) and the handler up to its first wait are single
steps; then `Handler`, `Deadline`, `StreamEnds`, `WatchCloses`, `ReleaseSlot`, and from
outside `Disconnect`, `TicketExpires`, `WithdrawDevice`. A room is named after the
connection that opened it. `GoesOn` says that the loop still has a step to take
for a connection, by the guards of those steps.

*Abstractions.* Frames are not told apart; the sliding windows of admission
requests are left out; tickets expire while they are pending.

### ControlPlane and ControlProcess

`ControlPlane`: a mutation is three steps, since the state file is read by
another process and becomes durable before its transaction commits: the revision
is reserved (autocommit), the file is published, the transaction commits; the
service may crash between any two, and each may fail. `Admit`/`Signed` cross an
await; `Authorize`, `ReadState`, `InitializeReplay` are the relay's. State: `db`,
`revision`, `control`, `file`, `signing`, `tickets`, `replay`, `admitted`,
`receipts`, `epoch`. All requests are of one account.

`ControlProcess`: `database`, the `migration` transactions, the `process` with its
listeners, timers and notifications, `request`s, `systemd` with the time since
`WATCHDOG=1`. Time is in seconds. The driver of the database is synchronous: a
publication (`PublishWaits`) or a request (`Waits`) that needs the lock of a
migration holds the event loop for up to `BusyLimit` seconds (`busy_timeout`,
`storage.ts:37`), one after another. While the loop is not `Free` no timer fires,
nothing is published or notified and no request goes on; systemd still hears a
notification on its way (`Hears`), which the loop is told of later (`Notifies`), and
nobody ends a slow one. Nothing else keeps the loop for a whole second.
`NotifyLimit` is the two seconds after which a notification is given up. A
statement of `mutate` is a step, so that more can come between two of them than in
the code. The wait of a migration for another one and that of a starting service
are not timed. Of the migrations only Better Auth's own may fail. Configuration and credentials are
left out, and publications succeed or fail.

### AccountGate

`slot`, `overdue`, `account`, `callback`, `session`, `code`, `claim`, `asking`,
`approval`: every statement or transaction is a step, every await lets others
run. Better Auth is external: it creates users, accounts, sessions and codes,
calls the hooks, and may stop between any two of its steps. Signup closes only by
a restart. An account inserted after its reservation was pruned is locked out
(`orphans` remembers it): the gate fails closed.

### CodexWake and CodexStorage

`CodexWake`: `writer` per saved copy, `guard` and `stamps` (the wake lock and its
file), `send`, `server`, `queued`, `reserved`, and a clock that may be set back.
`Inspects` looks at one copy, `Resolves` selects, `Revalidates` looks again,
`Guards`/`Reserves` take the lock and an activation, `Queues`, `Activates`,
`Resumes`, `StopsServer`; commands are killed, which leaves orphaned app-servers.
A kill between overwriting and cutting the stamp file (`Cuts`) leaves it
unreadable, and later wakes are refused. A writer is a number that never comes
back. Storage and version checks are refusals here.

`CodexStorage`: `layer`, `mark` (project roots), `version`; a `job` walks its `Plan`,
the sequence of checks of a send, a dry run or a wake, and hands over to the
native loader, an external reference that reads the layers itself. One check
call is one step. A second part reads one file in pieces while others replace it
(`conf`, `reader`). Preferences are plain on other systems than macOS; the
translated Windows home is excluded.

### ClaudeInbox and AntigravityBridge

`ClaudeInbox`: the machine has processes (`life`), registry files (`listed`),
sockets (`inbox`); numbers, paths and file numbers are used again, profiles
replaced. `Sending` is discovery file by file, resolution, revalidation, the
connection, the second revalidation and the write, here or over SSH. One
revalidation is one step: it only refuses. That a file number comes back is
excluded (`~reused`) only where nothing is pinned. Windows pipes are left out.

`AntigravityBridge`: under the thread's lock (`locked`) a bridge binds its socket
(`bound`), writes its registration, serves one connection at a time, remembers the
requests of its generation in memory and cleans up, in single steps, and may be
killed between them, also while a native call it made goes on. An attempt reads
the registration, asks for the status, posts, and may give up.

### AddressBook, Updates and SshTrust

`AddressBook`: three files, each with its lock; `older` has the versions a loss of
power may bring back until the directory is synced. A command's steps are its
reads, its probe and the system calls of the write. An entry is a value and a
revision stands for it; a session behind a route is a number that grows when
anything about it changes. The identity checks of the file are abstracted.

`Updates`: a publisher under the installation lock looks, keeps the program by a
hard link, makes the launcher, renames, verifies, undoes, and may be killed
between any two. The outsider (a host's own update, the installer, the
uninstaller) takes no lock; each of its visits is one step. The attestation of a
release is taken as given.

`SshTrust`: `there` the directory at the path, `entry` the file in it, `changed`,
`unsafe`, `walk` with its descriptors. The walk opens, reads in pieces and confirms
while everything may be replaced; any step, and any close, may fail. The path has
one directory of interest.

### McpServer

`tool` the calls, `cli` the process group of each, its pipe holders and output.
`Begins` checks policy and preset, `Spawns`, `ReadsAll`/`StopsReading`, `Cancels` at any
step (also a second time, during cleanup), `Terminates`, `Kills`, `Reaps`, `Concludes`
with what is told. POSIX only; what the command line says of its own effect is
taken as true, since `CodexWake` and `ClaudeInbox` are about that.

### SetupJournal

`journal` is `setup.json`; `run` the invocations with a program counter; the effects
are the identity's `files`, offers, `minted` invitations and `savedInvites`,
`policyFile`, `enrollSent`/`enrolled`, `pairTried`. Each command first records what it
is about to do, does it, and records that it did; `Killed` ends it at any step,
which also stands for an error that decides nothing; its lock goes with it. Each
replacement of a file is one step. Beside the commands an offer is taken up or
expires, the service enrols, the operator writes a policy, revokes, or loses a
file. The string `"unset"` stands for a field that was never given.

## Runs

All runs finish the whole state space of their instance. `CHECK_DEADLOCK FALSE`
everywhere: commands end, and a system with nothing to do is a legal end.

| Run | Instance | Shows |
| --- | --- | --- |
| `race` | 1 id, 2 senders, 1 receipt, kills and quarantined restores | `AtMostOneEffect`, `UnsentMeansNoEffect` (what may still be sent was not), `OutcomeTruthful`, and the refinement `KeepsPromise` |
| `life` | 1 id, 2 commands of every kind but the best-effort send that `race` has, 2 receipts, 2 collectors, 2 boots, ageing | `TypeOK`; `LedgerValid`: no saved record is one the validation rejects, which would lock the whole ledger; `StatusTrue`; `ClassificationFinal` (waits, acknowledgement, first receipt); `AuthorityHeld` (authority of a collector that is gone is dead, and it is minted only for an intent nobody attempted) |
| `live` | 2 commands with waits, no faults, fairness | `EarlyReceiptSettled`: a receipt that overtook the record of its submission is classified; `WaitersReturn` |
| `facts` | a `send --wait-for` and a restored copy | violates `NativeFactsReported`: see [the finding](#the-finding) |
| `journal` | 3 requests with one id, 2 texts, 2 bindings, loss, crashes, failing transactions, restored archives | `TypeOK`, `AtMostOneSubmission`, `AnswersTrue`, `NotFoundSettles`, `ReceiptsKept`, the refinement `KeepsPromise` |
| `settle` | 2 accepted requests, one worker slot, failing transactions, revocation, fairness | `RevocationOvertakenOnce`, `PendingSettles` |
| `invitation` | 2 clients, 1 private file, loss and revocation | `ReservationsOwned`: pending trust belongs to the one client that holds a live invitation, and no client believes it is paired before it is |
| `offer` | 1 client with a file and a link, every fault but long time | `OffersSound`: true offer status, the intent saved first, anchors kept, trust taken by revocation only |
| `reconcile` | 1 link, 2 concurrent commands, loss, pruning, fairness | `Reconciles` |
| `programs` | scopes `rooms`, `claude`, `bridge`, `begin`, `offer`, `invite`, `watch`, `accounts`, `tools`, `layers`, `file` | `RoomsSafe`, `ClaudeSafe`, `BridgeSafe`, `SetupSafe`, `WatchSafe`, `AccountsSafe`, `ToolsSafe`, `StorageSafe` |
| `devices` | scopes `route`, `restore`, `recovery`, `rivals`, `rotation`, `schema`, `beat` | `ExchangeSafe`, `RecoverySafe`, `RotationSafe`, `ProcessSafe` |
| `hosts` | scopes `ssh`, `copies`, `chain`, `rate`, `control`, `book`, `rebind`, `update`, `config` | `RemoteSafe`, `WakeSafe`, `RegisterSafe`, `AddressesSafe`, `UpdatesSafe`, `SshTrustSafe` |

What the conjunctions say, part by part:

| Property | Parts |
| --- | --- |
| `RoomsSafe` | a ticket admits once and is not lost; open connections fit the limits; a waiting room can be joined; frames stay between the two roles of one room; a late room is never paired; nothing stays behind when the loop has nothing to do |
| `ExchangeSafe` | no channel is left open; one submission, over the probed winner; no second attempt after a possible arrival; places bound what is open |
| `RotationSafe` | one key acts; every device can prove a key to every peer; active only when every recorded peer committed; rotating devices never all block each other; a retired key stays retired |
| `RecoverySafe` | active means the old identity is replaced everywhere; once only; pinned generations are true; what a restore publishes, and what a kill leaves of it, is in quarantine, unless the kill cut off a removal; a revocation sticks |
| `ProcessSafe` | serves a valid schema only; a migration is whole and invents nothing; a service that lost its health is down in time; one that kept it is killed only if its loop was held for most of the watchdog time |
| `RegisterSafe` | one map per revision; a healthy file is what is committed; a ticket admits once, for current keys; an operation takes effect once; revocation is final |
| `RemoteSafe` | `Promise`, true outcomes, effect before the cutoff, the recorded target only, evidence lost only to an interrupt of the sender, true exit codes |
| `WakeSafe` | what is told is true; no message beside a writer; app-servers under their lock; the rate; chains of wakes end |
| `AddressesSafe` | answers kept; unique labels; bound through the preset; sent as reviewed |
| `UpdatesSafe` | what a push says is true; no downgrade; a clean undo |
| `SshTrustSafe` | one configuration for a command; descriptors closed |
| `ClaudeSafe` | a pinned message reaches its process or nobody; any message the inbox seen; stale files are harmless; what is told is true |
| `BridgeSafe` | one call per request; true replies; generations and their limit kept; files of the serving bridge stay |
| `SetupSafe` | every offer that can pair is accounted for; the journal is true; enrolled once; nothing twice; a policy is never replaced |
| `WatchSafe` | a sound stream; a true end frame; a true exit code |
| `AccountsSafe` | nobody adopted; reservations kept; codes bounded; approved, and asked, by the claimer only |
| `ToolsSafe` | nothing left running; true answers; the confirmed route |
| `StorageSafe` | another database only by a late edit; a file read as one whole |

*Why the bounds are enough to be interesting.* Two senders are the least that can
race, and a third would be refused by the same phase check. Correlation ids meet
only in retention and quarantine, which treat each record by itself, so one is
enough. Two receipt ids give duplicates and rivals; two waits give an originating
wait and a later one; two epochs give authority of a collector that is gone. In
the journal three requests with one id are an original, a repetition and a status
query, in every order. Two clients are needed for rivalry over an invitation, two
commands of one client for concurrent entry of a link, and a file beside a link
for the interplay of two invitations of one client. Rotations need two
generations for a commit of the first to arrive after the second. Three
connections in the relay are a pair and a rival. Three homes are two copies of a
thread and a second thread, three principals beside the desk a lost device and
two that would replace it, two bridges a killed one and its successor. Every
theorem below holds without these bounds.

*Reductions.* They are stated in the MC modules beside each scope:
- numbers are used in order where they are interchangeable (connections, sends,
  invocations, commands of the address book; tickets are issued in one order and
  redeemed in any);
- `rooms`: one ticket expires or one device is withdrawn;
- `bridge`: requests without an id all have one text; the TUI starts again only
  while a bridge is left to start;
- `layers`: at most two layers or directories say anything, two only of storage,
  markers, roots or links and without a dry run; with an edit at most one does;
- the three scopes of setup separate beginning, offers, and invitations with
  pairing;
- `route`: one stranger at a time; `restore`, `recovery` and `rivals`, `schema` and
  `beat` split what can be combined, as do `copies`, `chain` and `rate`; in `beat` the
  service starts once and one migration runs, with both listeners and a stop
  under the short watchdog time, with one listener and no stop under the long one;
- `ssh`: only the first invocation may be a dry run;
- `control`: time passes once a ticket is signed or being signed, the replay file
  is lost once there is something to replay, two operations have ids reserved;
- `book` has two commands with every fault, `rebind` three without faults.

`MaxEpoch`, `MaxBoot`, `MaxWaits`, `MaxRows`, `MaxGen`, `MaxRevision`, `MaxNode` and the
other `Max...` constants bound counters; `MaxWaits` (64), `MaxRows` (10,000), `Slots`
(2), `CodeLimit`, `MaxRequests`, `Capacity`, `MaxSpent`, `rate` and `Limits` are limits of
the code with smaller values. `Deadlines` {0, 3, 6}: no watchdog, the
shortest the unit may set, and one that two seconds of a held loop cannot use up
but three can. `BusyLimit` is the three seconds of the code.

## Fairness

- `Handoff!FairSpec`: a process that is not killed runs on. The native call is
  bounded by the command's total budget, the polling loop sleeps and looks again,
  and the collector handles every frame it accepted. `WaitersReturn` also assumes
  `Deadlines`, that clocks advance; `EarlyReceiptSettled` does not, or every
  receipt could be explained away by a deadline. The `live` run has no faults: a
  kill would end the process the property is about.
- `DeliveryJournal!FairSpec`: the event loop runs what is ready, and
  `Native.invoke` collects a worker when it ends or after 35 s.
- `Pairing!FairSpec`: a user whose link was interrupted enters it again (strong
  fairness of `Start`: it is possible again and again), commands run on, and of
  the requests sent again and again some are answered (strong fairness of
  `Answered`), which the receipt's week allows for.
- The other modules have none: where something must not stay behind they say
  what holds when nothing is left to do (`NothingLeftBehind`, `NoChannelLeft`,
  `LeavesNothing`, `DescriptorsClosed`) or what can still be done (`NobodyStranded`,
  `NoMutualBlock`), and `ProcessSafe` counts the time.

## Proofs

Every invariant and action property that a run checks, both refinements
`KeepsPromise` and the one inside `RemoteSafe` included, is a theorem: it holds for
every value of the constants under the assumptions declared beside them. The
assumptions say that bounds are naturals, that names for "nothing" are not names
of something, that the faults are known ones, and what a composite constant looks
like (which ticket has which role, which home which thread, limits that are
nested as `relay.py` checks its own, at most two seconds for a notification). TLC
evaluates them on every run.

None of the properties is inductive. Each proof has an inductive invariant, whose
proof has one lemma per action or kind of action; TLC checked it first. What the
invariants add, and why it is needed:

**`HandoffProofs`**: `TypesHold`, `LedgerStaysValid`, `AtMostOnce`, `FenceIsDurable`,
`OutcomesAreTrue`, `PromiseKept`. Nothing in `AtMostOneEffect` keeps a second sender
from being past the fence. `IInv` adds `LedgerInv` (every record of the file *and of
the kept copy* is `Good`, the validation's conditions strengthened where a later
transaction relies on more), `ProcInv` (a process past the fence faces an intent
that is no longer `prepared` and of which no fact is recorded), `OneSender`, and
`IntentInv` (an unused id is nowhere, a prepared one has no submission, and of a
`refused` one nobody can submit any more). Most actions are *tame*: they neither
authorise, perform nor report a submission, and one lemma disposes of them; the
others focus on one process and one id. The refinement follows the same split
(`TamePromise`, `FocusPromise`): each step is, for every id, a step of the promise
or none.

**`HandoffHistoryProofs`**: `StatusTold`, `ClassificationStands`, `AuthorityHolds`.
`HInv` adds to `IInv` that every record, of the file and of the copy, tells a
consistent story of its waits, receipt and authority (`Stories`), that no wait is
satisfied while somebody may still submit (`FencedStory`), that the copy is not
ahead of a prepared intent (`BackupOlder`), and that authority of an earlier
collector is dead. Each transaction's record *continues* the one it read: nothing
finished is rewritten. Lemmas about the lists of waits carry this.

**`DeliveryJournalProofs`**: `TypesHold`, `SubmittedOnce`, `AnswersHold`,
`ReceiptsHold`, `ReceiptsStand`, `NotFoundIsFinal`, `RevocationHolds`, `OutcomesFinal`,
`PromiseKept`. One call *holds* an id from the insertion of its row on, and the row,
or the archive put in its place, stays (`OwnerInv`); rows of the journal and of the
snapshot are true of the workers, also after a restore (`RowsInv`); so are answers
under way (`AnswersInv`); a row of the state a restore put in place is rewritten by
nothing but another restore; a request closed by `not_found` is not and will not be
dispatched (`ClosedInv`); `late` has one member, because the event loop has one
synchronous stretch (`LateInv`), which is why `RevocationOvertakenOnce` holds for
any number of requests. For the refinement a step keeps the licence of an id, or
eases it the way the promise allows, given the invariant before and after.

**`PairingProofs`**: `OwnersKept`, `OffersKept`. A reservation holds an open
invitation that names its client, created the peer, which is pending by it until
revoked, and created no anchored key; a pending peer's invitation names it
(`HolderRight`); what an offer says agrees with who won it (`OfferRight`); intents
come before requests, also of a command that is gone (`CommandRight`, `StrayRight`,
`WinnerRight`). The receiver's transactions are lemmas about any database with these
properties (expire, adopt, prepare, commit, cancel, create, revoke), since every
operation begins with an expiry that stays even when it is refused.

**`DeviceProofs`**:
- `ExchangeKept`: where a connection is counted follows from how far its handler
  is; channels other than the current attempt's are unused and an attempt that is
  not connected has not reached the receiver; while racing nobody won, and once
  somebody won every task is finished.
- `RotationKept`: a store's rows about a device agree (the pinned key alone is
  active, only the next may be prepared); who follows a rotation pins a key the
  device has (`FollowRight`); receivers commit in the order of their ids (`InOrder`);
  a request still meets what its sender relied on (`RequestRight`); and no two
  devices have committed each other's rotation (`Uncrossed`). Of devices that rotate
  at once the greatest, or one that got ahead of it, is free: this is where the
  order of the loops is used, and why `Devices` is a finite set of numbers.
- `RecoveryKept`: an approval anywhere means the peer has replaced the old
  principal, which stays so; a committed item or fence means the same; a pending
  item is not pinned yet; generations in archive and approvals are true; a
  directory whose removal has not begun has one of the five contents of `Stage`.
- `RegisterKept`: the file is onward of the rows (a revocation stays, generations
  never grow less); a published file is the snapshot of the change under way; what
  was admitted is spent, expired, or from before the replay file.
- `ProcessKept`: one migration's transaction at a time, what each stage has
  established, and the age of the last beat per step of the watchdog, which is
  bounded by the timer period, the age of a notification and the seconds the loop
  was held; its lemma `Period` says that a timer period and a notification fit into
  every watchdog time the service accepts, so that `HeldTooLong` is false while
  nothing held the loop; with the deployed 30 s it needs 24 held seconds. A unit
  with a watchdog time shorter than the refresh of a failing publication is
  restarted by it, which is intended.

**`HostProofs`**:
- `RemoteHandoffSafe`: one sender at a time is active for an id; who holds the
  licence is who can still submit; a command on the remote host ends before the
  cutoff of its sender; what a sender is about to tell is what its response says,
  or unknown, and its exit code says the same.
- `WakesKept`: a lock is held by who says so, an activation was reserved, and a
  copy seen free has no writer older than the selection; as many stamps are in the
  file as reservations in the window that is open now; a hop is one more than its
  parent's. `Depth` and `Bound` are functions defined by recursion; that they equal
  what the invocations carry is shown by the least hop of a counterexample.
- `AddressesHeld`: a change not yet written is in no version a power loss may bring
  back; a binding stands for what its command bound; who holds the lock still has
  the file it read.
- `InstallationKept`: one publisher holds the lock; undisturbed, what it saw, kept
  and found still holds; one that was overtaken finds a foreign file.
- `ConfigurationTrusted`: with nothing late since the walk began, what it holds is
  at the path.

**`ProgramProofs`**:
- `RoomsKept`: who is inside has the seat of its role; an unpaired room has one seat
  taken, and a paired one with an empty seat is closing the other; a room waits if
  and only if its opener does; partners name each other; places are those of the
  handlers that have not given them back.
- `MessagesReachTheirSession`: while no file number came back, a socket seen once is
  its owner's wherever it is seen again; what each step of the post holds.
- `BridgeKept`: the worker of a bridge holds the lock and the files; a queued request
  has not been called; calls are at most what is remembered, and that at most the
  limit; what is remembered, or told, was accepted.
- `WatchTold`: per step of the command where its child is, what was printed, and
  what the frame in the child's hand will continue.
- `AccountsAdmitted`: waiting and asked codes are counted together; what is under way
  rests on a reservation that cannot be pruned; accounts without one are legacy.
- `ToolsKept`: which processes there may be at each stage of the cleanup; a message
  goes to one agent, so an answer that decides it is the only one.

**`CodexStorageProofs`**:
- `StorageHeld`: the plan of a command is not computed; that every effect directly
  follows its last checks holds of its parts and is kept when they are joined.
  While nothing is edited late, what the last checks found still holds; what was
  read of a file lies between its beginning and now.
- `SetupKept`: a command past its start holds the lock, and the database file stays
  (`LockRight`); an identity that was generated leaves a trace, so that who was let
  through to generate one found none (`IdentityRight`); what the journal and the
  offer's row say at each step of an offer command (`OfferRight`); nothing was sent
  before the enrolment is in doubt, and then only the journal's operation
  (`EnrollRight`); how far minted invitations are ahead of saved ones (`InviteRight`);
  and likewise for a pairing. Two runs would be confused with "nobody" if 0 were
  one of their names, which the assumption excludes.

*Only model-checked:* liveness under fairness (`EarlyReceiptSettled`,
`WaitersReturn`, `PendingSettles`, `Reconciles`), which the prover cannot do; and the
violation in `facts`. `ENABLED` is out of its reach too, so that `NothingLeftBehind`
speaks of `GoesOn`, the guards of a handler's own steps.

## The finding

`handoff.py:1548-1549` says that a failed commit or query "must not erase
independently validated native facts". In `facts` a `send --wait-for` passes its
fence and its native call; meanwhile a copy of the ledger from before the fence is
restored under quarantine, and its record has no wait. The outcome transaction
then runs `next()` over no match (`handoff.py:1532`), and the `StopIteration` is
none of the exceptions the handler around it lists, so the command dies with the
native outcome unreported. The model's `Missing` and the pc `crashed` show it.

Observed while modelling, without a run of their own, because no document says
otherwise: a device paired between two runs of an interrupted rotation is not
among the rotation's recorded receivers; a revocation that falls between the
admission of a rotation commit and its transaction leaves the new key's row
active, but the revoked peer row, which no commit touches, denies it; revoking a
recorded peer during a rotation blocks that rotation, which the tests expect; a
wake killed between overwriting and cutting its stamp file leaves a file that
refuses later wakes; no command clears the journal's entry of an invitation
file whose command was stopped, so that later ones are refused; a restore that is
killed while it removes what it prepared (`lifecycle.py:132`) can leave, under its
temporary name, an identity without its marker and its tombstone, which opens,
although `docs/relay-lifecycle.md:84` calls interrupted staging unusable
(`NeverHalfRestored` names the exception); and a migration beside the service can
hold its event loop by `busy_timeout` for three seconds per statement, so that a
watchdog time of a few seconds, which `watchdog.ts:22` accepts, kills a healthy
service (`HeldTooLong`).

## Not modelled

- *Link text, terminal guide and setup hints*: the codec and prompts; the state
  behind a link is in `Pairing` and `SetupJournal`.
- *Wire format and channel framing*, TLS identities: every module of the paired
  devices takes an authenticated, well-formed request as its input.
- *Adapters, replies and message text*; *command line, output, diagnostics*: no
  state; what a command does is an action of its component's module.
- *Control server configuration, metrics, discovery, client addresses*: pure
  functions, input and output.
- *The single file* is generated; *the legacy tool* `cc_peer.py`, deployment, plugins
  and skills are kept or packaged beside the program.

Inside the modelled components: an agent tool that fails to start (the next one is
tried) and an interrupt inside `Popen` before its handle is bound; a signal between
the exchange of an installed file and the note that it was published; the first
creation of the address book's directory; that what was read of a Codex file is
compared by device, inode, size and time, where the model counts every write; the
clock readings of quarantined records; the abstractions named above, validation of
inputs, wording, cryptography (a request is from the key it claims), rate windows
in front of the relay and the control server, message listing, release metadata
with its attestation and the notice cache, setup's `login`, `ready`, `receiver`,
`cancel`, `plan` and targets, a rotated identity's directory, loading the tool
server's policy file and its metadata lists, and Windows' pipes and processes.

## Plan

1. *(done, proved)* `Handoff` with `SubmissionPromise`; `DeliveryJournal` and
   `RemoteHandoff` with the same promise.
2. *(done, proved)* the devices: `Pairing`, `Rotation`, `Recovery`, `RouteSelection`.
3. *(done, proved)* relay and control service: `RelayRooms`, `ControlPlane`,
   `ControlProcess`, `AccountGate`.
4. *(done, proved)* the programs of one host: `CodexWake`, `CodexStorage`,
   `ClaudeInbox`, `AntigravityBridge`, `AddressBook`, `Updates`, `SshTrust`, `McpServer`,
   `SetupJournal`, `HandoffWatch`.
5. Left: pairing during an unfinished rotation, by composing `Pairing` and
   `Rotation`; the selection of an SSH configuration across concurrent hosts; the
   sliding request windows of relay and control server; liveness of the relay's
   rooms and of a resumed rotation.
