---------------------------- MODULE ControlPlane ----------------------------
(***************************************************************************)
(* The control service's device register and what the blind relay makes of *)
(* it (control/src/server/relay-control.ts with the relay's auth.py and    *)
(* the clients' control.py).  The service keeps devices, operations and    *)
(* challenges in its database and publishes the devices as a signed state  *)
(* file with a revision; the relay reads that file whenever it admits      *)
(* anyone, and keeps the highest revision and the spent tickets in a file  *)
(* of its own.                                                             *)
(*                                                                         *)
(* The service is one Node thread and its database calls are synchronous,  *)
(* but the state file is seen by another process and becomes durable       *)
(* before the transaction that it belongs to commits.  A mutation is       *)
(* therefore three steps (the revision is reserved, the file is published, *)
(* the transaction commits), between which the relay may read and the      *)
(* service may crash.  All requests are those of one account.              *)
(***************************************************************************)
EXTENDS Integers, Sequences, FiniteSets

CONSTANTS
  Principals,    \* device principals; each is the digest of its first certificate
  Enrolled,      \* those registered, at generation 0, in the initial state
  Operations,    \* the operations clients start, by the payload of their id
  Admissions,    \* the admissions asked for: a device, to a receiver
  MaxTickets,    \* bound on the tickets signed
  MaxRevision,   \* bound on the revisions reserved
  MaxEpoch,      \* bound on the epochs: an epoch is as long as a ticket lives, and 5 s
  MaxSpent,      \* the spent tickets the relay keeps at most
  CPFaults       \* what goes wrong: a subset of AllCPFaults

AllCPFaults == {"loss", "crash", "disk", "commit", "replay"}

(* A registration introduces generation gen of a principal; a recovery     *)
(* replaces the principal old by a fresh one.                              *)
Registration == [kind : {"register"}, principal : Principals, gen : Nat]
Recovery == [kind : {"recover"}, principal : Principals, old : Principals]

ASSUME OperationsAssumption ==
  /\ \A o \in Operations : o \in Registration \/ (o \in Recovery /\ o.old # o.principal)
  /\ Enrolled \subseteq Principals
  /\ Admissions \subseteq [kind : {"admit"}, dev : Principals, recv : Principals]
ASSUME ControlBounds == {MaxTickets, MaxRevision, MaxEpoch, MaxSpent} \subseteq Nat
ASSUME ControlFaults == CPFaults \subseteq AllCPFaults

VARIABLES
  db,          \* the committed rows: devices, operations, challenges
  revision,    \* relay_public_revision, reserved by autocommit
  control,     \* the service's process
  file,        \* state.json in the public directory
  signing,     \* admissions whose ticket is being signed
  tickets,     \* tickets returned to clients
  replay,      \* the relay's replay file, and its memory of it
  admitted,    \* admitted[n]: how often the relay gave a session for ticket n
  receipts,    \* operations whose client holds a receipt
  epoch        \* time

controlVars == <<db, revision, control, file, signing, tickets, replay, admitted, receipts, epoch>>

Revisions == 0..MaxRevision
Row == [status : {"absent", "active", "revoked"}, gen : Nat]
DeviceMap == [Principals -> Row]
(* A challenge is for an operation or for an admission.                    *)
Challenges == Operations \cup Admissions
Change == [what : {"refresh"}] \cup [what : {"revoke"}, principal : Principals]
          \cup [what : {"operation"}, op : Operations]
Refresh == [what |-> "refresh"]
(* A ticket is for one key of a device; `iat` is the epoch of its issue.   *)
Ticket == [dev : Principals, recv : Principals, gen : Nat, iat : 0..MaxEpoch]

ControlTypeOK ==
  /\ db.devices \in DeviceMap
  /\ db.reserved \subseteq Operations /\ db.committed \subseteq db.reserved
  /\ db.challenges \subseteq Challenges
  /\ revision \in Revisions
  /\ control.pc \in {"down", "idle", "reserved", "published"}
  /\ control.change \in Change /\ control.healthy \in BOOLEAN /\ control.floor \in Revisions
  /\ file.revision \in Revisions /\ file.devices \in DeviceMap
  /\ replay.revision \in Revisions /\ replay.devices \in DeviceMap
  /\ replay.spent \subseteq DOMAIN tickets /\ Cardinality(replay.spent) <= MaxSpent
  /\ replay.notBefore \in 0..(MaxEpoch + 1)
  /\ \A n \in DOMAIN tickets : tickets[n] \in Ticket
  /\ receipts \subseteq Operations

Absent == [status |-> "absent", gen |-> 0]
EnrolledMap == [d \in Principals |-> IF d \in Enrolled THEN [status |-> "active", gen |-> 0] ELSE Absent]
ControlInit ==
  /\ db = [devices |-> EnrolledMap, reserved |-> {}, committed |-> {}, challenges |-> {}]
  /\ revision = 0
  /\ control = [pc |-> "idle", change |-> Refresh, healthy |-> TRUE, floor |-> 0]
  /\ file = [revision |-> 0, devices |-> EnrolledMap]
  /\ signing = {} /\ tickets = <<>> /\ receipts = {}
  /\ replay = [revision |-> 0, devices |-> EnrolledMap, spent |-> {}, notBefore |-> 0]
  /\ admitted = [n \in 1..MaxTickets |-> 0]
  /\ epoch = 0

----------------------------------------------------------------------------
(* The register's rules.                                                   *)

Device(d) == db.devices[d]
IsActive(d) == Device(d).status = "active"

(* validateRegistration: an active device goes to its next generation, an  *)
(* unknown one starts at generation 0.                                     *)
ValidRegistration(o) ==
  LET row == Device(o.principal) IN
  \/ row.status = "active" /\ o.gen = row.gen + 1
  \/ row.status = "absent" /\ o.gen = 0

(* validateRecovery: the old principal is one of the account's, revoked or *)
(* not, nobody else has replaced it, and the new one is fresh.             *)
ReplacedMutant(old) == {}
Replaced(old) == {c \in db.committed : c.kind = "recover" /\ c.old = old}
ValidRecovery(o) ==
  /\ Device(o.old).status # "absent"
  /\ Replaced(o.old) \subseteq {o}
  /\ Device(o.principal).status = "absent"

Valid(o) == IF o.kind = "register" THEN ValidRegistration(o) ELSE ValidRecovery(o)

(* What a change makes of the rows.  A proof is consumed with its          *)
(* challenge; a rotation, a recovery and a revocation drop every challenge *)
(* of the account.                                                         *)
Revoked(m, d) == [m EXCEPT ![d].status = "revoked"]
Operated(o) ==
  LET new == [status |-> "active", gen |-> IF o.kind = "register" THEN o.gen ELSE 0]
      kept == IF o.kind = "recover" THEN Revoked(db.devices, o.old) ELSE db.devices IN
  [db EXCEPT !.devices = [kept EXCEPT ![o.principal] = new],
             !.committed = @ \cup {o},
             !.challenges = IF o.kind = "recover" \/ new.gen > 0 THEN {} ELSE @ \ {o}]
Changed(c) ==
  CASE c.what = "refresh" -> db
    [] c.what = "revoke" -> [db EXCEPT !.devices = Revoked(@, c.principal), !.challenges = {}]
    [] c.what = "operation" -> Operated(c.op)

(* The change goes through inside the transaction, or is refused there; an *)
(* operation that is committed already is only answered.                   *)
Goes(c) ==
  CASE c.what = "refresh" -> TRUE
    [] c.what = "revoke" -> Device(c.principal).status # "absent"
    [] c.what = "operation" -> c.op \notin db.committed /\ Valid(c.op) /\ c.op \in db.challenges

----------------------------------------------------------------------------
(* Publication.                                                            *)

Idle == control.pc = "idle"

(* reserveRevision commits the next revision by itself, before anything    *)
(* else happens.                                                           *)
Reserve(c) ==
  /\ Idle /\ revision < MaxRevision
  /\ revision' = revision + 1
  /\ control' = [control EXCEPT !.pc = "reserved", !.change = c, !.healthy = FALSE]
  /\ UNCHANGED <<db, file, signing, tickets, replay, admitted, receipts, epoch>>
(* Reserving inside the transaction: the revision comes back on rollback. *)
Lost == revision

(* publish(): the new file is complete or not there at all.  A refused     *)
(* change publishes what is committed, so that the revision is used.       *)
Snapshot == IF Goes(control.change) THEN Changed(control.change).devices ELSE db.devices

PutFile == file' = [revision |-> revision, devices |-> Snapshot]

Publish ==
  /\ control.pc = "reserved" /\ revision > control.floor
  /\ PutFile
  /\ control' = [control EXCEPT !.pc = "published", !.floor = revision]
  /\ UNCHANGED <<db, revision, signing, tickets, replay, admitted, receipts, epoch>>

(* The disk fails before the file is renamed, or after it: the transaction *)
(* is rolled back whether or not the relay can see the new file.           *)
AfterFailure(c) == [control EXCEPT !.pc = "idle", !.floor = revision, !.healthy = FALSE]
PublishFails ==
  /\ "disk" \in CPFaults
  /\ control.pc = "reserved"
  /\ \/ UNCHANGED file
     \/ PutFile
  /\ control' = AfterFailure(control.change)
  /\ UNCHANGED <<db, revision, signing, tickets, replay, admitted, receipts, epoch>>

(* COMMIT, and the answer to the client, which may get lost.               *)
Answered(op) == {receipts \cup {op}} \cup (IF "loss" \in CPFaults THEN {receipts} ELSE {})
Commit ==
  /\ control.pc = "published"
  /\ db' = IF Goes(control.change) THEN Changed(control.change) ELSE db
  /\ control' = [control EXCEPT !.pc = "idle", !.change = Refresh, !.healthy = TRUE]
  /\ IF control.change.what = "operation" /\ control.change.op \in db'.committed
     THEN receipts' \in Answered(control.change.op)
     ELSE UNCHANGED receipts
  /\ UNCHANGED <<revision, file, signing, tickets, replay, admitted, epoch>>

CommitFails ==
  /\ "commit" \in CPFaults
  /\ control.pc = "published" /\ control.change.what # "refresh" /\ Goes(control.change)
  /\ control' = AfterFailure(control.change)
  /\ revision' = Lost
  /\ UNCHANGED <<db, file, signing, tickets, replay, admitted, receipts, epoch>>

Crash ==
  /\ "crash" \in CPFaults
  /\ control.pc # "down"
  /\ control' = [pc |-> "down", change |-> Refresh, healthy |-> FALSE, floor |-> 0]
  /\ signing' = {}
  /\ UNCHANGED <<db, revision, file, tickets, replay, admitted, receipts, epoch>>

(* The constructor takes the published revision as its floor and publishes *)
(* before it serves.                                                       *)
Start ==
  /\ control.pc = "down" /\ file.revision <= revision /\ revision < MaxRevision
  /\ revision' = revision + 1
  /\ control' = [pc |-> "reserved", change |-> Refresh, healthy |-> FALSE, floor |-> file.revision]
  /\ UNCHANGED <<db, file, signing, tickets, replay, admitted, receipts, epoch>>

----------------------------------------------------------------------------
(* Requests.                                                               *)

(* challenge(): an operation is checked and its id reserved, an admission  *)
(* needs both devices; an operation that is committed is told so, and the  *)
(* client reads its receipt.                                               *)
ChallengeOperation(o) ==
  /\ Idle /\ o \notin receipts
  /\ IF o \in db.committed
     THEN receipts' = receipts \cup {o} /\ UNCHANGED db
     ELSE /\ Valid(o)
          /\ db' = [db EXCEPT !.reserved = @ \cup {o}, !.challenges = @ \cup {o}]
          /\ UNCHANGED receipts
  /\ UNCHANGED <<revision, control, file, signing, tickets, replay, admitted, epoch>>

ChallengeAdmission(a) ==
  /\ Idle /\ IsActive(a.dev) /\ IsActive(a.recv)
  /\ db' = [db EXCEPT !.challenges = @ \cup {a}]
  /\ UNCHANGED <<revision, control, file, signing, tickets, replay, admitted, receipts, epoch>>

(* register() and recover() of an operation whose id is reserved.          *)
Submit(o) ==
  /\ control.healthy /\ o \in db.reserved \ db.committed
  /\ Reserve([what |-> "operation", op |-> o])

RevokePrincipal(d) ==
  /\ control.healthy /\ Device(d).status = "active"
  /\ Reserve([what |-> "revoke", principal |-> d])

(* The refresh of every minute, also what repairs a failed publication.    *)
RefreshState == Reserve(Refresh)

(* admit(): the challenge is consumed in a transaction; the ticket is      *)
(* signed asynchronously, and what it says is checked again after that.    *)
Admit(a) ==
  /\ Idle /\ control.healthy
  /\ a \in db.challenges /\ IsActive(a.dev) /\ IsActive(a.recv)
  /\ Len(tickets) + Cardinality(signing) < MaxTickets
  /\ db' = [db EXCEPT !.challenges = @ \ {a}]
  /\ signing' = signing \cup {[dev |-> a.dev, recv |-> a.recv, gen |-> Device(a.dev).gen, iat |-> epoch]}
  /\ UNCHANGED <<revision, control, file, tickets, replay, admitted, receipts, epoch>>

StillTrue(t) == IsActive(t.dev) /\ Device(t.dev).gen = t.gen /\ IsActive(t.recv)
Signed(t) ==
  /\ Idle /\ t \in signing
  /\ signing' = signing \ {t}
  /\ tickets' = IF StillTrue(t) /\ control.healthy THEN Append(tickets, t) ELSE tickets
  /\ UNCHANGED <<db, revision, control, file, replay, admitted, receipts, epoch>>

----------------------------------------------------------------------------
(* The relay.                                                              *)

(* ControlAdmission.state: a file no older than the newest one seen, and   *)
(* the same under the same revision.  One older than 180 seconds admits    *)
(* nobody, which is a step the relay does not take.                        *)
NotRolledBack == /\ file.revision >= replay.revision
                 /\ file.revision = replay.revision => file.devices = replay.devices
Seen == [replay EXCEPT !.revision = file.revision, !.devices = file.devices]

(* active(): both devices unrevoked, the key the one of the ticket.        *)
FileAllows(t) ==
  /\ file.devices[t.dev].status = "active" /\ file.devices[t.recv].status = "active"
  /\ file.devices[t.dev].gen = t.gen

(* _authorize: a ticket that has not expired (in the epoch after its own   *)
(* it may have), not from before a new replay file may be trusted, and not *)
(* spent; spent ones are dropped only when they have expired.  It is spent *)
(* durably before the session is given.                                    *)
MaybeLive(n) == epoch \in {tickets[n].iat, tickets[n].iat + 1}
Unspent(n) == n \notin replay.spent
Authorize(n) ==
  LET kept == {m \in replay.spent : MaybeLive(m)} IN
  /\ n \in DOMAIN tickets /\ NotRolledBack
  /\ MaybeLive(n) /\ tickets[n].iat >= replay.notBefore
  /\ FileAllows(tickets[n])
  /\ Unspent(n) /\ Cardinality(kept) < MaxSpent
  /\ replay' = [Seen EXCEPT !.spent = kept \cup {n}]
  /\ admitted' = [admitted EXCEPT ![n] = @ + 1]
  /\ UNCHANGED <<db, revision, control, file, signing, tickets, receipts, epoch>>

(* A relay that watches its connections reads the state too.               *)
ReadState ==
  /\ file.revision > replay.revision
  /\ replay' = Seen
  /\ UNCHANGED <<db, revision, control, file, signing, tickets, admitted, receipts, epoch>>

(* The replay file is lost and made anew by the operator: only tickets     *)
(* issued 65 seconds later count.                                          *)
FirstTrusted == epoch + 1
InitializeReplay ==
  /\ "replay" \in CPFaults
  /\ replay' = [revision |-> 0, devices |-> EnrolledMap, spent |-> {}, notBefore |-> FirstTrusted]
  /\ UNCHANGED <<db, revision, control, file, signing, tickets, admitted, receipts, epoch>>

----------------------------------------------------------------------------
(* Time.  A challenge is good for 60 seconds, and looked at once in a      *)
(* mutation.                                                               *)
Tick ==
  /\ epoch < MaxEpoch
  /\ epoch' = epoch + 1
  /\ db' \in {db} \cup (IF Idle THEN {[db EXCEPT !.challenges = {}]} ELSE {})
  /\ UNCHANGED <<revision, control, file, signing, tickets, replay, admitted, receipts>>

ControlNext ==
  \/ \E o \in Operations : ChallengeOperation(o) \/ Submit(o)
  \/ \E a \in Admissions : ChallengeAdmission(a) \/ Admit(a)
  \/ \E d \in Principals : RevokePrincipal(d)
  \/ \E t \in signing : Signed(t)
  \/ \E n \in 1..MaxTickets : Authorize(n)
  \/ RefreshState \/ Publish \/ PublishFails \/ Commit \/ CommitFails \/ Crash \/ Start
  \/ ReadState \/ InitializeReplay \/ Tick

ControlSpec == ControlInit /\ [][ControlNext]_controlVars

----------------------------------------------------------------------------
(* Properties.                                                             *)

(* A revision stands for one device map, whatever failed or crashed        *)
(* between its reservation and the commit, so the relay never takes an     *)
(* honest publication for a rolled-back one and locks everybody out.       *)
RevisionsStandForOne ==
  [][/\ file' # file => file'.revision > file.revision
     /\ NotRolledBack']_controlVars

(* While the service says that it is healthy, what the relay reads is what *)
(* is committed; and a revocation that is committed is in the file at any  *)
(* time, healthy or not.                                                   *)
FileTellsCommitted ==
  /\ control.healthy => file.devices = db.devices /\ file.revision = revision
  /\ \A d \in Principals : Device(d).status = "revoked" => file.devices[d].status = "revoked"

(* The relay gives one session for a ticket at most, over all its restarts *)
(* and over a loss of its replay file.                                     *)
TicketAdmitsOnce == \A n \in 1..MaxTickets : admitted[n] <= 1

(* When it gives one, the device and the receiver are active in the        *)
(* committed register and the key is the current one, though the file it   *)
(* looks at is written before the commit and may never be committed.       *)
AdmitsCurrentKeys ==
  [][\A n \in 1..MaxTickets : admitted'[n] > admitted[n] => StillTrue(tickets[n])]_controlVars

(* Lost answers and repeated submissions: a receipt is for a committed     *)
(* operation, every key generation and every recovered principal comes     *)
(* from one committed operation, a lost principal is replaced by one other *)
(* at most and is fenced when it is.                                       *)
OperationsTakeEffectOnce ==
  /\ receipts \subseteq db.committed
  /\ \A o \in db.committed :
       o.kind = "recover" => /\ Device(o.old).status = "revoked"
                             /\ Device(o.principal).status # "absent"
                             /\ Replaced(o.old) = {o}
  /\ \A d \in Principals \ Enrolled : Device(d).status # "absent" =>
       \E o \in db.committed : o.principal = d
  /\ \A d \in Principals : \A g \in 1..Device(d).gen :
       [kind |-> "register", principal |-> d, gen |-> g] \in db.committed

(* A revoked device stays so and a generation never comes back.            *)
RevocationFinal ==
  [][\A d \in Principals : /\ Device(d).status = "revoked" => db'.devices[d].status = "revoked"
                           /\ db'.devices[d].gen >= Device(d).gen]_controlVars

(* What the register and the relay's view of it guarantee: a healthy file  *)
(* tells what is committed, a ticket admits once, lost answers and         *)
(* repetitions have no second effect, a revision stands for one map, the   *)
(* relay admits current keys only, and a revocation is final.              *)
RegisterSafe ==
  /\ [](/\ ControlTypeOK
        /\ FileTellsCommitted
        /\ TicketAdmitsOnce
        /\ OperationsTakeEffectOnce)
  /\ RevisionsStandForOne
  /\ AdmitsCurrentKeys
  /\ RevocationFinal
=============================================================================
