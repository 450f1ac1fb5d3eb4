------------------------------ MODULE Handoff ------------------------------
(***************************************************************************)
(* Correlated handoff on the sender's machine                              *)
(* (session_peer_core/handoff.py): several short-lived CLI processes       *)
(* (`send` with an id, `handoff wait`, `handoff confirm`), one detached    *)
(* receipt collector and the receiving session share one ledger file.      *)
(* Every ledger transaction takes the file lock, validates every record,   *)
(* applies retention, runs its body and replaces the file; a body that     *)
(* raises saves nothing.  A transaction is therefore one atomic step, and  *)
(* everything between two transactions of one process can interleave.      *)
(* Definitions named ...Mutant are deliberately wrong forms of the next    *)
(* one, used only to show that a property notices the mistake.             *)
(***************************************************************************)
EXTENDS HandoffRecord, FiniteSets

CONSTANTS
  MaxEpoch,     \* collectors that may ever start
  MaxBoot,      \* boots of the machine
  Commands,     \* the commands processes may run
  Faults        \* what may go wrong or grow old

AllSendModes == {"plain", "ack", "wait", "delivered", "dry"}
AllWaitModes == {"waitAcknowledged", "waitDelivered"}
AllFaults == {"process", "collector", "machine", "restore", "age"}

ASSUME BoundsAssumption == MaxEpoch \in Nat /\ MaxBoot \in Nat
ASSUME CommandsAssumption == Commands \subseteq AllSendModes \cup AllWaitModes
ASSUME FaultsAssumption == Faults \subseteq AllFaults

VARIABLES
  ledger,       \* ledger.json: [Ids -> Record]
  backup,       \* an earlier copy of the file, kept by the operator
  used,         \* correlation ids ever generated (uuid4: never generated twice)
  proc,         \* the CLI processes
  coll,         \* the collector process: [up, epoch]
  sock,         \* receipt.sock exists
  spawned,      \* senders whose launched collector has not bound yet
  requests,     \* frames a sender wrote to the collector and that it has not handled
  effects,      \* native submissions per id: what the receiving session got
  holders,      \* ids whose receipt frame, capability included, the receiver holds
  age,          \* how long ago each id was prepared
  due,          \* processes whose deadline (total - 5 s) has passed
  boot          \* current boot of the machine

vars == <<ledger, backup, used, proc, coll, sock, spawned, requests, effects, holders, age, due, boot>>
world == <<coll, sock, spawned, effects, holders, age, boot>>

SendModes == AllSendModes \cap Commands
WaitModes == AllWaitModes \cap Commands
PCs == {"idle", "chosen", "launching", "minting", "revoking", "ready", "effect", "outcome",
        "clock", "opening", "polling", "done", "crashed"}
Outcomes == {"none", "submitted", "refused", "unknown"}
Process == [pc : PCs, id : Ids \cup {None}, mode : AllSendModes \cup AllWaitModes,
            auth : Nat, clock : Nat, native : Outcomes]
Request == [op : {"mint", "classify"}, proc : Procs, id : Ids]

Idle == [pc |-> "idle", id |-> None, mode |-> "plain", auth |-> 0, clock |-> 0, native |-> "none"]

Init ==
  /\ ledger = [i \in Ids |-> Absent] /\ backup = ledger /\ used = {}
  /\ proc = [p \in Procs |-> Idle]
  /\ coll = [up |-> FALSE, epoch |-> 0] /\ sock = FALSE /\ spawned = {} /\ requests = {}
  /\ effects = [i \in Ids |-> 0] /\ holders = {}
  /\ age = [i \in Ids |-> "fresh"] /\ due = {} /\ boot = 1

----------------------------------------------------------------------------
(* Ledger transactions.                                                    *)

Present(i) == ledger[i].phase # "absent"

(* A single invalid record makes every transaction raise ledger_corrupt.   *)
LedgerReadable == \A i \in Ids : Present(i) => RecordValid(i, ledger[i])

Expired(l, i) == l[i].phase \notin {"absent", "tombstone"} /\ l[i].boot = boot /\ age[i] = "month"
Retained(l) == [i \in Ids |-> IF Expired(l, i) THEN Tombstone(l[i]) ELSE l[i]]
Snapshot == Retained(ledger)

Save(i, r) == ledger' = [Snapshot EXCEPT ![i] = r]

(* A transaction with nothing to say still persists retention: a status    *)
(* query before its read-only form, `record`, a duplicate receipt.         *)
Compact ==
  /\ LedgerReadable /\ ledger' = Snapshot
  /\ UNCHANGED <<backup, used, proc, requests, due, world>>

At(p, pc) == proc[p].pc = pc
Goto(p, pc) == proc' = [proc EXCEPT ![p].pc = pc]
Mine(p) == Snapshot[proc[p].id]
WantsAck(p) == proc[p].mode \in {"ack", "wait"}
NeedsAuthority(p) == WantsAck(p) /\ proc[p].id \in Claude
(* reason evidence_unsupported: `delivered` has no observer, a Codex       *)
(* target no receipt channel.                                              *)
Unsupported(p) ==
  proc[p].mode = "delivered" \/ (proc[p].mode = "wait" /\ proc[p].id \notin Claude)

----------------------------------------------------------------------------
(* `handoff prepare` and `send`.                                           *)

PrepareIntent(i) ==
  /\ LedgerReadable /\ i \notin used
  /\ used' = used \cup {i}
  /\ Save(i, Prepared(boot))
  /\ UNCHANGED <<backup, proc, requests, due, world>>

Begin(p, i, mode, pc) ==
  proc' = [proc EXCEPT ![p] = [Idle EXCEPT !.pc = pc, !.id = i, !.mode = mode]]

SendFresh(p, i, mode) ==
  /\ At(p, "idle") /\ LedgerReadable /\ i \notin used
  /\ used' = used \cup {i}
  /\ Save(i, Prepared(boot))
  /\ Begin(p, i, mode, "chosen")
  /\ UNCHANGED <<backup, requests, due, world>>

(* --correlation-id: an unknown id or an attempted one is refused.         *)
SendPrepared(p, i, mode) ==
  /\ At(p, "idle") /\ LedgerReadable /\ i \in used
  /\ IF Snapshot[i].phase = "prepared"
     THEN ledger' = Snapshot /\ Begin(p, i, mode, "chosen")
     ELSE UNCHANGED ledger /\ Begin(p, i, mode, "done")
  /\ UNCHANGED <<backup, used, requests, due, world>>

DryRun(p) ==
  /\ At(p, "chosen") /\ proc[p].mode = "dry"
  /\ Goto(p, "done")
  /\ UNCHANGED <<ledger, backup, used, requests, due, world>>

Skip(p) ==
  /\ At(p, "chosen") /\ proc[p].mode # "dry" /\ ~Unsupported(p) /\ ~NeedsAuthority(p)
  /\ Goto(p, "ready")
  /\ UNCHANGED <<ledger, backup, used, requests, due, world>>

Waits(p) == proc[p].mode \in {"wait", "delivered"}
RefusableMutant(p) == Waits(p) => WaitCapacity(Mine(p))
Refusable(p) ==
  /\ Mine(p).phase = "prepared"
  /\ Waits(p) => WaitCapacity(Mine(p))

(* handoff_refuse_send: the intent is spent without an effect.             *)
RefuseSend(p, status) ==
  /\ LedgerReadable
  /\ LET r == Mine(p)
         waits == Waits(p)
         goal == IF proc[p].mode = "delivered" THEN "delivered" ELSE "acknowledged"
         spent == [r EXCEPT !.phase = "terminal", !.submission = "refused",
                            !.ackRequested = WantsAck(p)]
     IN IF Refusable(p)
        THEN /\ Save(proc[p].id,
                     Revoked(IF waits THEN StartWait(spent, p, goal, status, 0) ELSE spent))
             /\ proc' = [proc EXCEPT ![p].pc = "done", ![p].native = "refused"]
        ELSE UNCHANGED ledger /\ Goto(p, "done")
  /\ UNCHANGED <<backup, used, requests, due, world>>

Refuse(p) ==
  \/ At(p, "chosen") /\ Unsupported(p) /\ RefuseSend(p, "unsupported")
  \/ At(p, "chosen") /\ RefuseSend(p, "failed")       \* budget, dry-run or Codex context evidence
  \/ At(p, "ready") /\ RefuseSend(p, "failed")        \* message evidence, or the deadline passed

(* handoff_ensure_collector, then the mint request over receipt.sock.      *)
LaunchCollector(p) ==
  /\ At(p, "chosen") /\ NeedsAuthority(p) /\ ~sock
  /\ spawned' = spawned \cup {p} /\ Goto(p, "launching")
  /\ UNCHANGED <<ledger, backup, used, requests, due, coll, sock, effects, holders, age, boot>>

AskMint(p) ==
  /\ proc[p].pc \in {"chosen", "launching"} /\ NeedsAuthority(p) /\ sock
  /\ Goto(p, "minting")
  /\ requests' = requests \cup
       (IF coll.up THEN {[op |-> "mint", proc |-> p, id |-> proc[p].id]} ELSE {})
  /\ UNCHANGED <<ledger, backup, used, due, world>>

(* No reply in time, a refusal, or no usable handler: a required wait is   *)
(* refused, a best-effort ack drops whatever authority there is.           *)
MintFails(p) ==
  /\ proc[p].pc \in {"chosen", "launching", "minting"} /\ NeedsAuthority(p)
  /\ IF proc[p].mode = "wait"
     THEN RefuseSend(p, "unsupported")
     ELSE /\ Goto(p, "revoking")
          /\ UNCHANGED <<ledger, backup, used, requests, due, world>>

RevokeAuthority(p) ==
  /\ At(p, "revoking") /\ LedgerReadable
  /\ IF Mine(p).phase = "absent"
     THEN UNCHANGED ledger /\ Goto(p, "done")
     ELSE Save(proc[p].id, Revoked(Mine(p))) /\ Goto(p, "ready")
  /\ UNCHANGED <<backup, used, requests, due, world>>

FenceOpenMutant(p) == p \notin due /\ (proc[p].mode = "wait" => WaitCapacity(Mine(p)))
(* The durable attempted fence before the only native invocation.          *)
FenceOpen(p) ==
  /\ Mine(p).phase = "prepared" /\ p \notin due
  /\ proc[p].mode = "wait" => WaitCapacity(Mine(p))
Fence(p) ==
  /\ At(p, "ready") /\ LedgerReadable
  /\ IF FenceOpen(p)
     THEN LET i == proc[p].id
              r == [Mine(p) EXCEPT !.phase = "attempted", !.submission = "unknown",
                                   !.ackRequested = WantsAck(p)]
              status == IF WaitSupported(i, r, "acknowledged") THEN "pending" ELSE "unsupported"
          IN /\ Save(i, IF proc[p].mode = "wait"
                        THEN StartWait(r, p, "acknowledged", status, proc[p].auth) ELSE r)
             /\ Goto(p, "effect")
     ELSE UNCHANGED ledger /\ Goto(p, "done")
  /\ UNCHANGED <<backup, used, requests, due, world>>

(* The native call: an explicit refusal is proof of no effect, anything    *)
(* else that is not a success (an interrupt included) is no proof at all.  *)
Native(p, outcome, happened) ==
  /\ At(p, "effect")
  /\ outcome = "submitted" => happened
  /\ outcome = "refused" => ~happened
  /\ proc' = [proc EXCEPT ![p].pc = "outcome", ![p].native = outcome]
  /\ effects' = [effects EXCEPT ![proc[p].id] = IF happened THEN @ + 1 ELSE @]
  /\ holders' = IF happened /\ proc[p].auth # 0 THEN holders \cup {proc[p].id} ELSE holders
  /\ UNCHANGED <<ledger, backup, used, coll, sock, spawned, requests, age, due, boot>>

(* The outcome transaction checks no phase: it overwrites whatever the     *)
(* record became meanwhile.  ended is "stopped" after an interrupt.        *)
WithOutcome(r, p, ended) ==
  LET t == [r EXCEPT !.phase = "terminal", !.submission = proc[p].native,
                     !.native = proc[p].native]
  IN IF proc[p].native = "submitted" THEN t
     ELSE IF proc[p].mode = "wait" THEN SetWait(Revoked(t), p, ended) ELSE Revoked(t)
OutcomeWritable(p) ==
  /\ Mine(p).phase # "absent"
  /\ proc[p].native # "submitted" /\ proc[p].mode = "wait" => WaitOf(Mine(p), p) # {}
(* A missing record is a KeyError, which cmd_handoff_send survives and     *)
(* reports the native outcome all the same.  A missing wait is a           *)
(* StopIteration, which it does not; `handoff wait` survives neither.      *)
Missing(p) == IF Mine(p).phase = "absent" /\ proc[p].mode \in AllSendModes THEN "done" ELSE "crashed"
ClassifiesMutant(p) == FALSE
Classifies(p) == proc[p].native = "submitted" /\ proc[p].auth # 0 /\ coll.up
(* asked: the classify frame reached the collector before the total budget *)
(* ended.                                                                  *)
RecordOutcome(p, ended, asked) ==
  /\ At(p, "outcome") /\ LedgerReadable
  /\ asked => Classifies(p)
  /\ Classifies(p) => asked \/ p \in due
  /\ ended = "stopped" => proc[p].native = "unknown"
  /\ IF OutcomeWritable(p)
     THEN /\ Save(proc[p].id, WithOutcome(Mine(p), p, ended))
          /\ Goto(p, IF proc[p].native = "submitted" /\ proc[p].mode = "wait" THEN "clock" ELSE "done")
          /\ requests' = requests \cup (IF asked THEN {[op |-> "classify", proc |-> p, id |-> proc[p].id]} ELSE {})
     ELSE UNCHANGED <<ledger, requests>> /\ Goto(p, Missing(p))
  /\ UNCHANGED <<backup, used, due, world>>

----------------------------------------------------------------------------
(* Waiting: `handoff wait`, and the end of `send --wait-for`.              *)

WaitBegin(p, i, mode) ==
  /\ At(p, "idle") /\ i \in used
  /\ Begin(p, i, mode, "clock")
  /\ UNCHANGED <<ledger, backup, used, requests, due, world>>

(* handoff_channel_epoch: the collector's epoch, or None on any failure.   *)
QueryClock(p, answered) ==
  /\ At(p, "clock")
  /\ answered => sock /\ coll.up
  /\ proc' = [proc EXCEPT ![p].clock = IF answered THEN coll.epoch ELSE 0,
                          ![p].pc = IF proc[p].mode \in WaitModes THEN "opening" ELSE "polling"]
  /\ UNCHANGED <<ledger, backup, used, requests, due, world>>

(* short: a budget of five seconds or less asked no clock.                 *)
OpenWait(p, short) ==
  /\ At(p, "opening") /\ LedgerReadable
  /\ short => proc[p].clock = 0
  /\ LET i == proc[p].id
         r == Mine(p)
         clock == proc[p].clock
         goal == IF proc[p].mode = "waitDelivered" THEN "delivered" ELSE "acknowledged"
         unavailable == r.ack = "none" /\ r.cap # "none" /\ (clock = 0 \/ clock # r.capClock)
         status == IF short \/ unavailable THEN "failed"
                   ELSE IF WaitSupported(i, r, goal) THEN "pending" ELSE "unsupported"
     IN IF r.phase # "absent" /\ WaitCapacity(r)
        THEN Save(i, StartWait(r, p, goal, status, clock)) /\ Goto(p, "polling")
        ELSE UNCHANGED ledger /\ Goto(p, "done")
  /\ UNCHANGED <<backup, used, requests, due, world>>

PollForeverMutant(r, k, p) ==
  IF r.waits[k].status # "pending" THEN r.waits[k].status
  ELSE IF r.ack # "none" THEN "satisfied" ELSE "pending"
(* One turn of handoff_wait's loop that ends it; other turns change nothing. *)
PollResult(r, k, p) ==
  IF r.waits[k].status # "pending" THEN r.waits[k].status
  ELSE IF r.ack # "none" THEN "satisfied"
  ELSE IF proc[p].clock = 0 \/ r.waits[k].clock # proc[p].clock THEN "failed"
  ELSE IF p \in due THEN "timed_out_unknown"
  ELSE "pending"
Poll(p) ==
  /\ At(p, "polling") /\ LedgerReadable
  /\ \/ WaitOf(Mine(p), p) = {} /\ UNCHANGED ledger /\ Goto(p, Missing(p))
     \/ \E k \in WaitOf(Mine(p), p) :
          /\ PollResult(Mine(p), k, p) # "pending"
          /\ Save(proc[p].id, SetWait(Mine(p), p, PollResult(Mine(p), k, p)))
          /\ Goto(p, "done")
  /\ UNCHANGED <<backup, used, requests, due, world>>

Interrupt(p) ==
  /\ At(p, "polling") /\ LedgerReadable
  /\ IF WaitOf(Mine(p), p) = {} THEN UNCHANGED ledger /\ Goto(p, Missing(p))
     ELSE Save(proc[p].id, SetWait(Mine(p), p, "stopped")) /\ Goto(p, "done")
  /\ UNCHANGED <<backup, used, requests, due, world>>

(* handoff_confirm: the operator attests a reply it saw.                   *)
Confirm(i) ==
  /\ LedgerReadable /\ i \in Claude
  /\ Snapshot[i].submission = "submitted" /\ Snapshot[i].ack = "none" /\ Confirmable(Snapshot[i])
  /\ Save(i, Confirmed(Snapshot[i]))
  /\ UNCHANGED <<backup, used, proc, requests, due, world>>

----------------------------------------------------------------------------
(* The receipt collector.                                                  *)

StartupLedgerMutant == Snapshot
StartupLedger ==
  [i \in Ids |-> IF Snapshot[i].ack = "none" THEN Revoked(Snapshot[i]) ELSE Snapshot[i]]

(* One launched collector comes to its bind: two senders that both found   *)
(* no socket launch two.                                                   *)
Launched == \E p \in spawned : spawned' = spawned \ {p}

(* Startup in one transaction: bind, then revoke all unused authority.     *)
CollectorStart ==
  /\ ~sock /\ ~coll.up /\ LedgerReadable /\ coll.epoch < MaxEpoch
  /\ coll' = [up |-> TRUE, epoch |-> coll.epoch + 1] /\ sock' = TRUE /\ Launched
  /\ ledger' = StartupLedger
  /\ UNCHANGED <<backup, used, proc, requests, effects, holders, age, due, boot>>

CollectorRefused ==
  /\ sock /\ Launched
  /\ UNCHANGED <<ledger, backup, used, proc, coll, sock, requests, effects, holders, age, due, boot>>

CollectorReady == coll.up /\ LedgerReadable

Mintable(i) ==
  /\ i \in Claude /\ Snapshot[i].phase = "prepared" /\ Snapshot[i].cap = "none"
  /\ Snapshot[i].boot = boot /\ age[i] = "fresh"
HandleMint(q) ==
  /\ CollectorReady /\ q \in requests /\ q.op = "mint"
  /\ requests' = requests \ {q}
  /\ IF Mintable(q.id)
     THEN /\ Save(q.id, [Snapshot[q.id] EXCEPT !.cap = "live", !.capClock = coll.epoch])
          /\ IF At(q.proc, "minting")
             THEN proc' = [proc EXCEPT ![q.proc].pc = "ready", ![q.proc].auth = coll.epoch]
             ELSE UNCHANGED proc      \* the requester gave up; the authority is minted all the same
     ELSE UNCHANGED <<ledger, proc>>
  /\ UNCHANGED <<backup, used, due, world>>

(* handoff_collect on a receipt whose capability hash matches; a duplicate *)
(* of a committed receipt and a refused frame change no record.            *)
Usable(i) == Snapshot[i].cap = "live" /\ Snapshot[i].ack = "none"
             /\ Snapshot[i].capClock = coll.epoch /\ age[i] = "fresh"

HoldEarly(i, rid) ==
  /\ Snapshot[i].phase = "attempted" /\ Snapshot[i].pending = None
  /\ Save(i, [Snapshot[i] EXCEPT !.pending = rid, !.pendingClock = coll.epoch])
  /\ UNCHANGED due
Classify(i, rid) ==
  /\ Snapshot[i].submission = "submitted" /\ OrderProvable(Snapshot[i], coll.epoch)
  /\ \E due2 \in SUBSET Procs :
       /\ due \subseteq due2 /\ (due2 \ due) \subseteq {p \in Procs : ~At(p, "idle")}
       /\ Save(i, Acknowledged(Snapshot[i], rid, coll.epoch, due, due2))
       /\ due' = due2

Receipt(i, rid) ==
  /\ CollectorReady /\ i \in holders /\ Usable(i)
  /\ Snapshot[i].pending \in {None, rid}
  /\ HoldEarly(i, rid) \/ Classify(i, rid)
  /\ UNCHANGED <<backup, used, proc, requests, world>>

HandleClassify(q) ==
  /\ CollectorReady /\ q \in requests /\ q.op = "classify"
  /\ requests' = requests \ {q}
  /\ IF Usable(q.id) /\ Snapshot[q.id].pending # None
        /\ Snapshot[q.id].submission = "submitted" /\ OrderProvable(Snapshot[q.id], coll.epoch)
     THEN Classify(q.id, None) ELSE UNCHANGED <<ledger, due>>
  /\ UNCHANGED <<backup, used, proc, world>>

----------------------------------------------------------------------------
(* Time, crashes, restarts and restored copies.                            *)

DeadlinePasses(p) ==
  /\ ~At(p, "idle") /\ p \notin due /\ due' = due \cup {p}
  /\ UNCHANGED <<ledger, backup, used, proc, requests, world>>

GrowOld(i) ==
  /\ "age" \in Faults /\ i \in used /\ age[i] # "month"
  /\ age' = [age EXCEPT ![i] = IF @ = "fresh" THEN "day" ELSE "month"]
  /\ UNCHANGED <<ledger, backup, used, proc, coll, sock, spawned, requests, effects, holders, due, boot>>

Crash(p) ==
  /\ "process" \in Faults /\ proc[p].pc \notin {"idle", "done", "crashed"} /\ Goto(p, "crashed")
  /\ UNCHANGED <<ledger, backup, used, requests, due, world>>

(* The collector leaves after 24 hours and unlinks its socket; killed, it  *)
(* leaves the socket behind, and nothing but the operator removes it.      *)
CollectorStop ==
  /\ "collector" \in Faults /\ coll.up /\ coll' = [coll EXCEPT !.up = FALSE] /\ sock' = FALSE /\ requests' = {}
  /\ UNCHANGED <<ledger, backup, used, proc, spawned, effects, holders, age, due, boot>>
CollectorCrash ==
  /\ "collector" \in Faults /\ coll.up /\ coll' = [coll EXCEPT !.up = FALSE] /\ requests' = {}
  /\ UNCHANGED <<ledger, backup, used, proc, sock, spawned, effects, holders, age, due, boot>>
CollectorDiesBinding ==
  /\ "collector" \in Faults /\ ~sock /\ ~coll.up /\ sock' = TRUE /\ Launched
  /\ UNCHANGED <<ledger, backup, used, proc, coll, requests, effects, holders, age, due, boot>>
RemoveStaleSocket ==
  /\ sock /\ ~coll.up /\ sock' = FALSE
  /\ UNCHANGED <<ledger, backup, used, proc, coll, spawned, requests, effects, holders, age, due, boot>>

Reboot ==
  /\ "machine" \in Faults /\ boot < MaxBoot /\ boot' = boot + 1
  /\ proc' = [p \in Procs |-> IF proc[p].pc \in {"idle", "done"} THEN proc[p]
                              ELSE [proc[p] EXCEPT !.pc = "crashed"]]
  /\ coll' = [coll EXCEPT !.up = FALSE] /\ spawned' = {} /\ requests' = {}
  /\ UNCHANGED <<ledger, backup, used, sock, effects, holders, age, due>>

TakeBackup ==
  /\ "restore" \in Faults /\ backup' = ledger
  /\ UNCHANGED <<ledger, used, proc, requests, due, world>>

(* A restored copy that the operator quarantines before any reuse.         *)
RestoreQuarantined ==
  /\ "restore" \in Faults
  /\ ledger' = [i \in Ids |-> IF backup[i].phase = "absent" THEN backup[i]
                              ELSE Quarantined(Retained(backup)[i])]
  /\ UNCHANGED <<backup, used, proc, requests, due, world>>

----------------------------------------------------------------------------
SendStep(p) ==
  \/ \E i \in Ids, m \in SendModes : SendFresh(p, i, m) \/ SendPrepared(p, i, m)
  \/ DryRun(p) \/ Skip(p) \/ Refuse(p) \/ LaunchCollector(p) \/ AskMint(p) \/ MintFails(p)
  \/ RevokeAuthority(p) \/ Fence(p)
  \/ \E o \in Outcomes \ {"none"}, h \in BOOLEAN : Native(p, o, h)
  \/ \E e \in {"stopped", "failed"}, b \in BOOLEAN : RecordOutcome(p, e, b)
WaitStep(p) ==
  \/ \E i \in Ids, m \in WaitModes : WaitBegin(p, i, m)
  \/ \E b \in BOOLEAN : QueryClock(p, b) \/ OpenWait(p, b)
  \/ Poll(p) \/ Interrupt(p)
CollectorStep ==
  \/ CollectorStart \/ CollectorRefused
  \/ \E q \in requests : HandleMint(q) \/ HandleClassify(q)
  \/ \E i \in Ids, rid \in ReceiptIds : Receipt(i, rid)
Environment ==
  \/ \E p \in Procs : DeadlinePasses(p) \/ Crash(p)
  \/ \E i \in Ids : GrowOld(i)
  \/ CollectorStop \/ CollectorCrash \/ CollectorDiesBinding \/ RemoveStaleSocket
  \/ Reboot \/ TakeBackup \/ RestoreQuarantined

Next ==
  \/ \E p \in Procs : SendStep(p) \/ WaitStep(p)
  \/ \E i \in Ids : PrepareIntent(i) \/ Confirm(i)
  \/ Compact \/ CollectorStep \/ Environment

Spec == Init /\ [][Next]_vars

----------------------------------------------------------------------------
(* Properties.                                                             *)

TypeOK ==
  /\ ledger \in [Ids -> Record] /\ backup \in [Ids -> Record] /\ used \subseteq Ids
  /\ proc \in [Procs -> Process]
  /\ coll \in [up : BOOLEAN, epoch : Nat] /\ sock \in BOOLEAN /\ spawned \subseteq Procs
  /\ requests \subseteq Request /\ effects \in [Ids -> Nat] /\ holders \subseteq Ids
  /\ age \in [Ids -> Ages] /\ due \subseteq Procs /\ boot \in Nat

(* Nothing a process saves, in any interleaving with the collector, with   *)
(* retention and with a quarantine, fails the validation every later       *)
(* transaction runs: one bad record would lock every intent out            *)
(* (handoff_ledger_corrupt), and _save does not look.                      *)
LedgerValid == LedgerReadable

(* However many senders share an id, and whatever crashes or is restored   *)
(* and quarantined, the receiving session gets at most one submission.     *)
AtMostOneEffect == \A i \in Ids : effects[i] <= 1

(* An intent the ledger still offers for sending has not been sent: the    *)
(* fence is durable before the native call.                                *)
UnsentMeansNoEffect == \A i \in Ids : ledger[i].phase = "prepared" => effects[i] = 0

(* Positive facts in the ledger, and what a finished command told its      *)
(* operator, are true of the receiving session: refused means no           *)
(* submission by anyone under this id, submitted means exactly one.        *)
OutcomeTruthful ==
  /\ \A i \in Ids : /\ ledger[i].submission = "refused" => effects[i] = 0
                    /\ ledger[i].submission = "submitted" => effects[i] = 1
  /\ \A p \in Procs : /\ proc[p].native = "refused" => effects[proc[p].id] = 0
                      /\ proc[p].native = "submitted" => effects[proc[p].id] = 1

(* The acknowledgement's lateness and the originating wait tell one story: *)
(* a late receipt never satisfied the wait it is late for, and an          *)
(* operator's word that found a first wait found it timed out.             *)
LatenessConsistent ==
  \A i \in Ids : ledger[i].ack # "none" /\ ledger[i].late =>
      ledger[i].waits # <<>> /\ ledger[i].waits[1].status # "satisfied"

(* A status query can always project a record that is not quarantined.     *)
StatusAnswers ==
  \A i \in Ids : ledger[i].phase \notin {"absent", "quarantined"} => PublicValid(i, ledger[i])

(* Retention or a restored, quarantined copy may drop a record's history.  *)
Lost(i) == Expired(ledger, i) \/ ledger'[i].phase \in {"absent", "tombstone", "quarantined"}

(* A finished wait is never rewritten: neither a late receipt, nor an      *)
(* operator's confirmation, nor the sender's outcome, nor an interrupt.    *)
WaitsFinal ==
  [][\A i \in Ids : \A k \in DOMAIN ledger[i].waits :
       ledger[i].waits[k].status # "pending" =>
         Lost(i) \/ (k \in DOMAIN ledger'[i].waits /\ ledger'[i].waits[k] = ledger[i].waits[k])]_vars

(* The first classification stands: no second receipt, classification or   *)
(* confirmation changes who acknowledged, with which receipt, how late.    *)
AckFinal ==
  [][\A i \in Ids : ledger[i].ack # "none" =>
       \/ Lost(i)
       \/ /\ ledger'[i].ack = ledger[i].ack /\ ledger'[i].late = ledger[i].late
          /\ ledger'[i].receipt = ledger[i].receipt]_vars

(* A receipt that arrived before its submission was recorded is the one    *)
(* that counts: it stays held, or is acknowledged with its own receipt id. *)
FirstReceiptWins ==
  [][\A i \in Ids : ledger[i].pending # None =>
       \/ Lost(i) \/ ledger'[i].pending = ledger[i].pending
       \/ ledger'[i].ack = "token_possession" /\ ledger'[i].receipt = ledger[i].pending]_vars

(* Receipt authority appears only on an intent that is still unattempted,  *)
(* and revoked authority never comes back.                                 *)
AuthorityMintedOnce ==
  [][\A i \in Ids : ledger'[i].cap = "live" /\ ledger[i].cap # "live" =>
       ledger[i].cap = "none" /\ ledger[i].phase = "prepared" /\ effects[i] = 0]_vars

(* handoff.py:1548-1549, "A failed commit/query must not erase             *)
(* independently validated native facts": a sender that learnt its native  *)
(* outcome, and that nothing killed, ends by reporting it.                 *)
NativeFactsReported == \A p \in Procs : At(p, "crashed") => proc[p].native = "none"

(* The detailed system keeps the promise of SubmissionPromise: a licence   *)
(* is held while a sender is between its fence and its native call.        *)
Licence(i) ==
  IF \E p \in Procs : At(p, "effect") /\ proc[p].id = i THEN "held"
  ELSE IF i \notin used \/ ledger[i].phase = "prepared" THEN "open" ELSE "spent"
Fact(i) == IF ledger[i].submission \in {"submitted", "refused"} THEN ledger[i].submission ELSE "none"

Promise == INSTANCE SubmissionPromise WITH
  licence <- [i \in Ids |-> Licence(i)], sent <- effects, fact <- [i \in Ids |-> Fact(i)]
KeepsPromise == Promise!Spec

(* Fairness: a process that is not killed runs on (the native call itself  *)
(* is bounded by the total budget), and the collector serves the frames it *)
(* accepted.  A waiting loop looks at the clock and the ledger.            *)
SenderFairness ==
  /\ \A p \in Procs :
       /\ WF_vars(\E o \in Outcomes \ {"none"}, h \in BOOLEAN : Native(p, o, h))
       /\ WF_vars(\E e \in {"stopped", "failed"}, b \in BOOLEAN : RecordOutcome(p, e, b))
       /\ WF_vars(Poll(p))
  /\ WF_vars(\E q \in requests : HandleClassify(q))
(* The deadlines of commands come.                                         *)
Deadlines == \A p \in Procs : WF_vars(DeadlinePasses(p))

FairSpec == Spec /\ SenderFairness

(* If deadlines come, a live `handoff wait` or `send --wait-for` returns:  *)
(* its clock check, an acknowledgement or its own deadline ends the loop.  *)
WaitersReturn == Deadlines => \A p \in Procs : At(p, "polling") ~> ~At(p, "polling")

(* A receipt that overtakes the record of its own submission is not        *)
(* forgotten: it is classified once the sender records the submission,     *)
(* unless the authority was revoked, the arrival cannot be ordered or the  *)
(* sender ran out of budget.  (Without crashes, stops and restarts, and    *)
(* where no deadline has to come.)                                         *)
EarlyReceiptSettled ==
  \A i \in Ids : ledger[i].pending # None ~>
     \/ ledger[i].ack # "none" \/ ledger[i].cap # "live" \/ ~OrderProvable(ledger[i], coll.epoch)
     \/ \E p \in due : proc[p].id = i /\ proc[p].native = "submitted"

(* What is told of a record: status can always be told, and a receipt's    *)
(* lateness agrees with the results of the waits it ended.                 *)
StatusTrue ==
  /\ StatusAnswers
  /\ LatenessConsistent

(* No step rewrites what was classified: a finished wait, the record's     *)
(* acknowledgement, and the first receipt that was accepted.               *)
ClassificationFinal ==
  /\ WaitsFinal
  /\ AckFinal
  /\ FirstReceiptWins

(* Receipt authority belongs to the collector that runs (what an earlier   *)
(* one minted and nobody used is dead), and to an intent that nobody has   *)
(* attempted when it is minted.                                            *)
AuthorityHeld ==
  /\ [](coll.up => \A i \in Ids : ledger[i].cap = "live" /\ ledger[i].ack = "none"
                                      => ledger[i].capClock = coll.epoch)
  /\ AuthorityMintedOnce
=============================================================================
