--------------------------- MODULE HandoffRecord ---------------------------
(***************************************************************************)
(* One correlated handoff intent as the sender's private ledger stores it  *)
(* (session_peer_core/handoff.py), and the pure functions the ledger's     *)
(* transactions apply to it.  A record is a value here; module Handoff     *)
(* says which process applies which function, and when.                    *)
(*                                                                         *)
(* Time is three-valued per intent: less than the 24 hours of a            *)
(* capability, past them, or past the 30 days of retained detail.          *)
(* Collector epochs (uuid4 in the code) and boots are numbered; 0 is the   *)
(* code's None.                                                            *)
(***************************************************************************)
EXTENDS Naturals, Sequences

CONSTANTS
  Ids,          \* correlation ids
  Claude,       \* ids whose target is a local Claude session: they carry a target generation
  Procs,        \* CLI processes; the operation id of a wait is the process that opened it
  ReceiptIds,   \* receipt ids a holder of a capability may submit
  MaxWaits,     \* waits one record may hold (64 in the code)
  None          \* no value

ASSUME ClaudeAssumption == Claude \subseteq Ids
ASSUME WaitsAssumption == MaxWaits \in Nat
ASSUME NoneAssumption == None \notin Ids \cup ReceiptIds

Phases == {"absent", "prepared", "attempted", "terminal", "tombstone", "quarantined"}
Submissions == {"not_attempted", "submitted", "refused", "unknown"}
WaitStatuses == {"pending", "satisfied", "timed_out_unknown", "stopped", "unsupported", "failed"}
Goals == {"delivered", "acknowledged"}
Ages == {"fresh", "day", "month"}

Wait == [op : Procs, goal : Goals, status : WaitStatuses, clock : Nat]

(* The ledger's JSON object, its nested ack, capability and pendingReceipt *)
(* objects flattened; "absent" stands for an id the ledger does not hold.  *)
Record ==
  [ phase : Phases, submission : Submissions,
    native : {"none", "submitted", "refused", "unknown"},
    waits : Seq(Wait),
    ack : {"none", "token_possession", "operator_confirmed"}, late : BOOLEAN,
    receipt : ReceiptIds \cup {None},
    cap : {"none", "live", "revoked"}, capClock : Nat,
    pending : ReceiptIds \cup {None}, pendingClock : Nat,
    ackRequested : BOOLEAN, boot : Nat ]

Blank(phase, b) ==
  [ phase |-> phase, submission |-> "not_attempted", native |-> "none", waits |-> <<>>,
    ack |-> "none", late |-> FALSE, receipt |-> None, cap |-> "none", capClock |-> 0,
    pending |-> None, pendingClock |-> 0, ackRequested |-> FALSE, boot |-> b ]
Absent == Blank("absent", 0)
Prepared(b) == Blank("prepared", b)

(* HandoffLedger._validate_record: run on every record of the file by      *)
(* every transaction, while _save validates nothing.                       *)
RecordValid(i, r) ==
  /\ Len(r.waits) <= MaxWaits
  /\ r.phase = "terminal" => r.submission # "not_attempted"
  /\ r.ack # "none" => i \in Claude /\ r.submission = "submitted"
  /\ r.ack = "token_possession" <=> r.receipt # None
  /\ r.pending # None => i \in Claude /\ r.cap # "none"
  /\ r.phase = "prepared" =>
       r.submission = "not_attempted" /\ r.native = "none" /\ r.ack = "none" /\ r.pending = None
  /\ r.phase = "attempted" =>
       r.submission = "unknown" /\ r.native = "none" /\ r.ack = "none"
  /\ r.phase \in {"tombstone", "quarantined"} =>
       r.submission = "unknown" /\ r.native = "none" /\ r.ack = "none" /\ r.pending = None
  /\ r.phase = "tombstone" => r.cap = "none"
  /\ r.submission = "submitted" => r.phase = "terminal" /\ r.native # "none"
  /\ r.native # "none" => r.native = r.submission

(* Definitions named ...Mutant are deliberately wrong forms of the next one, *)
(* used only to show that a property notices the mistake.                  *)
NoAck(r) == [r EXCEPT !.ack = "none", !.late = FALSE, !.receipt = None]
NoPendingMutant(r) == [r EXCEPT !.pending = None, !.pendingClock = None]
NoPending(r) == [r EXCEPT !.pending = None, !.pendingClock = 0]
Revoked(r) == [r EXCEPT !.cap = IF r.cap = "none" THEN "none" ELSE "revoked"]

TombstoneMutant(r) ==
  [NoPending(NoAck(r)) EXCEPT
     !.phase = "tombstone", !.submission = "unknown", !.native = "none", !.waits = <<>>]

(* Retention past 30 days, applied in memory by every transaction.         *)
Tombstone(r) ==
  [NoPending(NoAck(r)) EXCEPT
     !.phase = "tombstone", !.submission = "unknown", !.native = "none", !.waits = <<>>,
     !.cap = "none", !.capClock = 0, !.ackRequested = FALSE]

QuarantinedMutant(r) ==
  IF r.phase = "prepared" THEN r
  ELSE [Revoked(NoPending(NoAck(r))) EXCEPT
          !.phase = "quarantined", !.submission = "unknown", !.native = "none"]

(* HandoffLedger.quarantine_restored on one record.                        *)
FailPending(ws) ==
  [k \in DOMAIN ws |-> IF ws[k].status = "pending" THEN [ws[k] EXCEPT !.status = "failed"] ELSE ws[k]]
Quarantined(r) ==
  [Revoked(NoPending(NoAck(r))) EXCEPT
     !.phase = "quarantined", !.submission = "unknown", !.native = "none",
     !.waits = FailPending(r.waits)]

(* handoff_start_wait: a wait is pending only when a receipt can arrive.   *)
WaitSupported(i, r, goal) == goal = "acknowledged" /\ i \in Claude /\ r.cap = "live"
WaitCapacity(r) == Len(r.waits) < MaxWaits

StartWait(r, p, goal, status, clock) ==
  [r EXCEPT !.waits = Append(@, [op |-> p, goal |-> goal, status |-> status, clock |-> clock])]

(* The position of process p's wait, if the record still holds it.         *)
WaitOf(r, p) == {k \in DOMAIN r.waits : r.waits[k].op = p}
EndPendingMutant(ws, p, status) ==
  [k \in DOMAIN ws |-> IF ws[k].op = p THEN [ws[k] EXCEPT !.status = status] ELSE ws[k]]
EndPending(ws, p, status) ==
  [k \in DOMAIN ws |-> IF ws[k].op = p /\ ws[k].status = "pending"
                       THEN [ws[k] EXCEPT !.status = status] ELSE ws[k]]
SetWait(r, p, status) == [r EXCEPT !.waits = EndPending(r.waits, p, status)]

ClassifyWaitsMutant(ws, epoch, due) ==
  [k \in DOMAIN ws |-> IF ws[k].status = "pending" /\ ws[k].clock = epoch
                       THEN [ws[k] EXCEPT !.status = "satisfied"] ELSE ws[k]]
ClassifyWaits(ws, epoch, due) ==
  [k \in DOMAIN ws |-> IF ws[k].status = "pending" /\ ws[k].clock = epoch
                       THEN [ws[k] EXCEPT !.status = IF ws[k].op \in due THEN "timed_out_unknown"
                                                                        ELSE "satisfied"]
                       ELSE ws[k]]

(* handoff_collect's classification of a submitted intent: lateness is     *)
(* read against the first wait's deadline, each wait's outcome against its *)
(* own, at a second and possibly later reading of the clock (due2).        *)
Acknowledged(r, rid, epoch, due1, due2) ==
  [NoPending(r) EXCEPT
     !.ack = "token_possession", !.late = r.waits # <<>> /\ r.waits[1].op \in due1,
     !.receipt = IF r.pending # None THEN r.pending ELSE rid,
     !.waits = ClassifyWaits(r.waits, epoch, due2)]

(* The receipt's arrival cannot be ordered against the originating wait    *)
(* when either was timed by another collector's clock.                     *)
OrderProvable(r, epoch) ==
  /\ r.waits # <<>> => r.waits[1].clock = epoch
  /\ r.pending # None => r.pendingClock = epoch

(* handoff_confirm's counterpart: a durable timeout is the only proof.     *)
Confirmable(r) == r.waits # <<>> => r.waits[1].status = "timed_out_unknown"
Confirmed(r) ==
  [r EXCEPT !.ack = "operator_confirmed", !.late = r.waits # <<>>, !.receipt = None]

(* handoff_public's state, and the clauses of handoff_validate_public that *)
(* a projection of a stored record could fail.                             *)
LastWait(r) == r.waits[Len(r.waits)]
PublicState(r) ==
  IF r.ack # "none" /\ r.submission = "submitted" THEN "acknowledged"
  ELSE IF r.waits # <<>> /\ LastWait(r).status = "timed_out_unknown"
          /\ r.submission \in {"submitted", "unknown"} THEN "timed_out_unknown"
  ELSE IF r.submission = "not_attempted" THEN "validated" ELSE r.submission
PublicValid(i, r) ==
  /\ r.ack # "none" => PublicState(r) = "acknowledged" /\ i \in Claude
  /\ r.ack = "none" /\ r.ackRequested /\ r.cap = "live" => i \in Claude
  /\ r.waits # <<>> /\ LastWait(r).status = "satisfied"
       => LastWait(r).goal = "acknowledged" /\ r.ack # "none"
=============================================================================
