--------------------------- MODULE HandoffProofs ---------------------------
(***************************************************************************)
(* What holds of Handoff for every set of ids, processes and receipts and  *)
(* every bound: the ledger never locks itself out, at most one submission  *)
(* per id, and no false fact about one.                                    *)
(***************************************************************************)
EXTENDS Handoff, TLAPS, SequenceTheorems

----------------------------------------------------------------------------
(* Lists of waits.                                                         *)

(* Rewriting the waits of a list one by one gives a list of equal length.  *)
LEMMA WaitListUpdate ==
  ASSUME NEW ws \in Seq(Wait), NEW vs \in [DOMAIN ws -> Wait]
  PROVE  vs \in Seq(Wait) /\ Len(vs) = Len(ws)
<1>1. Len(ws) \in Nat /\ DOMAIN ws = 1..Len(ws)
  BY LenProperties
<1>2. vs \in [1..Len(ws) -> Wait]
  BY <1>1
<1>3. vs \in Seq(Wait)
  BY <1>1, <1>2, SeqDef
<1>4. DOMAIN vs = 1..Len(vs) /\ Len(vs) \in Nat
  BY <1>3, LenProperties
<1> QED
  BY <1>1, <1>2, <1>3, <1>4

LEMMA FailPendingList ==
  ASSUME NEW ws \in Seq(Wait)
  PROVE  FailPending(ws) \in Seq(Wait) /\ Len(FailPending(ws)) = Len(ws)
<1>1. \A k \in DOMAIN ws : ws[k] \in Wait
  BY LenProperties
<1>2. FailPending(ws) \in [DOMAIN ws -> Wait]
  BY <1>1 DEF FailPending, Wait, WaitStatuses
<1> QED
  BY <1>2, WaitListUpdate

LEMMA EndPendingList ==
  ASSUME NEW ws \in Seq(Wait), NEW p \in Procs, NEW status \in WaitStatuses
  PROVE  EndPending(ws, p, status) \in Seq(Wait) /\ Len(EndPending(ws, p, status)) = Len(ws)
<1>1. \A k \in DOMAIN ws : ws[k] \in Wait
  BY LenProperties
<1>2. EndPending(ws, p, status) \in [DOMAIN ws -> Wait]
  BY <1>1 DEF EndPending, Wait, WaitStatuses
<1> QED
  BY <1>2, WaitListUpdate

LEMMA ClassifyWaitsList ==
  ASSUME NEW ws \in Seq(Wait), NEW epoch, NEW passed
  PROVE  ClassifyWaits(ws, epoch, passed) \in Seq(Wait) /\ Len(ClassifyWaits(ws, epoch, passed)) = Len(ws)
<1>1. \A k \in DOMAIN ws : ws[k] \in Wait
  BY LenProperties
<1>2. ClassifyWaits(ws, epoch, passed) \in [DOMAIN ws -> Wait]
  BY <1>1 DEF ClassifyWaits, Wait, WaitStatuses
<1> QED
  BY <1>2, WaitListUpdate

----------------------------------------------------------------------------
(* Records.  A good record is typed, passes the ledger's validation and     *)
(* carries receipt authority only for a Claude target.                     *)

Good(i, r) ==
  /\ r \in Record /\ (r.cap # "none" => i \in Claude)
  /\ IF r.phase = "absent" THEN r.submission = "not_attempted" ELSE RecordValid(i, r)

LEMMA NoWaits == <<>> \in Seq(Wait) /\ Len(<<>>) = 0
  BY EmptySeq

LEMMA AbsentGood == ASSUME NEW i \in Ids PROVE Good(i, Absent)
  BY NoWaits DEF Good, Absent, Blank, Record, Phases, Submissions

LEMMA PreparedGood == ASSUME NEW i \in Ids, NEW b \in Nat PROVE Good(i, Prepared(b))
  BY NoWaits, WaitsAssumption DEF Good, Prepared, Blank, Record, RecordValid, Phases, Submissions

(* Forgetting the receipt side of a record leaves the rest of it alone.    *)
LEMMA Forgotten ==
  ASSUME NEW r \in Record
  PROVE  LET n == NoPending(NoAck(r))
         IN /\ n \in Record /\ n.ack = "none" /\ n.receipt = None /\ n.pending = None
            /\ n.waits = r.waits /\ n.cap = r.cap /\ n.phase = r.phase
<1>1. NoAck(r) \in Record /\ NoAck(r).ack = "none" /\ NoAck(r).receipt = None
      /\ NoAck(r).waits = r.waits /\ NoAck(r).cap = r.cap /\ NoAck(r).phase = r.phase
  BY DEF NoAck, Record
<1> QED
  BY <1>1 DEF NoPending, Record

LEMMA TombstoneGood ==
  ASSUME NEW i \in Ids, NEW r, Good(i, r)
  PROVE  /\ Good(i, Tombstone(r))
         /\ Tombstone(r).phase = "tombstone" /\ Tombstone(r).submission = "unknown"
<1> DEFINE n == NoPending(NoAck(r))
           ws == <<>>
           t == [n EXCEPT !.phase = "tombstone", !.submission = "unknown", !.native = "none",
                          !.waits = ws, !.cap = "none", !.capClock = 0, !.ackRequested = FALSE]
<1>1. n \in Record /\ n.ack = "none" /\ n.receipt = None /\ n.pending = None
  BY Forgotten DEF Good
<1>2. ws \in Seq(Wait) /\ Len(ws) = 0
  BY NoWaits
<1>3. Tombstone(r) = t
  BY DEF Tombstone
<1> HIDE DEF n, ws
<1>4. t \in Record
  BY <1>1, <1>2 DEF Record, Phases, Submissions
<1>5. /\ t.phase = "tombstone" /\ t.submission = "unknown" /\ t.native = "none" /\ t.waits = ws
      /\ t.cap = "none" /\ t.ack = "none" /\ t.receipt = None /\ t.pending = None
  BY <1>1 DEF Record
<1> HIDE DEF t
<1> QED
  BY <1>2, <1>3, <1>4, <1>5, WaitsAssumption DEF Good, RecordValid

LEMMA QuarantinedGood ==
  ASSUME NEW i \in Ids, NEW r, Good(i, r), r.phase # "absent"
  PROVE  /\ Good(i, Quarantined(r))
         /\ Quarantined(r).phase = "quarantined" /\ Quarantined(r).submission = "unknown"
<1> DEFINE n == NoPending(NoAck(r))
           m == Revoked(n)
           ws == FailPending(r.waits)
           q == [m EXCEPT !.phase = "quarantined", !.submission = "unknown", !.native = "none",
                          !.waits = ws]
<1>1. n \in Record /\ n.ack = "none" /\ n.receipt = None /\ n.pending = None
      /\ (n.cap # "none" => i \in Claude)
  BY Forgotten DEF Good
<1>2. ws \in Seq(Wait) /\ Len(ws) = Len(r.waits) /\ Len(r.waits) <= MaxWaits
  BY FailPendingList DEF Good, Record, RecordValid
<1>3. Quarantined(r) = q
  BY DEF Quarantined
<1> HIDE DEF n, ws
<1>4. m \in Record /\ m.ack = "none" /\ m.receipt = None /\ m.pending = None
      /\ (m.cap # "none" => i \in Claude)
  BY <1>1 DEF Revoked, Record
<1> HIDE DEF m
<1>5. q \in Record
  BY <1>2, <1>4 DEF Record, Phases, Submissions
<1>6. /\ q.phase = "quarantined" /\ q.submission = "unknown" /\ q.native = "none" /\ q.waits = ws
      /\ q.ack = "none" /\ q.receipt = None /\ q.pending = None /\ q.cap = m.cap
  BY <1>4 DEF Record
<1> HIDE DEF q
<1> QED
  BY <1>2, <1>3, <1>4, <1>5, <1>6 DEF Good, RecordValid

(* The functions below touch neither the phase nor the submission.         *)
Alike(r, s) == r.phase = s.phase /\ r.submission = s.submission

LEMMA RevokedGood ==
  ASSUME NEW i \in Ids, NEW r, Good(i, r) PROVE  Good(i, Revoked(r)) /\ Alike(Revoked(r), r)
  BY DEF Alike, Good, Revoked, Record, RecordValid

LEMMA StartWaitGood ==
  ASSUME NEW i \in Ids, NEW r, Good(i, r), WaitCapacity(r), NEW p \in Procs, NEW goal \in Goals,
         NEW status \in WaitStatuses, NEW clock \in Nat
  PROVE  Good(i, StartWait(r, p, goal, status, clock)) /\ Alike(StartWait(r, p, goal, status, clock), r)
<1> DEFINE w == [op |-> p, goal |-> goal, status |-> status, clock |-> clock]
<1>1. w \in Wait /\ r.waits \in Seq(Wait)
  BY DEF Wait, Good, Record
<1> HIDE DEF w
<1>2. Append(r.waits, w) \in Seq(Wait) /\ Len(Append(r.waits, w)) = Len(r.waits) + 1
  BY <1>1
<1>3. StartWait(r, p, goal, status, clock) = [r EXCEPT !.waits = Append(r.waits, w)]
  BY DEF StartWait, w, Good, Record
<1>4. Len(Append(r.waits, w)) <= MaxWaits
  BY <1>1, <1>2, WaitsAssumption, LenProperties DEF WaitCapacity
<1> QED
  BY <1>2, <1>3, <1>4 DEF Alike, Good, Record, RecordValid

LEMMA SetWaitGood ==
  ASSUME NEW i \in Ids, NEW r, Good(i, r), NEW p \in Procs, NEW status \in WaitStatuses
  PROVE  Good(i, SetWait(r, p, status)) /\ Alike(SetWait(r, p, status), r)
<1>1. EndPending(r.waits, p, status) \in Seq(Wait) /\ Len(EndPending(r.waits, p, status)) = Len(r.waits)
  BY EndPendingList DEF Good, Record
<1> QED
  BY <1>1 DEF Alike, Good, SetWait, Record, RecordValid

LEMMA AcknowledgedGood ==
  ASSUME NEW i \in Ids, NEW r, Good(i, r), NEW epoch, NEW d1, NEW d2, NEW rid \in ReceiptIds \cup {None},
         i \in Claude, r.submission = "submitted", r.pending # None \/ rid # None
  PROVE  Good(i, Acknowledged(r, rid, epoch, d1, d2)) /\ Alike(Acknowledged(r, rid, epoch, d1, d2), r)
<1>1. ClassifyWaits(r.waits, epoch, d2) \in Seq(Wait) /\ Len(ClassifyWaits(r.waits, epoch, d2)) = Len(r.waits)
  BY ClassifyWaitsList DEF Good, Record
<1> QED
  BY <1>1 DEF Alike, Good, Acknowledged, NoPending, Record, RecordValid

LEMMA ConfirmedGood ==
  ASSUME NEW i \in Ids, NEW r, Good(i, r), i \in Claude, r.submission = "submitted", r.ack = "none"
  PROVE  Good(i, Confirmed(r)) /\ Alike(Confirmed(r), r)
  BY DEF Alike, Good, Confirmed, Record, RecordValid

----------------------------------------------------------------------------
(* The inductive invariant.                                                *)

(* Past the fence, its outcome not yet recorded.                           *)
Fenced(p) == proc[p].pc \in {"effect", "outcome"}

(* No native submission can happen under this id any more.                 *)
Closed(i) ==
  /\ i \in used /\ ledger[i].phase # "prepared"
  /\ \A p \in Procs : proc[p].id = i => proc[p].pc # "effect"
ClosedIds == {i \in Ids : Closed(i)}

LedgerInv ==
  /\ ledger \in [Ids -> Record] /\ backup \in [Ids -> Record]
  /\ \A i \in Ids : Good(i, ledger[i]) /\ Good(i, backup[i])

SystemTypes ==
  /\ used \subseteq Ids /\ proc \in [Procs -> Process]
  /\ coll \in [up : BOOLEAN, epoch : Nat] /\ sock \in BOOLEAN /\ spawned \subseteq Procs
  /\ requests \subseteq Request /\ effects \in [Ids -> Nat] /\ holders \subseteq Ids
  /\ age \in [Ids -> Ages] /\ due \subseteq Procs /\ boot \in Nat

ProcInv ==
  \A p \in Procs :
    /\ proc[p].pc = "idle" => proc[p].native = "none"
    /\ proc[p].pc # "idle" => proc[p].id \in used
    /\ Fenced(p) => /\ ledger[proc[p].id].phase # "prepared"
                    /\ ledger[proc[p].id].submission \notin {"submitted", "refused"}
    /\ proc[p].pc = "effect" => effects[proc[p].id] = 0
    /\ proc[p].pc = "outcome" => proc[p].native # "none"
    /\ proc[p].native = "submitted" => effects[proc[p].id] = 1
    /\ proc[p].native = "refused" => effects[proc[p].id] = 0 /\ proc[p].id \in ClosedIds

OneSender ==
  \A p, q \in Procs : Fenced(p) /\ Fenced(q) /\ proc[p].id = proc[q].id => p = q

IntentInv ==
  \A i \in Ids :
    /\ i \notin used => /\ effects[i] = 0
                        /\ ledger[i].phase = "absent" /\ backup[i].phase = "absent"
    /\ ledger[i].phase = "prepared" => effects[i] = 0
    /\ effects[i] <= 1
    /\ ledger[i].submission = "submitted" => effects[i] = 1
    /\ ledger[i].submission = "refused" => effects[i] = 0 /\ Closed(i)

FenceInv == ProcInv /\ OneSender /\ IntentInv

IInv == SystemTypes /\ LedgerInv /\ FenceInv

----------------------------------------------------------------------------
(* Steps that neither authorise, perform nor report a submission.          *)

TameRecord(i) ==
  /\ Good(i, ledger'[i])
  /\ ledger'[i].phase = "prepared" => ledger[i].phase = "prepared" \/ i \notin used
  /\ ledger'[i].submission \in {"submitted", "refused"} => ledger'[i].submission = ledger[i].submission
  /\ i \notin used' => ledger'[i].phase = "absent"

TameLedger == ledger' \in [Ids -> Record] /\ \A i \in Ids : TameRecord(i)

TameProc(p) ==
  /\ proc'[p].pc \in {"effect", "outcome"} => proc'[p] = proc[p]
  /\ proc'[p].pc # "idle" => proc'[p].id \in used'
  /\ proc'[p].native = proc[p].native
  /\ proc[p].pc = "idle" \/ (proc'[p].pc # "idle" /\ proc'[p].id = proc[p].id)

TameProcs == proc' \in [Procs -> Process] /\ \A p \in Procs : TameProc(p)

(* Retention only ever turns a present record into a tombstone.            *)
RetainedFact(i) ==
  \/ Snapshot[i] = ledger[i]
  \/ /\ Snapshot[i].phase = "tombstone" /\ Snapshot[i].submission = "unknown"
     /\ ledger[i].phase # "absent"

LEMMA SnapshotFacts ==
  ASSUME LedgerInv
  PROVE  /\ Snapshot \in [Ids -> Record]
         /\ \A i \in Ids : Good(i, Snapshot[i]) /\ RetainedFact(i)
<1>1. \A i \in Ids : Snapshot[i] = IF Expired(ledger, i) THEN Tombstone(ledger[i]) ELSE ledger[i]
  BY DEF Snapshot, Retained
<1>2. \A i \in Ids : Good(i, ledger[i])
  BY DEF LedgerInv
<1>3. \A i \in Ids : /\ Good(i, Tombstone(ledger[i]))
                     /\ Tombstone(ledger[i]).phase = "tombstone"
                     /\ Tombstone(ledger[i]).submission = "unknown"
  BY <1>2, TombstoneGood
<1>4. \A i \in Ids : Expired(ledger, i) => ledger[i].phase # "absent"
  BY DEF Expired
<1>5. \A i \in Ids : Good(i, Snapshot[i])
  BY <1>1, <1>2, <1>3
<1>6. Snapshot \in [Ids -> Record]
  BY <1>5 DEF Snapshot, Retained, Good
<1> QED
  BY <1>1, <1>3, <1>4, <1>5, <1>6 DEF RetainedFact

LEMMA KeepTame == ASSUME IInv, UNCHANGED <<ledger, used>> PROVE TameLedger
  BY DEF IInv, LedgerInv, FenceInv, IntentInv, TameLedger, TameRecord

LEMMA CompactTame == ASSUME IInv, UNCHANGED used, ledger' = Snapshot PROVE TameLedger
<1> HIDE DEF Snapshot
<1> QED
  BY SnapshotFacts DEF RetainedFact, IInv, FenceInv, IntentInv, TameLedger, TameRecord

(* One record rewritten: alike for a known id, prepared for a fresh one.   *)
LEMMA SaveTame ==
  ASSUME IInv, NEW i \in Ids, NEW r, Good(i, r), Save(i, r), used \subseteq used',
         \/ Alike(r, Snapshot[i]) /\ UNCHANGED used
         \/ i \notin used /\ i \in used' /\ r.submission = "not_attempted"
  PROVE  TameLedger
<1> HIDE DEF Snapshot
<1>1. /\ Snapshot \in [Ids -> Record]
      /\ \A j \in Ids : Good(j, Snapshot[j]) /\ RetainedFact(j)
  BY SnapshotFacts DEF IInv
<1>2. ledger' = [Snapshot EXCEPT ![i] = r] /\ r \in Record
  BY DEF Save, Good
<1>3. ledger' \in [Ids -> Record] /\ ledger'[i] = r /\ \A j \in Ids : j # i => ledger'[j] = Snapshot[j]
  BY <1>1, <1>2
<1>4. \A j \in Ids : j \notin used => ledger[j].phase = "absent"
  BY DEF IInv, FenceInv, IntentInv
<1>5. TameRecord(i)
  BY <1>1, <1>3, <1>4 DEF RetainedFact, TameRecord, Alike
<1>6. \A j \in Ids : j # i => TameRecord(j)
  BY <1>1, <1>3, <1>4 DEF RetainedFact, TameRecord
<1> QED
  BY <1>3, <1>5, <1>6 DEF TameLedger

LEMMA KeepProcs ==
  ASSUME IInv, used \subseteq used', UNCHANGED proc PROVE TameProcs
  BY DEF IInv, FenceInv, SystemTypes, ProcInv, TameProcs, TameProc

(* A process that changes only its control and its authority or clock.     *)
LEMMA MoveTame ==
  ASSUME IInv, UNCHANGED used, NEW p \in Procs, proc[p].pc # "idle", NEW b \in Process,
         b.pc \notin {"idle", "effect", "outcome"}, b.id = proc[p].id, b.native = proc[p].native,
         proc' = [proc EXCEPT ![p] = b]
  PROVE  TameProcs
<1>1. proc \in [Procs -> Process] /\ ProcInv
  BY DEF IInv, FenceInv, SystemTypes
<1>2. proc' \in [Procs -> Process] /\ proc'[p] = b /\ \A q \in Procs : q # p => proc'[q] = proc[q]
  BY <1>1
<1>3. TameProc(p)
  BY <1>1, <1>2 DEF TameProc, ProcInv
<1>4. \A q \in Procs : q # p => TameProc(q)
  BY <1>1, <1>2 DEF TameProc, ProcInv
<1> QED
  BY <1>2, <1>3, <1>4 DEF TameProcs

LEMMA GotoTame ==
  ASSUME IInv, UNCHANGED used, NEW p \in Procs, proc[p].pc # "idle",
         NEW pc \in PCs \ {"idle", "effect", "outcome"}, Goto(p, pc)
  PROVE  TameProcs
  BY DEF IInv, FenceInv, SystemTypes, ProcInv, TameProcs, TameProc, Goto, Process

LEMMA BeginTame ==
  ASSUME IInv, used \subseteq used', used' \subseteq Ids, NEW p \in Procs, proc[p].pc = "idle",
         NEW pc \in PCs \ {"idle", "effect", "outcome"}, NEW i \in used',
         NEW m \in AllSendModes \cup AllWaitModes, Begin(p, i, m, pc)
  PROVE  TameProcs
<1> DEFINE b == [Idle EXCEPT !.pc = pc, !.id = i, !.mode = m]
<1>1. b \in Process /\ b.pc = pc /\ b.id = i /\ b.native = "none"
  BY DEF Idle, Process, Outcomes, PCs
<1>2. proc' = [proc EXCEPT ![p] = b]
  BY DEF Begin
<1> HIDE DEF b
<1>3. proc \in [Procs -> Process] /\ ProcInv
  BY DEF IInv, FenceInv, SystemTypes
<1>4. proc' \in [Procs -> Process] /\ proc'[p] = b /\ \A q \in Procs : q # p => proc'[q] = proc[q]
  BY <1>1, <1>2, <1>3
<1>5. TameProc(p)
  BY <1>1, <1>3, <1>4 DEF TameProc, ProcInv
<1>6. \A q \in Procs : q # p => TameProc(q)
  BY <1>3, <1>4 DEF TameProc, ProcInv
<1> QED
  BY <1>4, <1>5, <1>6 DEF TameProcs

(* A step keeps the invariant, and the promise for every id.               *)
Kept == IInv' /\ Promise!Next

(* Someone is between the fence and the native call.                       *)
Held(i) == \E p \in Procs : proc[p].pc = "effect" /\ proc[p].id = i

(* What the abstract licence and fact of an id are, whatever else is so.   *)
LEMMA LicenceFacts ==
  ASSUME IInv, NEW i \in Ids
  PROVE  /\ Held(i) => Licence(i) = "held" /\ Fact(i) = "none" /\ i \in used /\ ledger[i].phase # "prepared"
         /\ ~Held(i) /\ (i \notin used \/ ledger[i].phase = "prepared") =>
              Licence(i) = "open" /\ Fact(i) = "none"
         /\ ~Held(i) /\ i \in used /\ ledger[i].phase # "prepared" => Licence(i) = "spent"
<1>1. Held(i) => ledger[i].submission \notin {"submitted", "refused"} /\ i \in used /\ ledger[i].phase # "prepared"
  BY DEF Held, Fenced, IInv, FenceInv, ProcInv
<1>2. i \notin used \/ ledger[i].phase = "prepared" => ledger[i].submission \notin {"submitted", "refused"}
  <2>1. CASE i \notin used
    BY <2>1 DEF IInv, FenceInv, IntentInv, LedgerInv, Good
  <2>2. CASE ledger[i].phase = "prepared"
    BY <2>2 DEF IInv, FenceInv, IntentInv, Closed
  <2> QED
    BY <2>1, <2>2
<1>3. Held(i) => Licence(i) = "held"
  BY DEF Held, Licence, At
<1>4. ~Held(i) => Licence(i) = IF i \notin used \/ ledger[i].phase = "prepared" THEN "open" ELSE "spent"
  BY DEF Held, Licence, At
<1> QED
  BY <1>1, <1>2, <1>3, <1>4 DEF Fact

(* The same, after the step.                                               *)
LEMMA LicenceNext ==
  ASSUME NEW i \in Ids
  PROVE  /\ Held(i)' => Licence(i)' = "held"
         /\ ~Held(i)' => Licence(i)' = IF i \notin used' \/ ledger'[i].phase = "prepared" THEN "open" ELSE "spent"
         /\ Fact(i)' = IF ledger'[i].submission \in {"submitted", "refused"} THEN ledger'[i].submission ELSE "none"
  BY DEF Held, Licence, At, Fact

(* A tame step leaves an id as it was, loses its history, or ends a sender *)
(* between the fence and its native call.                                  *)
LEMMA TamePromise ==
  ASSUME IInv, TameLedger, TameProcs, used \subseteq used', UNCHANGED effects
  PROVE  Promise!Next
<1> SUFFICES ASSUME NEW i \in Ids PROVE Promise!Stay(i) \/ Promise!Use(i) \/ Promise!Forget(i)
  BY DEF Promise!Next
<1>1. TameRecord(i)
  BY DEF TameLedger
<1>2. Held(i)' => Held(i)
  BY DEF TameProcs, TameProc, Held
<1>3. Fact(i)' \in {Fact(i), "none"}
  BY <1>1, LicenceNext DEF TameRecord, Fact
<1>4. CASE Held(i) /\ Held(i)'
  BY <1>3, <1>4, LicenceFacts, LicenceNext DEF Promise!Stay
<1>5. CASE Held(i) /\ ~Held(i)'
  BY <1>1, <1>3, <1>5, LicenceFacts, LicenceNext DEF TameRecord, Promise!Use
<1>6. CASE ~Held(i) /\ (i \notin used \/ ledger[i].phase = "prepared")
  BY <1>2, <1>3, <1>6, LicenceFacts, LicenceNext DEF Promise!Stay, Promise!Forget
<1>7. CASE ~Held(i) /\ i \in used /\ ledger[i].phase # "prepared"
  BY <1>1, <1>2, <1>3, <1>7, LicenceFacts, LicenceNext DEF TameRecord, Promise!Stay, Promise!Forget
<1> QED
  BY <1>4, <1>5, <1>6, <1>7

LEMMA TameStep ==
  ASSUME IInv, TameLedger, TameProcs, SystemTypes', used \subseteq used', UNCHANGED effects,
         backup' \in {backup, ledger}
  PROVE  Kept
<1>1. (\A i \in Ids : Closed(i) => Closed(i)') /\ ClosedIds \subseteq ClosedIds'
  BY DEF TameLedger, TameRecord, TameProcs, TameProc, Closed, ClosedIds
<1>2. LedgerInv'
  BY DEF IInv, LedgerInv, TameLedger, TameRecord
<1>3. ProcInv'
  <2> SUFFICES ASSUME NEW p \in Procs
               PROVE  /\ proc'[p].pc = "idle" => proc'[p].native = "none"
                      /\ proc'[p].pc # "idle" => proc'[p].id \in used'
                      /\ Fenced(p)' => /\ ledger'[proc'[p].id].phase # "prepared"
                                       /\ ledger'[proc'[p].id].submission \notin {"submitted", "refused"}
                      /\ proc'[p].pc = "effect" => effects'[proc'[p].id] = 0
                      /\ proc'[p].pc = "outcome" => proc'[p].native # "none"
                      /\ proc'[p].native = "submitted" => effects'[proc'[p].id] = 1
                      /\ proc'[p].native = "refused" => /\ effects'[proc'[p].id] = 0
                                                       /\ proc'[p].id \in ClosedIds'
    BY DEF ProcInv
  <2>1. TameProc(p) /\ (proc[p].pc # "idle" => proc[p].id \in Ids)
    BY DEF TameProcs, IInv, FenceInv, ProcInv, SystemTypes
  <2>2. proc'[p].pc = "idle" => proc'[p].native = "none"
    BY <2>1 DEF TameProc, IInv, FenceInv, ProcInv
  <2>3. proc'[p].pc # "idle" => proc'[p].id \in used'
    BY <2>1 DEF TameProc
  <2>4. CASE Fenced(p)'
    <3>1. proc'[p] = proc[p] /\ proc[p].id \in Ids
      BY <2>4, <2>1 DEF Fenced, TameProc
    <3>2. TameRecord(proc[p].id)
      BY <3>1 DEF TameLedger
    <3> QED
      BY <1>1, <2>3, <2>4, <3>1, <3>2 DEF Fenced, TameRecord, IInv, FenceInv, ProcInv
  <2>5. CASE ~Fenced(p)'
    <3>1. proc'[p].pc \notin {"effect", "outcome"}
      BY <2>5 DEF Fenced
    <3>2. proc'[p].native # "none" => proc'[p].id = proc[p].id /\ proc[p].id \in Ids
      BY <2>1 DEF TameProc, IInv, FenceInv, ProcInv
    <3> QED
      BY <1>1, <2>1, <2>2, <2>3, <2>5, <3>1, <3>2 DEF TameProc, IInv, FenceInv, ProcInv
  <2> QED
    BY <2>4, <2>5
<1>4. OneSender'
  BY DEF TameProcs, TameProc, IInv, FenceInv, OneSender, Fenced
<1>5. IntentInv'
  <2> SUFFICES ASSUME NEW i \in Ids
               PROVE  /\ i \notin used' => /\ effects'[i] = 0
                                           /\ ledger'[i].phase = "absent" /\ backup'[i].phase = "absent"
                      /\ ledger'[i].phase = "prepared" => effects'[i] = 0
                      /\ effects'[i] <= 1
                      /\ ledger'[i].submission = "submitted" => effects'[i] = 1
                      /\ ledger'[i].submission = "refused" => effects'[i] = 0 /\ Closed(i)'
    BY DEF IntentInv
  <2>1. TameRecord(i)
    BY DEF TameLedger
  <2> QED
    BY <1>1, <2>1 DEF TameRecord, IInv, FenceInv, IntentInv
<1> QED
  BY <1>2, <1>3, <1>4, <1>5, TamePromise DEF Kept, IInv, FenceInv

(* Most steps touch the ledger and the processes only.                     *)
LEMMA PlainStep ==
  ASSUME IInv, TameLedger, TameProcs, UNCHANGED <<backup, used, requests, world>>, due' \subseteq Procs
  PROVE  Kept
<1>1. SystemTypes'
  BY DEF IInv, SystemTypes, TameProcs, world
<1> QED
  BY <1>1, TameStep DEF world

LEMMA InitInv == Init => IInv
<1> SUFFICES ASSUME Init PROVE IInv
  OBVIOUS
<1>1. \A p \in Procs : proc[p] = Idle
  BY DEF Init
<1>2. Idle \in Process /\ Idle.pc = "idle" /\ Idle.native = "none"
  BY DEF Idle, Process, PCs, Outcomes, AllSendModes
<1>3. SystemTypes
  <2>1. proc \in [Procs -> Process]
    BY <1>2 DEF Init
  <2>2. age \in [Ids -> Ages] /\ effects \in [Ids -> Nat] /\ coll \in [up : BOOLEAN, epoch : Nat]
    BY DEF Init, Ages
  <2> QED
    BY <2>1, <2>2 DEF Init, SystemTypes
<1>4. Absent \in Record /\ Absent.phase = "absent" /\ Absent.submission = "not_attempted"
  BY NoWaits DEF Absent, Blank, Record, Phases, Submissions
<1>5. LedgerInv
  BY <1>4, AbsentGood DEF Init, LedgerInv
<1>6. ProcInv /\ OneSender
  BY <1>1, <1>2 DEF ProcInv, OneSender, Fenced
<1>7. IntentInv
  <2>1. \A i \in Ids : ledger[i] = Absent /\ backup[i] = Absent /\ effects[i] = 0 /\ i \notin used
    BY DEF Init
  <2>2. 0 <= 1
    OBVIOUS
  <2> QED
    BY <1>4, <2>1, <2>2, Zenon DEF IntentInv
<1> QED
  BY <1>3, <1>5, <1>6, <1>7 DEF IInv, FenceInv

----------------------------------------------------------------------------
(* Steps of the ledger alone.                                              *)

(* A process at work has a known id, and a good record under it.           *)
LEMMA MineGood ==
  ASSUME IInv, NEW p \in Procs, proc[p].pc # "idle"
  PROVE  /\ proc[p].id \in Ids /\ proc[p].id \in used
         /\ proc[p] \in Process
         /\ Mine(p) = Snapshot[proc[p].id]
         /\ Good(proc[p].id, Mine(p)) /\ RetainedFact(proc[p].id)
<1>1. proc[p].id \in Ids /\ proc[p].id \in used /\ proc[p] \in Process
  BY DEF IInv, FenceInv, ProcInv, SystemTypes
<1>2. Good(proc[p].id, Snapshot[proc[p].id]) /\ RetainedFact(proc[p].id)
  BY <1>1, SnapshotFacts DEF IInv
<1> QED
  BY <1>1, <1>2 DEF Mine

LEMMA CompactStep == IInv /\ Compact => Kept
  BY CompactTame, KeepProcs, PlainStep DEF Compact, world, IInv, SystemTypes

LEMMA PrepareStep == ASSUME IInv, NEW i \in Ids, PrepareIntent(i) PROVE Kept
<1>1. boot \in Nat /\ used' = used \cup {i} /\ i \notin used
  BY DEF IInv, SystemTypes, PrepareIntent
<1>2. Good(i, Prepared(boot)) /\ Prepared(boot).submission = "not_attempted"
  BY <1>1, PreparedGood DEF Prepared, Blank
<1>3. TameLedger
  BY <1>1, <1>2, SaveTame DEF PrepareIntent
<1>4. TameProcs
  BY <1>1, KeepProcs DEF PrepareIntent
<1>5. SystemTypes'
  BY <1>1 DEF PrepareIntent, IInv, SystemTypes, world
<1> QED
  BY <1>1, <1>3, <1>4, <1>5, TameStep DEF PrepareIntent, world

LEMMA ConfirmStep == ASSUME IInv, NEW i \in Ids, Confirm(i) PROVE Kept
<1>1. Good(i, Snapshot[i])
  BY SnapshotFacts DEF IInv
<1>2. Good(i, Confirmed(Snapshot[i])) /\ Alike(Confirmed(Snapshot[i]), Snapshot[i])
  BY <1>1, ConfirmedGood DEF Confirm
<1>3. TameLedger
  BY <1>2, SaveTame DEF Confirm
<1>4. TameProcs
  BY KeepProcs DEF Confirm
<1> QED
  BY <1>3, <1>4, PlainStep DEF Confirm, IInv, SystemTypes

----------------------------------------------------------------------------
(* Steps of the senders that leave the submission alone.                   *)

LEMMA SendFreshStep ==
  ASSUME IInv, NEW p \in Procs, NEW i \in Ids, NEW m \in SendModes, SendFresh(p, i, m)
  PROVE  Kept
<1>1. boot \in Nat /\ used' = used \cup {i} /\ i \notin used /\ proc[p].pc = "idle"
  BY DEF IInv, SystemTypes, SendFresh, At
<1>2. Good(i, Prepared(boot)) /\ Prepared(boot).submission = "not_attempted"
  BY <1>1, PreparedGood DEF Prepared, Blank
<1>3. TameLedger
  BY <1>1, <1>2, SaveTame DEF SendFresh
<1>4. TameProcs
  <2>1. used' \subseteq Ids /\ m \in AllSendModes \cup AllWaitModes
    BY <1>1 DEF SendModes, IInv, SystemTypes
  <2> QED
    BY <1>1, <2>1, BeginTame DEF SendFresh, PCs
<1>5. SystemTypes'
  BY <1>1, <1>4 DEF SendFresh, TameProcs, IInv, SystemTypes, world
<1> QED
  BY <1>1, <1>3, <1>4, <1>5, TameStep DEF SendFresh, world

LEMMA SendPreparedStep ==
  ASSUME IInv, NEW p \in Procs, NEW i \in Ids, NEW m \in SendModes, SendPrepared(p, i, m)
  PROVE  Kept
<1>1. used \subseteq Ids /\ m \in AllSendModes \cup AllWaitModes /\ proc[p].pc = "idle" /\ i \in used
      /\ due \subseteq Procs
  BY DEF SendModes, IInv, SystemTypes, SendPrepared, At
<1>2. TameLedger
  BY KeepTame, CompactTame DEF SendPrepared
<1>3. TameProcs
  BY <1>1, BeginTame DEF SendPrepared, PCs
<1> QED
  BY <1>1, <1>2, <1>3, PlainStep DEF SendPrepared

LEMMA QuietSendStep ==
  ASSUME IInv, NEW p \in Procs, DryRun(p) \/ Skip(p)
  PROVE  Kept
<1>1. due \subseteq Procs /\ proc[p].pc # "idle"
  BY DEF IInv, SystemTypes, DryRun, Skip, At
<1>2. TameLedger
  BY KeepTame DEF DryRun, Skip
<1>3. TameProcs
  BY <1>1, GotoTame DEF DryRun, Skip, PCs
<1> QED
  BY <1>1, <1>2, <1>3, PlainStep DEF DryRun, Skip

LEMMA LaunchStep == ASSUME IInv, NEW p \in Procs, LaunchCollector(p) PROVE Kept
<1>1. proc[p].pc # "idle" /\ UNCHANGED used
  BY DEF LaunchCollector, At
<1>2. TameLedger
  BY KeepTame DEF LaunchCollector
<1>3. TameProcs
  BY <1>1, GotoTame DEF LaunchCollector, PCs
<1>4. SystemTypes'
  BY <1>3 DEF LaunchCollector, TameProcs, IInv, SystemTypes
<1> QED
  BY <1>2, <1>3, <1>4, TameStep DEF LaunchCollector

LEMMA AskMintStep == ASSUME IInv, NEW p \in Procs, AskMint(p) PROVE Kept
<1>1. proc[p].pc # "idle" /\ UNCHANGED used
  BY DEF AskMint, At
<1>2. TameLedger
  BY KeepTame DEF AskMint
<1>3. TameProcs
  BY <1>1, GotoTame DEF AskMint, PCs
<1>4. requests' \subseteq Request
  <2>1. [op |-> "mint", proc |-> p, id |-> proc[p].id] \in Request
    BY <1>1, MineGood DEF Request
  <2> QED
    BY <2>1 DEF AskMint, IInv, SystemTypes
<1>5. SystemTypes'
  BY <1>3, <1>4 DEF AskMint, TameProcs, IInv, SystemTypes, world
<1> QED
  BY <1>2, <1>3, <1>5, TameStep DEF AskMint, world

LEMMA RevokeAuthorityStep == ASSUME IInv, NEW p \in Procs, RevokeAuthority(p) PROVE Kept
<1>1. proc[p].pc # "idle" /\ due \subseteq Procs
  BY DEF RevokeAuthority, At, IInv, SystemTypes
<1>2. TameLedger
  <2>1. CASE Mine(p).phase = "absent"
    BY <2>1, KeepTame DEF RevokeAuthority
  <2>2. CASE Mine(p).phase # "absent"
    <3>1. Good(proc[p].id, Revoked(Mine(p))) /\ Alike(Revoked(Mine(p)), Mine(p)) /\ proc[p].id \in Ids
      BY <1>1, MineGood, RevokedGood
    <3> QED
      BY <2>2, <3>1, SaveTame DEF RevokeAuthority, Mine
  <2> QED
    BY <2>1, <2>2
<1>3. TameProcs
  BY <1>1, GotoTame DEF RevokeAuthority, PCs
<1> QED
  BY <1>1, <1>2, <1>3, PlainStep DEF RevokeAuthority

----------------------------------------------------------------------------
(* Waits.                                                                  *)

LEMMA WaitBeginStep ==
  ASSUME IInv, NEW p \in Procs, NEW i \in Ids, NEW m \in WaitModes, WaitBegin(p, i, m)
  PROVE  Kept
<1>1. used \subseteq Ids /\ m \in AllSendModes \cup AllWaitModes /\ proc[p].pc = "idle" /\ i \in used
      /\ due \subseteq Procs
  BY DEF WaitModes, IInv, SystemTypes, WaitBegin, At
<1>2. TameLedger
  BY KeepTame DEF WaitBegin
<1>3. TameProcs
  BY <1>1, BeginTame DEF WaitBegin, PCs
<1> QED
  BY <1>1, <1>2, <1>3, PlainStep DEF WaitBegin

LEMMA QueryClockStep == ASSUME IInv, NEW p \in Procs, NEW b \in BOOLEAN, QueryClock(p, b) PROVE Kept
<1> DEFINE clock == IF b THEN coll.epoch ELSE 0
           pc == IF proc[p].mode \in WaitModes THEN "opening" ELSE "polling"
           q == [proc[p] EXCEPT !.clock = clock, !.pc = pc]
<1>1. proc[p].pc # "idle" /\ due \subseteq Procs /\ clock \in Nat /\ pc \in PCs \ {"idle", "effect", "outcome"}
  BY DEF QueryClock, At, IInv, SystemTypes, PCs
<1>2. TameLedger
  BY KeepTame DEF QueryClock
<1>3. TameProcs
  <2>1. proc \in [Procs -> Process] /\ proc[p].auth \in Nat
    BY DEF IInv, SystemTypes, Process
  <2>2. proc' = [proc EXCEPT ![p] = q]
    BY <2>1 DEF QueryClock, Process
  <2> HIDE DEF clock, pc
  <2>3. q \in Process /\ q.pc = pc /\ q.id = proc[p].id /\ q.native = proc[p].native
    BY <1>1, <2>1 DEF Process
  <2> HIDE DEF q
  <2> QED
    BY <1>1, <2>2, <2>3, MoveTame DEF QueryClock
<1> QED
  BY <1>1, <1>2, <1>3, PlainStep DEF QueryClock

LEMMA OpenWaitStep == ASSUME IInv, NEW p \in Procs, NEW b \in BOOLEAN, OpenWait(p, b) PROVE Kept
<1>1. proc[p].pc # "idle" /\ due \subseteq Procs /\ proc[p].clock \in Nat
  BY DEF OpenWait, At, IInv, SystemTypes, Process
<1>2. TameLedger
  <2>1. CASE UNCHANGED ledger
    BY <2>1, KeepTame DEF OpenWait
  <2>2. CASE ~UNCHANGED ledger
    <3>1. PICK goal \in Goals, status \in WaitStatuses :
             /\ WaitCapacity(Mine(p))
             /\ Save(proc[p].id, StartWait(Mine(p), p, goal, status, proc[p].clock))
      BY <2>2, Zenon DEF OpenWait, Goals, WaitStatuses
    <3> DEFINE r == StartWait(Mine(p), p, goal, status, proc[p].clock)
    <3>2. Good(proc[p].id, r) /\ Alike(r, Mine(p)) /\ proc[p].id \in Ids
      BY <1>1, <3>1, MineGood, StartWaitGood
    <3> QED
      BY <3>1, <3>2, SaveTame DEF OpenWait, Mine
  <2> QED
    BY <2>1, <2>2
<1>3. TameProcs
  BY <1>1, GotoTame DEF OpenWait, PCs
<1> QED
  BY <1>1, <1>2, <1>3, PlainStep DEF OpenWait

LEMMA EndWaitStep == ASSUME IInv, NEW p \in Procs, Poll(p) \/ Interrupt(p) PROVE Kept
<1>1. proc[p].pc # "idle" /\ due \subseteq Procs
  BY DEF Poll, Interrupt, At, IInv, SystemTypes
<1>2. UNCHANGED ledger \/ \E status \in WaitStatuses : Save(proc[p].id, SetWait(Mine(p), p, status))
  <2>1. CASE Interrupt(p)
    BY <2>1 DEF Interrupt, WaitStatuses
  <2>2. CASE Poll(p) /\ ~UNCHANGED ledger
    <3>1. PICK k \in WaitOf(Mine(p), p) : Save(proc[p].id, SetWait(Mine(p), p, PollResult(Mine(p), k, p)))
      BY <2>2 DEF Poll
    <3>2. Mine(p).waits[k] \in Wait
      BY <1>1, MineGood, LenProperties DEF WaitOf, Good, Record
    <3>3. PollResult(Mine(p), k, p) \in WaitStatuses
      BY <3>2 DEF PollResult, Wait, WaitStatuses
    <3> QED
      BY <3>1, <3>3
  <2> QED
    BY <2>1, <2>2
<1>3. TameLedger
  <2>1. CASE UNCHANGED ledger
    BY <2>1, KeepTame DEF Poll, Interrupt
  <2>2. CASE ~UNCHANGED ledger
    <3>1. PICK status \in WaitStatuses : Save(proc[p].id, SetWait(Mine(p), p, status))
      BY <1>2, <2>2
    <3>2. /\ Good(proc[p].id, SetWait(Mine(p), p, status)) /\ proc[p].id \in Ids
          /\ Alike(SetWait(Mine(p), p, status), Mine(p))
      BY <1>1, MineGood, SetWaitGood
    <3> QED
      BY <3>1, <3>2, SaveTame DEF Poll, Interrupt, Mine
  <2> QED
    BY <2>1, <2>2
<1>4. TameProcs
  <2>1. Missing(p) \in PCs \ {"idle", "effect", "outcome"} /\ "done" \in PCs \ {"idle", "effect", "outcome"}
    BY DEF Missing, PCs
  <2>2. (Goto(p, "done") \/ Goto(p, Missing(p))) /\ UNCHANGED used
    BY Zenon DEF Poll, Interrupt
  <2> QED
    BY <1>1, <2>1, <2>2, GotoTame
<1> QED
  BY <1>1, <1>3, <1>4, PlainStep DEF Poll, Interrupt

----------------------------------------------------------------------------
(* The collector.                                                          *)

LEMMA CollectorStartStep == IInv /\ CollectorStart => Kept
<1> SUFFICES ASSUME IInv, CollectorStart PROVE Kept
  OBVIOUS
<1> HIDE DEF Snapshot
<1>1. \A i \in Ids : Good(i, Snapshot[i]) /\ RetainedFact(i)
  BY SnapshotFacts DEF IInv
<1>2. \A i \in Ids : Good(i, StartupLedger[i]) /\ Alike(StartupLedger[i], Snapshot[i])
  BY <1>1, RevokedGood DEF StartupLedger, Alike
<1>3. StartupLedger \in [Ids -> Record]
  BY <1>2 DEF StartupLedger, Good
<1>4. TameLedger
  <2>1. ledger' = StartupLedger /\ UNCHANGED used
    BY DEF CollectorStart
  <2>2. \A i \in Ids : TameRecord(i)
    BY <1>1, <1>2, <2>1 DEF RetainedFact, TameRecord, Alike, IInv, FenceInv, IntentInv
  <2> QED
    BY <1>3, <2>1, <2>2 DEF TameLedger
<1>5. TameProcs
  BY KeepProcs DEF CollectorStart
<1>6. SystemTypes'
  <2>1. coll.epoch \in Nat
    BY DEF IInv, SystemTypes
  <2>2. coll' = [up |-> TRUE, epoch |-> coll.epoch + 1]
    BY DEF CollectorStart
  <2>3. coll' \in [up : BOOLEAN, epoch : Nat]
    BY <2>1, <2>2
  <2> QED
    BY <2>3 DEF CollectorStart, Launched, IInv, SystemTypes
<1>7. UNCHANGED <<backup, used, effects>>
  BY DEF CollectorStart
<1> QED
  BY <1>4, <1>5, <1>6, <1>7, TameStep

LEMMA HandleMintStep == ASSUME IInv, NEW q \in requests, HandleMint(q) PROVE Kept
<1>1. q.id \in Ids /\ q.proc \in Procs /\ coll.epoch \in Nat /\ UNCHANGED used /\ used' \subseteq Ids
  BY DEF IInv, SystemTypes, Request, HandleMint
<1>2. TameLedger
  <2>1. CASE Mintable(q.id)
    <3> DEFINE r == [Snapshot[q.id] EXCEPT !.cap = "live", !.capClock = coll.epoch]
    <3>1. Good(q.id, Snapshot[q.id])
      BY <1>1, SnapshotFacts DEF IInv
    <3> HIDE DEF Snapshot
    <3>2. Good(q.id, r) /\ Alike(r, Snapshot[q.id])
      BY <1>1, <2>1, <3>1 DEF Mintable, Good, Record, RecordValid, Alike
    <3>3. Save(q.id, r)
      BY <2>1 DEF HandleMint
    <3> HIDE DEF r
    <3> QED
      BY <1>1, <3>2, <3>3, SaveTame
  <2>2. CASE ~Mintable(q.id)
    BY <1>1, <2>2, KeepTame DEF HandleMint
  <2> QED
    BY <2>1, <2>2
<1>3. TameProcs
  <2>1. CASE UNCHANGED proc
    BY <1>1, <2>1, KeepProcs
  <2>2. CASE ~UNCHANGED proc
    <3> DEFINE b == [proc[q.proc] EXCEPT !.pc = "ready", !.auth = coll.epoch]
    <3>1. proc \in [Procs -> Process]
      BY DEF IInv, SystemTypes
    <3>2. proc' = [proc EXCEPT ![q.proc] = b] /\ proc[q.proc].pc = "minting"
      BY <1>1, <2>2, <3>1 DEF HandleMint, At, Process
    <3>3. b \in Process /\ b.pc = "ready" /\ b.id = proc[q.proc].id /\ b.native = proc[q.proc].native
      BY <1>1, <3>1 DEF Process, PCs
    <3> HIDE DEF b
    <3> QED
      BY <1>1, <3>2, <3>3, MoveTame
  <2> QED
    BY <2>1, <2>2
<1>4. SystemTypes'
  BY <1>1, <1>3 DEF HandleMint, TameProcs, IInv, SystemTypes, world
<1> QED
  BY <1>2, <1>3, <1>4, TameStep DEF HandleMint, world

LEMMA ClassifyTame ==
  ASSUME IInv, NEW i \in Claude, NEW rid \in ReceiptIds \cup {None}, UNCHANGED used, Classify(i, rid),
         Snapshot[i].pending # None \/ rid # None
  PROVE  TameLedger
<1>1. PICK due2 \in SUBSET Procs : Save(i, Acknowledged(Snapshot[i], rid, coll.epoch, due, due2))
  BY DEF Classify
<1> DEFINE r == Acknowledged(Snapshot[i], rid, coll.epoch, due, due2)
<1>2. i \in Ids
  BY ClaudeAssumption
<1>3. Good(i, Snapshot[i]) /\ Snapshot[i].submission = "submitted"
  BY <1>2, SnapshotFacts DEF IInv, Classify
<1>4. Good(i, r) /\ Alike(r, Snapshot[i])
  BY <1>2, <1>3, AcknowledgedGood
<1> HIDE DEF r, Snapshot
<1> QED
  BY <1>1, <1>2, <1>4, SaveTame DEF r

(* A usable capability is a Claude target's: only its mint makes one live. *)
LEMMA HandleClassifyStep == ASSUME IInv, NEW q \in requests, HandleClassify(q) PROVE Kept
<1>1. q.id \in Ids /\ UNCHANGED <<used, proc>> /\ due' \subseteq Procs
  BY DEF IInv, SystemTypes, Request, HandleClassify, Classify
<1>2. TameLedger
  <2>1. CASE UNCHANGED ledger
    BY <1>1, <2>1, KeepTame
  <2>2. CASE ~UNCHANGED ledger
    <3>1. Classify(q.id, None) /\ Snapshot[q.id].pending # None
      BY <2>2 DEF HandleClassify
    <3>2. q.id \in Claude
      <4>1. Good(q.id, Snapshot[q.id])
        BY <1>1, SnapshotFacts DEF IInv
      <4> HIDE DEF Snapshot
      <4> QED
        BY <3>1, <4>1 DEF Good, RecordValid, Classify
    <3> QED
      BY <1>1, <3>1, <3>2, ClassifyTame
  <2> QED
    BY <2>1, <2>2
<1>3. TameProcs
  BY <1>1, KeepProcs
<1>4. SystemTypes'
  BY <1>1 DEF HandleClassify, IInv, SystemTypes, world
<1> QED
  BY <1>1, <1>2, <1>3, <1>4, TameStep DEF HandleClassify, world

LEMMA ReceiptStep ==
  ASSUME IInv, NEW i \in Ids, NEW rid \in ReceiptIds, Receipt(i, rid) PROVE Kept
<1>1. /\ UNCHANGED <<backup, used, proc, requests, world>> /\ due' \subseteq Procs
      /\ coll.epoch \in Nat
  BY DEF Receipt, HoldEarly, Classify, IInv, SystemTypes
<1>2. Good(i, Snapshot[i])
  BY SnapshotFacts DEF IInv
<1>3. Snapshot[i].cap = "live" /\ Snapshot[i].ack = "none"
  BY DEF Receipt, Usable
<1> HIDE DEF Snapshot
<1>4. i \in Claude
  BY <1>2, <1>3 DEF Good
<1>5. rid # None
  BY NoneAssumption
<1>6. CASE HoldEarly(i, rid)
  <2> DEFINE r == [Snapshot[i] EXCEPT !.pending = rid, !.pendingClock = coll.epoch]
  <2>1. Good(i, r) /\ Alike(r, Snapshot[i])
    BY <1>1, <1>2, <1>3, <1>4, <1>6 DEF HoldEarly, Good, Record, RecordValid, Alike
  <2>2. Save(i, r)
    BY <1>6 DEF HoldEarly
  <2> HIDE DEF r
  <2>3. TameLedger
    BY <1>1, <2>1, <2>2, SaveTame
  <2> QED
    BY <1>1, <2>3, KeepProcs, PlainStep
<1>7. CASE Classify(i, rid)
  <2>1. TameLedger
    BY <1>1, <1>4, <1>5, <1>7, ClassifyTame
  <2> QED
    BY <1>1, <2>1, KeepProcs, PlainStep
<1> QED
  BY <1>6, <1>7 DEF Receipt

----------------------------------------------------------------------------
(* The environment.                                                        *)

LEMMA RestoreStep == IInv /\ RestoreQuarantined => Kept
<1> SUFFICES ASSUME IInv, RestoreQuarantined PROVE Kept
  OBVIOUS
<1>1. \A i \in Ids : Good(i, backup[i])
  BY DEF IInv, LedgerInv
<1>2. \A i \in Ids : backup[i].phase # "absent" =>
         /\ Good(i, Quarantined(Retained(backup)[i]))
         /\ Quarantined(Retained(backup)[i]).phase = "quarantined"
         /\ Quarantined(Retained(backup)[i]).submission = "unknown"
  <2> SUFFICES ASSUME NEW i \in Ids, backup[i].phase # "absent"
               PROVE  /\ Good(i, Quarantined(Retained(backup)[i]))
                      /\ Quarantined(Retained(backup)[i]).phase = "quarantined"
                      /\ Quarantined(Retained(backup)[i]).submission = "unknown"
    OBVIOUS
  <2>1. Retained(backup)[i] = IF Expired(backup, i) THEN Tombstone(backup[i]) ELSE backup[i]
    BY DEF Retained
  <2>2. Good(i, Retained(backup)[i]) /\ Retained(backup)[i].phase # "absent"
    BY <1>1, <2>1, TombstoneGood
  <2> QED
    BY <2>2, QuarantinedGood
<1>3. \A i \in Ids : ledger'[i] = IF backup[i].phase = "absent" THEN backup[i]
                                  ELSE Quarantined(Retained(backup)[i])
  BY DEF RestoreQuarantined
<1>4. UNCHANGED <<backup, used, proc, requests, due, world>> /\ due \subseteq Procs
  BY DEF RestoreQuarantined, IInv, SystemTypes
<1>5. TameLedger
  <2>1. \A i \in Ids : TameRecord(i)
    BY <1>1, <1>2, <1>3, <1>4 DEF TameRecord, Good, IInv, FenceInv, IntentInv
  <2>2. ledger' = [i \in Ids |-> IF backup[i].phase = "absent" THEN backup[i]
                                 ELSE Quarantined(Retained(backup)[i])]
    BY DEF RestoreQuarantined
  <2>3. \A i \in Ids : ledger'[i] \in Record
    BY <2>1 DEF TameRecord, Good
  <2> QED
    BY <2>1, <2>2, <2>3 DEF TameLedger
<1> QED
  BY <1>4, <1>5, KeepProcs, PlainStep

(* What the environment and the collector's launch do besides the ledger.  *)
BackdropStep ==
  \/ CollectorRefused \/ \E i \in Ids : GrowOld(i)
  \/ CollectorStop \/ CollectorCrash \/ CollectorDiesBinding \/ RemoveStaleSocket \/ TakeBackup
  \/ \E p \in Procs : DeadlinePasses(p)

LEMMA BackdropKeeps == IInv /\ BackdropStep => Kept
<1> SUFFICES ASSUME IInv, BackdropStep PROVE Kept
  OBVIOUS
<1>1. UNCHANGED <<ledger, used, proc, effects>> /\ backup' \in {backup, ledger}
  BY DEF BackdropStep, CollectorRefused, GrowOld, CollectorStop, CollectorCrash, CollectorDiesBinding,
         RemoveStaleSocket, TakeBackup, DeadlinePasses, world
<1>2. SystemTypes'
  <2> USE DEF IInv, SystemTypes
  <2>1. CASE \E i \in Ids : GrowOld(i)
    BY <2>1 DEF GrowOld, Ages
  <2>2. CASE CollectorRefused
    BY <2>2 DEF CollectorRefused, Launched
  <2>3. CASE CollectorStop
    BY <2>3 DEF CollectorStop
  <2>4. CASE CollectorCrash
    BY <2>4 DEF CollectorCrash
  <2>5. CASE CollectorDiesBinding \/ RemoveStaleSocket
    BY <2>5 DEF CollectorDiesBinding, RemoveStaleSocket, Launched
  <2>6. CASE TakeBackup \/ \E p \in Procs : DeadlinePasses(p)
    BY <2>6 DEF TakeBackup, DeadlinePasses, world
  <2> QED
    BY <2>1, <2>2, <2>3, <2>4, <2>5, <2>6 DEF BackdropStep
<1> QED
  BY <1>1, <1>2, KeepTame, KeepProcs, TameStep

LEMMA CrashStep == ASSUME IInv, NEW p \in Procs, Crash(p) PROVE Kept
<1>1. proc[p].pc # "idle" /\ due \subseteq Procs
  BY DEF Crash, IInv, SystemTypes
<1>2. TameLedger
  BY KeepTame DEF Crash
<1>3. TameProcs
  BY <1>1, GotoTame DEF Crash, PCs
<1> QED
  BY <1>1, <1>2, <1>3, PlainStep DEF Crash

LEMMA RebootStep == IInv /\ Reboot => Kept
<1> SUFFICES ASSUME IInv, Reboot PROVE Kept
  OBVIOUS
<1>1. UNCHANGED <<ledger, backup, used, effects>>
  BY DEF Reboot
<1>2. TameProcs
  <2>1. proc \in [Procs -> Process] /\ ProcInv
    BY DEF IInv, FenceInv, SystemTypes
  <2>2. \A p \in Procs : /\ proc'[p] \in Process /\ proc'[p].id = proc[p].id
                         /\ proc'[p].native = proc[p].native
                         /\ \/ proc[p].pc \in {"idle", "done"} /\ proc'[p] = proc[p]
                            \/ proc[p].pc \notin {"idle", "done"} /\ proc'[p].pc = "crashed"
    BY <2>1 DEF Reboot, Process, PCs
  <2>3. proc' \in [Procs -> Process]
    BY <2>2 DEF Reboot
  <2> QED
    BY <1>1, <2>1, <2>2, <2>3 DEF TameProcs, TameProc, ProcInv
<1>3. SystemTypes'
  <2>1. coll' \in [up : BOOLEAN, epoch : Nat] /\ boot' \in Nat
    <3>1. coll \in [up : BOOLEAN, epoch : Nat] /\ boot \in Nat
      BY DEF IInv, SystemTypes
    <3>2. coll' = [coll EXCEPT !.up = FALSE] /\ boot' = boot + 1
      BY DEF Reboot
    <3>3. coll' \in [up : BOOLEAN, epoch : Nat]
      BY <3>1, <3>2
    <3>4. boot' \in Nat
      BY <3>1, <3>2
    <3> QED
      BY <3>3, <3>4
  <2>2. spawned' = {} /\ requests' = {} /\ UNCHANGED <<used, sock, effects, holders, age, due>>
    BY DEF Reboot
  <2> QED
    BY <1>2, <2>1, <2>2 DEF TameProcs, IInv, SystemTypes
<1> QED
  BY <1>1, <1>2, <1>3, KeepTame, TameStep

----------------------------------------------------------------------------
(* The steps that close an intent, licence, perform or report a submission. *)
(* Each rewrites one process and at most one record, the process's own.    *)

Untouched(j) ==
  \/ ledger'[j] = ledger[j]
  \/ /\ ledger'[j].phase = "tombstone" /\ ledger'[j].submission = "unknown"
     /\ ledger[j].phase # "absent"

(* What such a step leaves alone, and the form it gives what it does not.  *)
Focus(p, i, r, b, n) ==
  /\ p \in Procs /\ proc[p].pc # "idle" /\ i = proc[p].id /\ Good(i, r) /\ b \in Process /\ b.id = i
  /\ b.pc # "idle" /\ n \in Nat
  /\ ledger' \in [Ids -> Record] /\ ledger'[i] = r
  /\ \A j \in Ids : j # i => Good(j, ledger'[j]) /\ Untouched(j)
  /\ proc' = [proc EXCEPT ![p] = b]
  /\ effects' = [effects EXCEPT ![i] = n]
  /\ UNCHANGED <<backup, used>>

(* What p may do: take or give up the licence, use it, or tell the outcome.*)
Entitled(p, i, r, b, n) ==
  \/ ledger[i].phase = "prepared" /\ n = effects[i] /\ r.submission # "submitted"
  \/ /\ proc[p].pc = "effect" /\ b.pc # "effect" /\ n \in {effects[i], effects[i] + 1}
     /\ r.submission = ledger[i].submission
  \/ proc[p].pc = "outcome" /\ b.pc # "effect" /\ n = effects[i]

(* What p's step must establish of its own intent, given the others' steps.*)
Settled(p, i, r, b, n) ==
  /\ r.phase # "prepared" /\ n <= 1
  /\ r.submission = "submitted" => n = 1
  /\ r.submission = "refused" => n = 0 /\ b.pc # "effect"
  /\ b.pc \in {"effect", "outcome"} => r.submission \notin {"submitted", "refused"}
  /\ b.pc = "effect" => n = 0
  /\ b.pc = "outcome" => b.native # "none"
  /\ b.native = "submitted" => n = 1
  /\ b.native = "refused" => n = 0 /\ b.pc # "effect"
  /\ \A q \in Procs : q # p /\ proc[q].id = i =>
       /\ ~Fenced(q)
       /\ proc[q].native = "submitted" => n = 1
       /\ proc[q].native = "refused" => n = 0 /\ b.pc # "effect"
  /\ Entitled(p, i, r, b, n)

LEMMA FocusPromise ==
  ASSUME IInv, NEW p, NEW i, NEW r, NEW b, NEW n, Focus(p, i, r, b, n), Settled(p, i, r, b, n)
  PROVE  Promise!Next
<1>1. /\ p \in Procs /\ i \in Ids /\ i \in used /\ i = proc[p].id /\ proc[p].pc # "idle"
      /\ proc \in [Procs -> Process] /\ effects \in [Ids -> Nat] /\ used' = used
  BY DEF Focus, IInv, SystemTypes, FenceInv, ProcInv
<1>2. proc'[p] = b /\ (\A q \in Procs : q # p => proc'[q] = proc[q]) /\ b.id = i
  BY <1>1 DEF Focus
<1>3. effects'[i] = n /\ \A j \in Ids : j # i => effects'[j] = effects[j]
  BY <1>1 DEF Focus
<1>4. ledger'[i] = r /\ \A j \in Ids : j # i => Untouched(j)
  BY DEF Focus
<1>5. \A j \in Ids : j # i => Promise!Stay(j) \/ Promise!Forget(j)
  <2> SUFFICES ASSUME NEW j \in Ids, j # i PROVE Promise!Stay(j) \/ Promise!Forget(j)
    OBVIOUS
  <2>1. Held(j)' <=> Held(j)
    BY <1>1, <1>2 DEF Held
  <2>2. CASE ledger'[j] = ledger[j]
    BY <1>1, <1>3, <2>1, <2>2, LicenceNext, LicenceFacts DEF Fact, Promise!Stay
  <2>3. CASE ledger'[j].phase = "tombstone" /\ ledger'[j].submission = "unknown" /\ ledger[j].phase # "absent"
    <3>1. j \in used
      BY <2>3 DEF IInv, FenceInv, IntentInv
    <3> QED
      BY <1>1, <1>3, <2>1, <2>3, <3>1, LicenceNext, LicenceFacts DEF Promise!Forget
  <2> QED
    BY <1>4, <2>2, <2>3 DEF Untouched
<1>6. r.phase # "prepared" /\ \A q \in Procs : q # p /\ proc[q].id = i => proc[q].pc # "effect"
  BY DEF Settled, Fenced
<1>7. Held(i)' <=> b.pc = "effect"
  BY <1>1, <1>2, <1>6 DEF Held
<1>8. Held(i) <=> proc[p].pc = "effect"
  BY <1>1, <1>6 DEF Held
<1>9. /\ Held(i)' => Licence(i)' = "held"
      /\ ~Held(i)' => Licence(i)' = "spent"
      /\ Fact(i)' = IF r.submission \in {"submitted", "refused"} THEN r.submission ELSE "none"
  BY <1>1, <1>4, <1>6, LicenceNext
<1>10. CASE ledger[i].phase = "prepared" /\ n = effects[i] /\ r.submission # "submitted"
  <2>1. Licence(i) = "open" /\ Fact(i) = "none"
    BY <1>1, <1>10, LicenceFacts
  <2>2. b.pc = "effect" => r.submission # "refused"
    BY DEF Settled
  <2> QED
    BY <1>1, <1>3, <1>5, <1>7, <1>9, <1>10, <2>1, <2>2
    DEF Promise!Next, Promise!Take, Promise!Refuse, Promise!Forget
<1>11. CASE /\ proc[p].pc = "effect" /\ b.pc # "effect" /\ n \in {effects[i], effects[i] + 1}
            /\ r.submission = ledger[i].submission
  <2>1. Licence(i) = "held" /\ Fact(i)' = Fact(i)
    BY <1>1, <1>8, <1>9, <1>11, LicenceFacts DEF Fact
  <2> QED
    BY <1>1, <1>3, <1>5, <1>7, <1>9, <1>11, <2>1 DEF Promise!Next, Promise!Use
<1>12. CASE proc[p].pc = "outcome" /\ b.pc # "effect" /\ n = effects[i]
  <2>1. ledger[i].phase # "prepared"
    BY <1>1, <1>12 DEF IInv, FenceInv, ProcInv, Fenced
  <2>2. Licence(i) = "spent"
    BY <1>1, <1>8, <1>12, <2>1, LicenceFacts
  <2>3. (r.submission = "submitted" => n = 1) /\ (r.submission = "refused" => n = 0)
    BY DEF Settled
  <2> QED
    BY <1>1, <1>3, <1>5, <1>7, <1>9, <1>12, <2>2, <2>3 DEF Promise!Next, Promise!Learn, Promise!Forget
<1> QED
  BY <1>10, <1>11, <1>12 DEF Settled, Entitled

LEMMA FocusStep ==
  ASSUME IInv, SystemTypes', NEW p, NEW i, NEW r, NEW b, NEW n, Focus(p, i, r, b, n), Settled(p, i, r, b, n)
  PROVE  Kept
<1>1. /\ p \in Procs /\ i \in Ids /\ i \in used /\ i = proc[p].id /\ proc[p].pc # "idle"
      /\ proc \in [Procs -> Process] /\ effects \in [Ids -> Nat] /\ used' = used /\ backup' = backup
  BY DEF Focus, IInv, SystemTypes, FenceInv, ProcInv
<1>2. proc'[p] = b /\ \A q \in Procs : q # p => proc'[q] = proc[q]
  BY <1>1 DEF Focus
<1>3. effects'[i] = n /\ \A j \in Ids : j # i => effects'[j] = effects[j]
  BY <1>1 DEF Focus
<1>4. LedgerInv'
  BY DEF Focus, IInv, LedgerInv
<1>5. /\ ledger'[i] = r /\ b.id = i /\ b.pc # "idle"
      /\ \A j \in Ids : j # i => Untouched(j)
  BY DEF Focus
<1>6. \A j \in Ids : j # i /\ Closed(j) => Closed(j)'
  <2> SUFFICES ASSUME NEW j \in Ids, j # i, Closed(j) PROVE Closed(j)'
    OBVIOUS
  <2>1. \A q \in Procs : proc'[q].id = j => proc'[q].pc # "effect"
    BY <1>1, <1>2, <1>5 DEF Closed
  <2> QED
    BY <1>1, <1>5, <2>1 DEF Closed, Untouched
<1>7. b.pc # "effect" => Closed(i)'
  <2> SUFFICES ASSUME b.pc # "effect" PROVE Closed(i)'
    OBVIOUS
  <2>1. \A q \in Procs : proc'[q].id = i => proc'[q].pc # "effect"
    BY <1>1, <1>2 DEF Settled, Fenced
  <2>2. ledger'[i].phase # "prepared"
    BY <1>5 DEF Settled
  <2> QED
    BY <1>1, <2>1, <2>2 DEF Closed
<1>8. OneSender'
  BY <1>1, <1>2, <1>5 DEF Settled, IInv, FenceInv, OneSender, Fenced
<1>9. ProcInv'
  <2> SUFFICES ASSUME NEW q \in Procs
               PROVE  /\ proc'[q].pc = "idle" => proc'[q].native = "none"
                      /\ proc'[q].pc # "idle" => proc'[q].id \in used'
                      /\ Fenced(q)' => /\ ledger'[proc'[q].id].phase # "prepared"
                                       /\ ledger'[proc'[q].id].submission \notin {"submitted", "refused"}
                      /\ proc'[q].pc = "effect" => effects'[proc'[q].id] = 0
                      /\ proc'[q].pc = "outcome" => proc'[q].native # "none"
                      /\ proc'[q].native = "submitted" => effects'[proc'[q].id] = 1
                      /\ proc'[q].native = "refused" => /\ effects'[proc'[q].id] = 0
                                                       /\ proc'[q].id \in ClosedIds'
    BY DEF ProcInv
  <2>1. CASE q = p
    BY <1>1, <1>2, <1>3, <1>5, <1>7, <2>1 DEF Settled, Fenced, ClosedIds
  <2>2. CASE q # p /\ proc[q].id = i
    BY <1>1, <1>2, <1>3, <1>5, <1>7, <2>2 DEF Settled, Fenced, ClosedIds, IInv, FenceInv, ProcInv
  <2>3. CASE q # p /\ proc[q].id # i
    <3>1. proc'[q] = proc[q] /\ (proc[q].pc # "idle" => proc[q].id \in Ids)
      BY <1>1, <1>2, <2>3 DEF IInv, SystemTypes, FenceInv, ProcInv
    <3>2. CASE proc[q].pc = "idle"
      BY <3>1, <3>2 DEF Fenced, IInv, FenceInv, ProcInv
    <3>3. CASE proc[q].pc # "idle"
      BY <1>1, <1>3, <1>5, <1>6, <2>3, <3>1, <3>3 DEF Untouched, Fenced, ClosedIds, IInv, FenceInv, ProcInv
    <3> QED
      BY <3>2, <3>3
  <2> QED
    BY <2>1, <2>2, <2>3
<1>10. IntentInv'
  <2> SUFFICES ASSUME NEW j \in Ids
               PROVE  /\ j \notin used' => /\ effects'[j] = 0
                                           /\ ledger'[j].phase = "absent" /\ backup'[j].phase = "absent"
                      /\ ledger'[j].phase = "prepared" => effects'[j] = 0
                      /\ effects'[j] <= 1
                      /\ ledger'[j].submission = "submitted" => effects'[j] = 1
                      /\ ledger'[j].submission = "refused" => effects'[j] = 0 /\ Closed(j)'
    BY DEF IntentInv
  <2>1. CASE j = i
    BY <1>1, <1>3, <1>5, <1>7, <2>1 DEF Settled
  <2>2. CASE j # i
    BY <1>1, <1>3, <1>5, <1>6, <2>2 DEF Untouched, IInv, FenceInv, IntentInv
  <2> QED
    BY <2>1, <2>2
<1> QED
  BY <1>4, <1>8, <1>9, <1>10, FocusPromise DEF Kept, IInv, FenceInv

(* Focus from a save of p's record.                                        *)
LEMMA SaveFocus ==
  ASSUME IInv, NEW p \in Procs, proc[p].pc # "idle", NEW r, Good(proc[p].id, r),
         Save(proc[p].id, r),
         NEW b \in Process, b.id = proc[p].id, b.pc # "idle", proc' = [proc EXCEPT ![p] = b],
         UNCHANGED <<backup, used, effects>>
  PROVE  Focus(p, proc[p].id, r, b, effects[proc[p].id])
<1> HIDE DEF Snapshot
<1>1. proc[p].id \in Ids /\ effects \in [Ids -> Nat]
  BY MineGood DEF IInv, SystemTypes
<1>2. /\ Snapshot \in [Ids -> Record]
      /\ \A j \in Ids : Good(j, Snapshot[j]) /\ RetainedFact(j)
  BY SnapshotFacts DEF IInv
<1>3. ledger' = [Snapshot EXCEPT ![proc[p].id] = r] /\ r \in Record
  BY DEF Save, Good
<1>4. /\ ledger' \in [Ids -> Record] /\ ledger'[proc[p].id] = r
      /\ \A j \in Ids : j # proc[p].id => ledger'[j] = Snapshot[j]
  BY <1>1, <1>2, <1>3
<1>5. effects' = [effects EXCEPT ![proc[p].id] = effects[proc[p].id]] /\ effects[proc[p].id] \in Nat
  BY <1>1
<1> QED
  BY <1>1, <1>2, <1>4, <1>5 DEF Focus, RetainedFact, Untouched

(* An intent still offered for sending has no effect and no other sender.  *)
LEMMA OpenIntent ==
  ASSUME IInv, NEW p \in Procs, proc[p].pc # "idle", Mine(p).phase = "prepared"
  PROVE  /\ effects[proc[p].id] = 0 /\ Mine(p).submission = "not_attempted" /\ Mine(p).ack = "none"
         /\ ledger[proc[p].id].phase = "prepared"
         /\ \A q \in Procs : proc[q].id = proc[p].id =>
               ~Fenced(q) /\ proc[q].native \notin {"submitted", "refused"}
<1>1. proc[p].id \in Ids /\ Good(proc[p].id, Mine(p)) /\ Mine(p) = ledger[proc[p].id]
  BY MineGood DEF RetainedFact
<1>2. ledger[proc[p].id].phase = "prepared"
  BY <1>1
<1>3. effects[proc[p].id] = 0 /\ proc[p].id \notin ClosedIds
  BY <1>1, <1>2 DEF IInv, FenceInv, IntentInv, ClosedIds, Closed
<1>4. \A q \in Procs : proc[q].id = proc[p].id => ~Fenced(q) /\ proc[q].native \notin {"submitted", "refused"}
  BY <1>2, <1>3 DEF IInv, FenceInv, ProcInv
<1> QED
  BY <1>1, <1>2, <1>3, <1>4 DEF Good, RecordValid

LEMMA RefuseSendStep ==
  ASSUME IInv, NEW p \in Procs, NEW status \in WaitStatuses, proc[p].pc # "idle", RefuseSend(p, status)
  PROVE  Kept
<1>1. UNCHANGED <<backup, used, requests, due, world>> /\ due \subseteq Procs /\ UNCHANGED effects
  BY DEF RefuseSend, IInv, SystemTypes, world
<1>2. CASE ~Refusable(p)
  <2>1. TameLedger
    BY <1>1, <1>2, KeepTame DEF RefuseSend
  <2>2. TameProcs
    BY <1>1, <1>2, GotoTame DEF RefuseSend, PCs
  <2> QED
    BY <1>1, <2>1, <2>2, PlainStep
<1>3. CASE Refusable(p)
  <2> DEFINE i == proc[p].id
             goal == IF proc[p].mode = "delivered" THEN "delivered" ELSE "acknowledged"
             spent == [Mine(p) EXCEPT !.phase = "terminal", !.submission = "refused",
                                      !.ackRequested = WantsAck(p)]
             waited == IF Waits(p) THEN StartWait(spent, p, goal, status, 0) ELSE spent
             r == Revoked(waited)
             b == [proc[p] EXCEPT !.pc = "done", !.native = "refused"]
  <2>1. /\ i \in Ids /\ Good(i, Mine(p)) /\ Mine(p).phase = "prepared"
        /\ proc \in [Procs -> Process] /\ proc[p] \in Process
    BY <1>3, MineGood DEF Refusable, IInv, SystemTypes
  <2>2. Mine(p).ack = "none" /\ Mine(p).native = "none" /\ Mine(p).pending = None /\ Mine(p).receipt = None
    BY <2>1 DEF Good, RecordValid, Record
  <2>3. WantsAck(p) \in BOOLEAN
    BY DEF WantsAck
  <2>4. Good(i, spent) /\ spent.waits = Mine(p).waits /\ spent.phase = "terminal" /\ spent.submission = "refused"
    <3> HIDE DEF i
    <3> QED
      BY <2>1, <2>2, <2>3 DEF Good, Record, RecordValid, Phases, Submissions
  <2>5. Waits(p) => WaitCapacity(spent)
    BY <1>3, <2>4 DEF Refusable, WaitCapacity
  <2>6. goal \in Goals
    BY DEF Goals
  <2> HIDE DEF goal, spent
  <2>7. Good(i, waited) /\ Alike(waited, spent)
    <3>1. CASE Waits(p)
      BY <2>1, <2>4, <2>5, <2>6, <3>1, StartWaitGood
    <3>2. CASE ~Waits(p)
      BY <2>4, <3>2 DEF Alike
    <3> QED
      BY <3>1, <3>2
  <2> HIDE DEF waited
  <2>8. Good(i, r) /\ r.phase = "terminal" /\ r.submission = "refused"
    BY <2>1, <2>4, <2>7, RevokedGood DEF Alike
  <2>9. Save(i, r)
    BY <1>3 DEF RefuseSend, waited, spent, goal
  <2>10. proc' = [proc EXCEPT ![p] = b]
    BY <1>3, <2>1 DEF RefuseSend, Process
  <2>11. b \in Process /\ b.pc = "done" /\ b.native = "refused" /\ b.id = i
    BY <2>1 DEF Process, PCs, Outcomes
  <2> HIDE DEF r, b
  <2>12. Focus(p, i, r, b, effects[i])
    BY <1>1, <2>8, <2>9, <2>10, <2>11, SaveFocus
  <2>13. Settled(p, i, r, b, effects[i])
    BY <2>1, <2>8, <2>11, OpenIntent DEF Settled, Entitled
  <2>14. SystemTypes'
    BY <1>1, <2>1, <2>10, <2>11 DEF IInv, SystemTypes, world
  <2> QED
    BY <2>12, <2>13, <2>14, FocusStep
<1> QED
  BY <1>2, <1>3

LEMMA RefuseStep == ASSUME IInv, NEW p \in Procs, Refuse(p) PROVE Kept
<1>1. proc[p].pc # "idle" /\ \E status \in WaitStatuses : RefuseSend(p, status)
  BY DEF Refuse, At, WaitStatuses
<1> QED
  BY <1>1, RefuseSendStep

LEMMA MintFailsStep == ASSUME IInv, NEW p \in Procs, MintFails(p) PROVE Kept
<1>1. proc[p].pc # "idle" /\ due \subseteq Procs
  BY DEF MintFails, IInv, SystemTypes
<1>2. CASE proc[p].mode = "wait"
  BY <1>1, <1>2, RefuseSendStep DEF MintFails, WaitStatuses
<1>3. CASE proc[p].mode # "wait"
  <2>1. TameLedger
    BY <1>3, KeepTame DEF MintFails
  <2>2. TameProcs
    BY <1>1, <1>3, GotoTame DEF MintFails, PCs
  <2> QED
    BY <1>1, <1>3, <2>1, <2>2, PlainStep DEF MintFails
<1> QED
  BY <1>2, <1>3

LEMMA FenceStep == ASSUME IInv, NEW p \in Procs, Fence(p) PROVE Kept
<1>1. /\ UNCHANGED <<backup, used, requests, due, world>> /\ due \subseteq Procs /\ UNCHANGED effects
      /\ proc[p].pc # "idle"
  BY DEF Fence, At, IInv, SystemTypes, world
<1>2. CASE ~FenceOpen(p)
  <2>1. TameLedger
    BY <1>1, <1>2, KeepTame DEF Fence
  <2>2. TameProcs
    BY <1>1, <1>2, GotoTame DEF Fence, PCs
  <2> QED
    BY <1>1, <2>1, <2>2, PlainStep
<1>3. CASE FenceOpen(p)
  <2> DEFINE i == proc[p].id
             base == [Mine(p) EXCEPT !.phase = "attempted", !.submission = "unknown",
                                     !.ackRequested = WantsAck(p)]
             status == IF WaitSupported(i, base, "acknowledged") THEN "pending" ELSE "unsupported"
             r == IF proc[p].mode = "wait"
                  THEN StartWait(base, p, "acknowledged", status, proc[p].auth) ELSE base
             b == [proc[p] EXCEPT !.pc = "effect"]
  <2>1. /\ i \in Ids /\ Good(i, Mine(p)) /\ Mine(p).phase = "prepared"
        /\ proc \in [Procs -> Process] /\ proc[p] \in Process
    BY <1>1, <1>3, MineGood DEF FenceOpen, IInv, SystemTypes
  <2>2. Mine(p).ack = "none" /\ Mine(p).native = "none" /\ Mine(p).pending = None /\ Mine(p).receipt = None
    BY <2>1 DEF Good, RecordValid, Record
  <2>3. WantsAck(p) \in BOOLEAN /\ proc[p].auth \in Nat
    BY <2>1 DEF WantsAck, Process
  <2>4. Good(i, base) /\ base.waits = Mine(p).waits /\ base.phase = "attempted" /\ base.submission = "unknown"
    <3> HIDE DEF i
    <3> QED
      BY <2>1, <2>2, <2>3 DEF Good, Record, RecordValid, Phases, Submissions
  <2>5. proc[p].mode = "wait" => WaitCapacity(base)
    BY <1>3, <2>4 DEF FenceOpen, WaitCapacity
  <2>6. status \in WaitStatuses /\ "acknowledged" \in Goals
    BY DEF WaitStatuses, Goals
  <2>7. Save(i, r)
    BY <1>3 DEF Fence
  <2> HIDE DEF base, status
  <2>8. Good(i, r) /\ Alike(r, base)
    <3>1. CASE proc[p].mode = "wait"
      BY <2>1, <2>3, <2>4, <2>5, <2>6, <3>1, StartWaitGood
    <3>2. CASE proc[p].mode # "wait"
      BY <2>4, <3>2 DEF Alike
    <3> QED
      BY <3>1, <3>2
  <2>9. r.phase = "attempted" /\ r.submission = "unknown"
    BY <2>4, <2>8 DEF Alike
  <2>10. proc' = [proc EXCEPT ![p] = b]
    BY <1>3, <2>1 DEF Fence, Goto, Process
  <2>11. b \in Process /\ b.pc = "effect" /\ b.native = proc[p].native /\ b.id = i
    BY <2>1 DEF Process, PCs
  <2> HIDE DEF r, b
  <2>12. Focus(p, i, r, b, effects[i])
    BY <1>1, <2>7, <2>8, <2>9, <2>10, <2>11, SaveFocus
  <2>13. Settled(p, i, r, b, effects[i])
    BY <1>1, <2>1, <2>9, <2>11, OpenIntent DEF Settled, Entitled
  <2>14. SystemTypes'
    BY <1>1, <2>1, <2>10, <2>11 DEF IInv, SystemTypes, world
  <2> QED
    BY <2>12, <2>13, <2>14, FocusStep
<1> QED
  BY <1>2, <1>3

(* What the invariant says of the others while p holds the fence.          *)
LEMMA FencedAlone ==
  ASSUME IInv, NEW p \in Procs, Fenced(p)
  PROVE  /\ proc[p].id \in Ids /\ proc[p].pc # "idle" /\ proc[p] \in Process
         /\ ledger[proc[p].id].phase # "prepared" /\ effects[proc[p].id] \in {0, 1}
         /\ ledger[proc[p].id].submission \notin {"submitted", "refused"}
         /\ ledger[proc[p].id].phase # "absent" => RecordValid(proc[p].id, ledger[proc[p].id])
         /\ \A q \in Procs : q # p /\ proc[q].id = proc[p].id => ~Fenced(q)
         /\ proc[p].pc = "effect" => effects[proc[p].id] = 0
         /\ proc[p].pc = "outcome" =>
              /\ proc[p].native # "none"
              /\ proc[p].native = "submitted" => effects[proc[p].id] = 1
              /\ proc[p].native = "refused" => effects[proc[p].id] = 0
         /\ \A q \in Procs : proc[q].id = proc[p].id =>
              /\ proc[q].native = "submitted" => effects[proc[p].id] = 1
              /\ proc[q].native = "refused" => effects[proc[p].id] = 0 /\ proc[p].pc # "effect"
<1>1. /\ proc[p].id \in Ids /\ proc[p].pc # "idle" /\ proc[p] \in Process
      /\ effects[proc[p].id] \in Nat /\ effects[proc[p].id] <= 1
  BY DEF IInv, SystemTypes, FenceInv, ProcInv, IntentInv, Fenced
<1>2. effects[proc[p].id] \in {0, 1}
  BY <1>1
<1>3. /\ ledger[proc[p].id].phase # "prepared"
      /\ ledger[proc[p].id].submission \notin {"submitted", "refused"}
      /\ proc[p].pc = "effect" => effects[proc[p].id] = 0
      /\ proc[p].pc = "outcome" =>
              /\ proc[p].native # "none"
              /\ proc[p].native = "submitted" => effects[proc[p].id] = 1
              /\ proc[p].native = "refused" => effects[proc[p].id] = 0
  BY DEF IInv, FenceInv, ProcInv
<1>4. \A q \in Procs : q # p /\ proc[q].id = proc[p].id => ~Fenced(q)
  BY DEF IInv, FenceInv, OneSender
<1>5. \A q \in Procs : proc[q].id = proc[p].id =>
              /\ proc[q].native = "submitted" => effects[proc[p].id] = 1
              /\ proc[q].native = "refused" => effects[proc[p].id] = 0 /\ proc[p].pc # "effect"
  BY DEF IInv, FenceInv, ProcInv, ClosedIds, Closed
<1>6. ledger[proc[p].id].phase # "absent" => RecordValid(proc[p].id, ledger[proc[p].id])
  BY <1>1 DEF IInv, LedgerInv, Good
<1> QED
  BY <1>1, <1>2, <1>3, <1>4, <1>5, <1>6

LEMMA NativeStep ==
  ASSUME IInv, NEW p \in Procs, NEW o \in Outcomes \ {"none"}, NEW h \in BOOLEAN, Native(p, o, h)
  PROVE  Kept
<1> DEFINE i == proc[p].id
           n == IF h THEN 1 ELSE 0
           b == [proc[p] EXCEPT !.pc = "outcome", !.native = o]
<1>1. Fenced(p) /\ proc[p].pc = "effect"
  BY DEF Native, At, Fenced
<1>2. /\ i \in Ids /\ proc[p] \in Process /\ effects[i] = 0
      /\ proc \in [Procs -> Process] /\ effects \in [Ids -> Nat] /\ ledger \in [Ids -> Record]
  BY <1>1, FencedAlone DEF IInv, SystemTypes, LedgerInv
<1>3. /\ UNCHANGED <<ledger, backup, used, coll, sock, spawned, requests, age, due, boot>>
      /\ o = "submitted" => h
      /\ o = "refused" => ~h
      /\ proc' = [proc EXCEPT ![p].pc = "outcome", ![p].native = o]
      /\ effects' = [effects EXCEPT ![i] = IF h THEN @ + 1 ELSE @]
      /\ holders' \in {holders \cup {i}, holders}
  BY DEF Native
<1>4. effects' = [effects EXCEPT ![i] = n] /\ n \in {0, 1} /\ n \in Nat
  BY <1>2, <1>3
<1>5. proc' = [proc EXCEPT ![p] = b]
  BY <1>2, <1>3 DEF Process
<1>6. b \in Process /\ b.pc = "outcome" /\ b.native = o /\ b.id = i
  BY <1>2 DEF Process, PCs
<1>7. (o = "submitted" => n = 1) /\ (o = "refused" => n = 0)
  BY <1>3
<1> HIDE DEF n, b
<1>8. Focus(p, i, ledger[i], b, n)
  BY <1>1, <1>2, <1>3, <1>4, <1>5, <1>6 DEF Focus, Untouched, IInv, LedgerInv
<1>9. Settled(p, i, ledger[i], b, n)
  <2>1. \A q \in Procs : q # p /\ proc[q].id = i =>
          ~Fenced(q) /\ proc[q].native \notin {"submitted", "refused"}
    BY <1>1, <1>2, FencedAlone
  <2>2. ledger[i].phase # "prepared" /\ ledger[i].submission \notin {"submitted", "refused"}
    BY <1>1, FencedAlone
  <2> QED
    BY <1>1, <1>2, <1>4, <1>6, <1>7, <2>1, <2>2 DEF Settled, Entitled
<1>10. SystemTypes'
  <2>1. proc' \in [Procs -> Process]
    BY <1>2, <1>5, <1>6
  <2>2. effects' \in [Ids -> Nat]
    BY <1>2, <1>4
  <2>3. holders' \subseteq Ids
    BY <1>2, <1>3 DEF IInv, SystemTypes
  <2> QED
    BY <1>3, <2>1, <2>2, <2>3 DEF IInv, SystemTypes
<1> QED
  BY <1>8, <1>9, <1>10, FocusStep

LEMMA OutcomeGood ==
  ASSUME IInv, NEW p \in Procs, proc[p].pc = "outcome", OutcomeWritable(p),
         NEW ended \in {"stopped", "failed"}
  PROVE  LET r == WithOutcome(Mine(p), p, ended)
         IN Good(proc[p].id, r) /\ r.phase = "terminal" /\ r.submission = proc[p].native
<1> DEFINE i == proc[p].id
           t == [Mine(p) EXCEPT !.phase = "terminal", !.submission = proc[p].native,
                                !.native = proc[p].native]
<1>1. /\ i \in Ids /\ Good(i, Mine(p)) /\ Mine(p).phase # "absent"
      /\ proc[p].native \in {"submitted", "refused", "unknown"}
  BY MineGood DEF OutcomeWritable, Process, Outcomes, IInv, FenceInv, ProcInv
<1>2. Mine(p).submission # "submitted"
  BY FencedAlone, MineGood DEF RetainedFact, Fenced
<1>3. Mine(p).ack = "none" /\ Mine(p).receipt = None
  BY <1>1, <1>2 DEF Good, RecordValid, Record
<1>4. Good(i, t) /\ t.phase = "terminal" /\ t.submission = proc[p].native
  <2> HIDE DEF i
  <2> QED
    BY <1>1, <1>3 DEF Good, Record, RecordValid, Phases, Submissions
<1>5. WithOutcome(Mine(p), p, ended) =
        IF proc[p].native = "submitted" THEN t
        ELSE IF proc[p].mode = "wait" THEN SetWait(Revoked(t), p, ended) ELSE Revoked(t)
  BY DEF WithOutcome
<1> HIDE DEF t
<1>6. Good(i, Revoked(t)) /\ Alike(Revoked(t), t)
  BY <1>1, <1>4, RevokedGood
<1>7. Good(i, SetWait(Revoked(t), p, ended)) /\ Alike(SetWait(Revoked(t), p, ended), Revoked(t))
  BY <1>1, <1>6, SetWaitGood DEF WaitStatuses
<1> QED
  BY <1>4, <1>5, <1>6, <1>7 DEF Alike

LEMMA RecordOutcomeStep ==
  ASSUME IInv, NEW p \in Procs, NEW ended \in {"stopped", "failed"}, NEW asked \in BOOLEAN,
         RecordOutcome(p, ended, asked)
  PROVE  Kept
<1> DEFINE i == proc[p].id
           pc == IF OutcomeWritable(p) /\ proc[p].native = "submitted" /\ proc[p].mode = "wait"
                 THEN "clock" ELSE IF OutcomeWritable(p) THEN "done" ELSE Missing(p)
           b == [proc[p] EXCEPT !.pc = pc]
           r == WithOutcome(Mine(p), p, ended)
           request == [op |-> "classify", proc |-> p, id |-> proc[p].id]
<1>1. /\ UNCHANGED <<backup, used, due, world>> /\ due \subseteq Procs /\ UNCHANGED effects
      /\ proc[p].pc = "outcome"
  BY DEF RecordOutcome, At, IInv, SystemTypes, world
<1>2. /\ i \in Ids /\ proc[p] \in Process /\ proc \in [Procs -> Process] /\ Fenced(p)
  BY <1>1, FencedAlone DEF Fenced, IInv, SystemTypes
<1>3. requests' \subseteq Request
  <2>1. request \in Request
    BY <1>2 DEF Request
  <2>2. requests' \subseteq requests \cup {request}
    BY DEF RecordOutcome
  <2> QED
    BY <2>1, <2>2 DEF IInv, SystemTypes
<1>4. proc' = [proc EXCEPT ![p] = b]
  BY <1>2 DEF RecordOutcome, Goto, Process
<1>5. b \in Process /\ b.pc \in {"clock", "done", "crashed"} /\ b.native = proc[p].native /\ b.id = i
  BY <1>2 DEF Missing, Process, PCs
<1> HIDE DEF b, pc
<1>6. SystemTypes'
  BY <1>1, <1>2, <1>3, <1>4, <1>5 DEF IInv, SystemTypes, world
<1>7. CASE ~OutcomeWritable(p)
  <2>1. TameLedger
    BY <1>1, <1>7, KeepTame DEF RecordOutcome
  <2>2. TameProcs
    BY <1>1, <1>4, <1>5, MoveTame
  <2> QED
    BY <1>1, <1>6, <2>1, <2>2, TameStep
<1>8. CASE OutcomeWritable(p)
  <2>1. Good(i, r) /\ r.phase = "terminal" /\ r.submission = proc[p].native
    BY <1>1, <1>8, OutcomeGood
  <2>2. Save(i, r)
    BY <1>8 DEF RecordOutcome
  <2> HIDE DEF r
  <2>3. Focus(p, i, r, b, effects[i])
    BY <1>1, <1>4, <1>5, <2>1, <2>2, SaveFocus
  <2>4. Settled(p, i, r, b, effects[i])
    BY <1>1, <1>2, <1>5, <2>1, FencedAlone DEF Settled, Entitled
  <2> QED
    BY <1>6, <2>3, <2>4, FocusStep
<1> QED
  BY <1>7, <1>8

----------------------------------------------------------------------------
(* Every step.                                                             *)

LEMMA SendKeeps == ASSUME IInv, NEW p \in Procs, SendStep(p) PROVE Kept
<1>1. CASE \E i \in Ids, m \in SendModes : SendFresh(p, i, m) \/ SendPrepared(p, i, m)
  BY <1>1, SendFreshStep, SendPreparedStep
<1>2. CASE DryRun(p) \/ Skip(p)
  BY <1>2, QuietSendStep
<1>3. CASE Refuse(p) \/ MintFails(p)
  BY <1>3, RefuseStep, MintFailsStep
<1>4. CASE LaunchCollector(p) \/ AskMint(p) \/ RevokeAuthority(p)
  BY <1>4, LaunchStep, AskMintStep, RevokeAuthorityStep
<1>5. CASE Fence(p)
  BY <1>5, FenceStep
<1>6. CASE \E o \in Outcomes \ {"none"}, h \in BOOLEAN : Native(p, o, h)
  BY <1>6, NativeStep
<1>7. CASE \E e \in {"stopped", "failed"}, b \in BOOLEAN : RecordOutcome(p, e, b)
  BY <1>7, RecordOutcomeStep
<1> QED
  BY <1>1, <1>2, <1>3, <1>4, <1>5, <1>6, <1>7 DEF SendStep

LEMMA WaitKeeps == ASSUME IInv, NEW p \in Procs, WaitStep(p) PROVE Kept
<1>1. CASE \E i \in Ids, m \in WaitModes : WaitBegin(p, i, m)
  BY <1>1, WaitBeginStep
<1>2. CASE \E b \in BOOLEAN : QueryClock(p, b) \/ OpenWait(p, b)
  BY <1>2, QueryClockStep, OpenWaitStep
<1>3. CASE Poll(p) \/ Interrupt(p)
  BY <1>3, EndWaitStep
<1> QED
  BY <1>1, <1>2, <1>3 DEF WaitStep

LEMMA CollectorKeeps == IInv /\ CollectorStep => Kept
<1> SUFFICES ASSUME IInv, CollectorStep PROVE Kept
  OBVIOUS
<1>1. CASE CollectorStart
  BY <1>1, CollectorStartStep
<1>2. CASE CollectorRefused
  BY <1>2, BackdropKeeps DEF BackdropStep
<1>3. CASE \E q \in requests : HandleMint(q) \/ HandleClassify(q)
  BY <1>3, HandleMintStep, HandleClassifyStep
<1>4. CASE \E i \in Ids, rid \in ReceiptIds : Receipt(i, rid)
  BY <1>4, ReceiptStep
<1> QED
  BY <1>1, <1>2, <1>3, <1>4 DEF CollectorStep

LEMMA EnvironmentKeeps == IInv /\ Environment => Kept
<1> SUFFICES ASSUME IInv, Environment PROVE Kept
  OBVIOUS
<1>1. CASE BackdropStep
  BY <1>1, BackdropKeeps
<1>2. CASE \E p \in Procs : Crash(p)
  BY <1>2, CrashStep
<1>3. CASE Reboot \/ RestoreQuarantined
  BY <1>3, RebootStep, RestoreStep
<1> QED
  BY <1>1, <1>2, <1>3 DEF Environment, BackdropStep

LEMMA StutterKeeps == IInv /\ UNCHANGED vars => Kept
<1> SUFFICES ASSUME IInv, UNCHANGED vars PROVE Kept
  OBVIOUS
<1>1. UNCHANGED <<ledger, used, proc, effects>> /\ backup' = backup
  BY DEF vars
<1>2. SystemTypes'
  BY DEF vars, IInv, SystemTypes
<1> QED
  BY <1>1, <1>2, KeepTame, KeepProcs, TameStep

LEMMA NextKeeps == IInv /\ [Next]_vars => Kept
<1>1. IInv /\ (\E p \in Procs : SendStep(p) \/ WaitStep(p)) => Kept
  BY SendKeeps, WaitKeeps
<1>2. IInv /\ (\E i \in Ids : PrepareIntent(i) \/ Confirm(i)) => Kept
  BY PrepareStep, ConfirmStep
<1>3. IInv /\ (Compact \/ CollectorStep \/ Environment) => Kept
  BY CompactStep, CollectorKeeps, EnvironmentKeeps
<1> QED
  BY <1>1, <1>2, <1>3, StutterKeeps DEF Next

(* The inductive invariant holds of every state the machine's processes    *)
(* can bring the ledger and the receiving session to.                      *)
THEOREM Invariance == Spec => []IInv
<1>1. IInv /\ [Next]_vars => IInv'
  BY NextKeeps DEF Kept
<1> QED
  BY <1>1, InitInv, PTL DEF Spec

----------------------------------------------------------------------------
(* What it implies.                                                        *)

(* Every field of every record, process and request has its type, whatever *)
(* the commands, the collector and the faults do.                          *)
THEOREM TypesHold == Spec => []TypeOK
<1>1. IInv => TypeOK
  BY DEF IInv, LedgerInv, SystemTypes, TypeOK
<1> QED
  BY <1>1, Invariance, PTL

(* No transaction saves a record that the next transaction's validation    *)
(* rejects: handoff_ledger_corrupt is never the code's own doing.          *)
THEOREM LedgerStaysValid == Spec => []LedgerValid
<1>1. IInv => LedgerValid
  BY DEF IInv, LedgerInv, Good, LedgerValid, LedgerReadable, Present
<1> QED
  BY <1>1, Invariance, PTL

(* At most one native submission per correlation id, for any number of     *)
(* concurrent senders, crashes, reboots and quarantined restores.          *)
THEOREM AtMostOnce == Spec => []AtMostOneEffect
<1>1. IInv => AtMostOneEffect
  BY DEF IInv, FenceInv, IntentInv, AtMostOneEffect
<1> QED
  BY <1>1, Invariance, PTL

(* An intent the ledger still offers for sending has had no submission.    *)
THEOREM FenceIsDurable == Spec => []UnsentMeansNoEffect
<1>1. IInv => UnsentMeansNoEffect
  BY DEF IInv, FenceInv, IntentInv, UnsentMeansNoEffect
<1> QED
  BY <1>1, Invariance, PTL

(* Refused means no submission, submitted means exactly one: in the ledger *)
(* and in what a command reported, even after a quarantine.                *)
THEOREM OutcomesAreTrue == Spec => []OutcomeTruthful
<1>1. IInv => OutcomeTruthful
  BY DEF IInv, FenceInv, IntentInv, ProcInv, OutcomeTruthful
<1> QED
  BY <1>1, Invariance, PTL

(* The ledger, its senders and its collector, with every fault, implement  *)
(* the promise: one licence per id, taken at most once, used at most once, *)
(* and no claim about a submission that is not so.                         *)
THEOREM PromiseKept == Spec => KeepsPromise
<1>1. Init => Promise!Init
  <2> SUFFICES ASSUME Init PROVE Promise!Init
    OBVIOUS
  <2>1. IInv
    BY InitInv
  <2>2. \A i \in Ids : Licence(i) = "open" /\ Fact(i) = "none" /\ effects[i] = 0
    <3>1. \A i \in Ids : i \notin used /\ effects[i] = 0
      BY DEF Init
    <3>2. \A i \in Ids : ~Held(i)
      BY DEF Init, Held, Idle
    <3> QED
      BY <2>1, <3>1, <3>2, LicenceFacts
  <2>3. effects = [i \in Ids |-> 0]
    BY DEF Init
  <2> QED
    BY <2>2, <2>3 DEF Promise!Init
<1>2. IInv /\ [Next]_vars => [Promise!Next]_(Promise!promise)
  BY NextKeeps DEF Kept
<1> QED
  BY <1>1, <1>2, Invariance, PTL DEF Spec, KeepsPromise, Promise!Spec
=============================================================================
