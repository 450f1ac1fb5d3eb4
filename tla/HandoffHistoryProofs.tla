------------------------ MODULE HandoffHistoryProofs ------------------------
(***************************************************************************)
(* What holds of the history of a handoff record, for every set of ids,    *)
(* processes and receipts and every bound: what was classified stays       *)
(* classified, status can be told of every record, and receipt authority   *)
(* belongs to the collector that runs.                                     *)
(***************************************************************************)
EXTENDS HandoffProofs

----------------------------------------------------------------------------
(* Lists of waits.                                                         *)

WaitsKept(ws, vs) ==
  \A k \in DOMAIN ws : k \in DOMAIN vs /\ (ws[k].status # "pending" => vs[k] = ws[k])
NoneSatisfied(ws) == \A k \in DOMAIN ws : ws[k].status # "satisfied"
(* Only what can be acknowledged is waited for, or was waited for in vain. *)
WaitsSound(ws) ==
  \A k \in DOMAIN ws : ws[k].status \in {"pending", "satisfied"} => ws[k].goal = "acknowledged"
FirstOver(ws) == ws # <<>> /\ ws[1].status \notin {"pending", "satisfied"}

(* One list follows another: nothing finished is rewritten, nothing is     *)
(* satisfied that was not.                                                 *)
Follows(ws, vs) ==
  /\ WaitsKept(ws, vs)
  /\ WaitsSound(ws) => WaitsSound(vs)
  /\ NoneSatisfied(ws) => NoneSatisfied(vs)
  /\ FirstOver(ws) => FirstOver(vs)

LEMMA FirstOfList == ASSUME NEW ws \in Seq(Wait), ws # <<>> PROVE 1 \in DOMAIN ws
<1>1. Len(ws) \in Nat /\ DOMAIN ws = 1..Len(ws)
  BY LenProperties
<1>2. Len(ws) # 0
  BY EmptySeq
<1> QED
  BY <1>1, <1>2

LEMMA FollowsItself == ASSUME NEW ws PROVE Follows(ws, ws)
  BY DEF Follows, WaitsKept

LEMMA AppendFollows ==
  ASSUME NEW ws \in Seq(Wait), NEW w \in Wait, w.status # "satisfied",
         w.status = "pending" => w.goal = "acknowledged"
  PROVE  Follows(ws, Append(ws, w))
<1> DEFINE vs == Append(ws, w)
<1>1. /\ vs \in Seq(Wait) /\ vs # <<>> /\ Len(vs) = Len(ws) + 1
      /\ \A k \in 1..Len(ws) : vs[k] = ws[k]
      /\ vs[Len(ws) + 1] = w
  BY AppendProperties
<1>2. /\ DOMAIN ws = 1..Len(ws) /\ Len(ws) \in Nat
      /\ DOMAIN vs = 1..(Len(ws) + 1)
  BY <1>1, LenProperties
<1> HIDE DEF vs
<1>3. \A k \in DOMAIN vs : (k \in DOMAIN ws /\ vs[k] = ws[k]) \/ vs[k] = w
  BY <1>1, <1>2
<1>4. \A k \in DOMAIN ws : k \in DOMAIN vs /\ vs[k] = ws[k]
  BY <1>1, <1>2
<1>5. FirstOver(ws) => FirstOver(vs)
  BY <1>1, <1>4, FirstOfList DEF FirstOver
<1> QED
  BY <1>3, <1>4, <1>5 DEF Follows, WaitsKept, WaitsSound, NoneSatisfied, vs

LEMMA EndPendingFollows ==
  ASSUME NEW ws \in Seq(Wait), NEW p \in Procs, NEW status \in WaitStatuses
  PROVE  LET vs == EndPending(ws, p, status)
         IN /\ WaitsKept(ws, vs)
            /\ WaitsSound(ws) => WaitsSound(vs)
            /\ FirstOver(ws) => FirstOver(vs)
            /\ NoneSatisfied(ws) /\ status # "satisfied" => NoneSatisfied(vs)
<1> DEFINE vs == EndPending(ws, p, status)
<1>1. DOMAIN vs = DOMAIN ws /\ \A k \in DOMAIN ws : ws[k] \in Wait
  BY LenProperties DEF EndPending
<1>2. \A k \in DOMAIN ws : vs[k] = IF ws[k].op = p /\ ws[k].status = "pending"
                                   THEN [ws[k] EXCEPT !.status = status] ELSE ws[k]
  BY DEF EndPending
<1>3. \A k \in DOMAIN ws : vs[k] = ws[k] \/ (ws[k].status = "pending" /\ vs[k].status = status /\ vs[k].goal = ws[k].goal)
  BY <1>1, <1>2 DEF Wait
<1> HIDE DEF vs
<1>4. ws # <<>> => vs # <<>> /\ 1 \in DOMAIN ws
  BY <1>1, FirstOfList
<1>5. FirstOver(ws) => FirstOver(vs)
  BY <1>3, <1>4 DEF FirstOver
<1> QED
  BY <1>1, <1>3, <1>5 DEF WaitsKept, WaitsSound, NoneSatisfied, vs

LEMMA FailPendingFollows ==
  ASSUME NEW ws \in Seq(Wait)
  PROVE  LET vs == FailPending(ws)
         IN /\ WaitsSound(ws) => WaitsSound(vs)
            /\ NoneSatisfied(ws) => NoneSatisfied(vs)
<1> DEFINE vs == FailPending(ws)
<1>1. DOMAIN vs = DOMAIN ws /\ \A k \in DOMAIN ws : ws[k] \in Wait
  BY LenProperties DEF FailPending
<1>2. \A k \in DOMAIN ws : vs[k] = IF ws[k].status = "pending"
                                   THEN [ws[k] EXCEPT !.status = "failed"] ELSE ws[k]
  BY DEF FailPending
<1>3. \A k \in DOMAIN ws : vs[k] = ws[k] \/ vs[k].status = "failed"
  BY <1>1, <1>2 DEF Wait
<1> HIDE DEF vs
<1> QED
  BY <1>1, <1>3 DEF WaitsSound, NoneSatisfied, vs

(* A classification ends waits; the first one, when the receipt is late    *)
(* for it, as timed out.                                                   *)
LEMMA ClassifyFollows ==
  ASSUME NEW ws \in Seq(Wait), NEW epoch, NEW d1, NEW d2, d1 \subseteq d2,
         WaitsSound(ws), NoneSatisfied(ws), ws # <<>> => ws[1].clock = epoch
  PROVE  LET vs == ClassifyWaits(ws, epoch, d2)
         IN /\ WaitsKept(ws, vs) /\ WaitsSound(vs)
            /\ ws # <<>> /\ ws[1].op \in d1 => FirstOver(vs)
<1> DEFINE vs == ClassifyWaits(ws, epoch, d2)
<1>1. DOMAIN vs = DOMAIN ws /\ \A k \in DOMAIN ws : ws[k] \in Wait
  BY LenProperties DEF ClassifyWaits
<1>2. \A k \in DOMAIN ws :
        vs[k] = IF ws[k].status = "pending" /\ ws[k].clock = epoch
                THEN [ws[k] EXCEPT !.status = IF ws[k].op \in d2 THEN "timed_out_unknown" ELSE "satisfied"]
                ELSE ws[k]
  BY DEF ClassifyWaits
<1>3. \A k \in DOMAIN ws :
        \/ vs[k] = ws[k] /\ ~(ws[k].status = "pending" /\ ws[k].clock = epoch)
        \/ /\ ws[k].status = "pending" /\ vs[k].goal = ws[k].goal
           /\ ws[k].op \in d2 => vs[k].status = "timed_out_unknown"
  BY <1>1, <1>2 DEF Wait
<1> HIDE DEF vs
<1>4. ASSUME ws # <<>>, ws[1].op \in d1 PROVE FirstOver(vs)
  <2>1. 1 \in DOMAIN ws /\ vs # <<>>
    BY <1>1, <1>4, FirstOfList
  <2>2. ws[1].op \in d2 /\ ws[1].clock = epoch /\ ws[1].status # "satisfied"
    BY <1>4, <2>1 DEF NoneSatisfied
  <2> QED
    BY <1>3, <2>1, <2>2 DEF FirstOver
<1> QED
  BY <1>1, <1>3, <1>4 DEF WaitsKept, WaitsSound, vs

----------------------------------------------------------------------------
(* Records.                                                                *)

(* What a record tells of its own past is consistent.                      *)
Story(r) ==
  /\ r.phase = "absent" => r = Absent
  /\ WaitsSound(r.waits)
  /\ r.ack # "none" \/ r.phase = "quarantined" \/ NoneSatisfied(r.waits)
  /\ r.ack # "none" /\ r.late => FirstOver(r.waits)

(* s may take the place of r: nothing that was classified is rewritten,    *)
(* and authority appears only on an intent nobody has attempted.           *)
Keeps(r, s) ==
  /\ WaitsKept(r.waits, s.waits)
  /\ r.ack # "none" => s.ack = r.ack /\ s.late = r.late /\ s.receipt = r.receipt
  /\ r.pending # None => s.pending = r.pending \/ (s.ack = "token_possession" /\ s.receipt = r.pending)
  /\ s.cap = "live" => \/ r.cap = "live" /\ s.capClock = r.capClock
                       \/ r.cap = "none" /\ r.phase = "prepared" /\ s.capClock = coll.epoch
  /\ NoneSatisfied(r.waits) /\ s.ack = "none" => NoneSatisfied(s.waits)

(* It carries r on: in particular it does not make it sendable again.      *)
Continues(r, s) ==
  /\ Story(s) /\ Keeps(r, s)
  /\ s.phase = "prepared" => r.phase = "prepared"

(* Neither the acknowledgement nor a held receipt is touched, and no       *)
(* authority is given.                                                     *)
Aside(r, s) ==
  /\ s.ack = r.ack /\ s.late = r.late /\ s.receipt = r.receipt /\ s.pending = r.pending
  /\ s.cap = "live" => r.cap = "live" /\ s.capClock = r.capClock
  /\ s.phase # "absent"
  /\ s.phase = r.phase \/ (s.phase # "prepared" /\ (r.ack # "none" \/ NoneSatisfied(r.waits)))

LEMMA AsideContinues ==
  ASSUME NEW r, NEW s, Story(r), Aside(r, s), Follows(r.waits, s.waits)
  PROVE  Continues(r, s)
  BY DEF Continues, Story, Keeps, Aside, Follows

LEMMA StoryKept == ASSUME NEW r, Story(r), r.phase # "absent" PROVE Continues(r, r)
  BY FollowsItself, AsideContinues DEF Aside

LEMMA AbsentStory == Story(Absent)
  BY DEF Story, Absent, Blank, WaitsSound, NoneSatisfied

LEMMA PreparedKeeps == ASSUME NEW b PROVE Story(Prepared(b)) /\ Keeps(Absent, Prepared(b))
  BY DEF Story, Keeps, Absent, Prepared, Blank, WaitsSound, NoneSatisfied, WaitsKept

LEMMA TombstoneStory ==
  ASSUME NEW r \in Record
  PROVE  /\ Story(Tombstone(r)) /\ Tombstone(r).phase = "tombstone" /\ Tombstone(r).cap = "none"
         /\ Tombstone(r).ack = "none" /\ Tombstone(r).waits = <<>> /\ Tombstone(r).submission = "unknown"
<1> DEFINE n == NoPending(NoAck(r))
           ws == <<>>
           t == [n EXCEPT !.phase = "tombstone", !.submission = "unknown", !.native = "none",
                          !.waits = ws, !.cap = "none", !.capClock = 0, !.ackRequested = FALSE]
<1>1. n \in Record /\ n.ack = "none"
  BY Forgotten
<1>2. Tombstone(r) = t
  BY DEF Tombstone
<1> HIDE DEF n, ws
<1>3. t.phase = "tombstone" /\ t.cap = "none" /\ t.ack = "none" /\ t.waits = ws /\ t.submission = "unknown"
  BY <1>1 DEF Record
<1> HIDE DEF t
<1>4. ws = <<>> /\ DOMAIN ws = {}
  BY DEF ws
<1> QED
  BY <1>2, <1>3, <1>4 DEF Story, WaitsSound, NoneSatisfied

LEMMA QuarantinedStory ==
  ASSUME NEW r \in Record, Story(r)
  PROVE  /\ Story(Quarantined(r)) /\ Quarantined(r).phase = "quarantined" /\ Quarantined(r).cap # "live"
         /\ Quarantined(r).ack = "none" /\ Quarantined(r).submission = "unknown"
         /\ NoneSatisfied(r.waits) => NoneSatisfied(Quarantined(r).waits)
<1> DEFINE n == NoPending(NoAck(r))
           m == Revoked(n)
           ws == FailPending(r.waits)
           q == [m EXCEPT !.phase = "quarantined", !.submission = "unknown", !.native = "none",
                          !.waits = ws]
<1>1. n \in Record /\ n.ack = "none"
  BY Forgotten
<1>2. Quarantined(r) = q
  BY DEF Quarantined
<1>3. r.waits \in Seq(Wait)
  BY DEF Record
<1>4. WaitsSound(ws) /\ (NoneSatisfied(r.waits) => NoneSatisfied(ws))
  BY <1>3, FailPendingFollows DEF Story
<1> HIDE DEF n, ws
<1>5. m \in Record /\ m.ack = "none" /\ m.cap # "live"
  BY <1>1 DEF Revoked, Record
<1> HIDE DEF m
<1>6. q.phase = "quarantined" /\ q.submission = "unknown" /\ q.waits = ws /\ q.ack = "none" /\ q.cap # "live"
  BY <1>5 DEF Record
<1> HIDE DEF q
<1> QED
  BY <1>2, <1>4, <1>6 DEF Story

LEMMA RevokedContinues ==
  ASSUME NEW r \in Record, Story(r), r.phase # "absent"
  PROVE  Continues(r, Revoked(r)) /\ Revoked(r).cap # "live" /\ Revoked(r).waits = r.waits
<1>1. Aside(r, Revoked(r)) /\ Revoked(r).waits = r.waits /\ Revoked(r).cap # "live"
  BY DEF Aside, Revoked, Record
<1> QED
  BY <1>1, FollowsItself, AsideContinues

LEMMA StartWaitContinues ==
  ASSUME NEW r \in Record, Story(r), r.phase # "absent", NEW p \in Procs, NEW goal \in Goals,
         NEW status \in WaitStatuses, NEW clock \in Nat,
         status # "satisfied", status = "pending" => goal = "acknowledged"
  PROVE  Continues(r, StartWait(r, p, goal, status, clock))
<1> DEFINE w == [op |-> p, goal |-> goal, status |-> status, clock |-> clock]
           s == StartWait(r, p, goal, status, clock)
<1>1. w \in Wait /\ w.status = status /\ w.goal = goal /\ r.waits \in Seq(Wait)
  BY DEF Wait, Record
<1>2. s = [r EXCEPT !.waits = Append(r.waits, w)]
  BY DEF StartWait, Record
<1> HIDE DEF w
<1>3. Follows(r.waits, Append(r.waits, w))
  BY <1>1, AppendFollows
<1>4. Aside(r, s) /\ s.waits = Append(r.waits, w)
  BY <1>2 DEF Aside, Record
<1> QED
  BY <1>3, <1>4, AsideContinues

(* A wait is satisfied by an acknowledgement only.                         *)
LEMMA SetWaitContinues ==
  ASSUME NEW r \in Record, Story(r), r.phase # "absent", NEW p \in Procs, NEW status \in WaitStatuses,
         status = "satisfied" => r.ack # "none" \/ ~NoneSatisfied(r.waits)
  PROVE  Continues(r, SetWait(r, p, status))
<1> DEFINE s == SetWait(r, p, status)
           vs == EndPending(r.waits, p, status)
<1>1. r.waits \in Seq(Wait)
  BY DEF Record
<1>2. /\ WaitsKept(r.waits, vs) /\ WaitsSound(vs)
      /\ FirstOver(r.waits) => FirstOver(vs)
      /\ NoneSatisfied(r.waits) /\ status # "satisfied" => NoneSatisfied(vs)
  BY <1>1, EndPendingFollows DEF Story
<1> HIDE DEF vs
<1>3. Aside(r, s) /\ s.waits = vs
  BY DEF Aside, SetWait, Record, vs
<1> HIDE DEF s
<1>4. s.ack = r.ack /\ s.late = r.late /\ s.phase = r.phase
  <2>1. s.phase = r.phase
    BY DEF s, SetWait, Record
  <2> QED
    BY <1>3, <2>1 DEF Aside
<1>5. Story(s)
  BY <1>2, <1>3, <1>4 DEF Story
<1>6. Keeps(r, s)
  BY <1>2, <1>3, <1>4 DEF Keeps, Aside
<1> QED
  BY <1>4, <1>5, <1>6 DEF Continues, s

LEMMA ConfirmedContinues ==
  ASSUME NEW r \in Record, Story(r), r.phase # "absent", r.phase # "prepared", r.ack = "none", Confirmable(r)
  PROVE  Continues(r, Confirmed(r))
<1> DEFINE s == Confirmed(r)
<1>1. /\ s.waits = r.waits /\ s.ack = "operator_confirmed" /\ s.late = (r.waits # <<>>)
      /\ s.pending = r.pending /\ s.cap = r.cap /\ s.capClock = r.capClock /\ s.phase = r.phase
  BY DEF Confirmed, Record
<1> HIDE DEF s
<1>2. s.late => FirstOver(s.waits)
  BY <1>1 DEF Confirmable, FirstOver
<1> QED
  BY <1>1, <1>2, FollowsItself DEF Continues, Story, Keeps, Follows, s

LEMMA AcknowledgedContinues ==
  ASSUME NEW r \in Record, Story(r), r.phase \notin {"absent", "prepared", "quarantined"}, r.ack = "none",
         NEW rid, NEW epoch, NEW d1, NEW d2, d1 \subseteq d2, OrderProvable(r, epoch)
  PROVE  Continues(r, Acknowledged(r, rid, epoch, d1, d2))
<1> DEFINE s == Acknowledged(r, rid, epoch, d1, d2)
           vs == ClassifyWaits(r.waits, epoch, d2)
           late == r.waits # <<>> /\ r.waits[1].op \in d1
           receipt == IF r.pending # None THEN r.pending ELSE rid
           n == NoPending(r)
<1>1. /\ WaitsKept(r.waits, vs) /\ WaitsSound(vs)
      /\ late => FirstOver(vs)
  BY ClassifyFollows DEF Story, OrderProvable, Record
<1>2. s = [n EXCEPT !.ack = "token_possession", !.late = late, !.receipt = receipt, !.waits = vs]
  BY DEF Acknowledged
<1>4. n.cap = r.cap /\ n.capClock = r.capClock /\ n.phase = r.phase /\ DOMAIN n = DOMAIN r
  BY DEF NoPending, Record
<1> HIDE DEF vs, late, receipt, n
<1>5. /\ s.waits = vs /\ s.ack = "token_possession" /\ s.late = late /\ s.receipt = receipt
      /\ s.cap = r.cap /\ s.capClock = r.capClock /\ s.phase = r.phase
  BY <1>2, <1>4 DEF Record
<1>6. r.pending # None => receipt = r.pending
  BY DEF receipt
<1> HIDE DEF s
<1>7. Story(s)
  BY <1>1, <1>5 DEF Story
<1>8. Keeps(r, s)
  BY <1>1, <1>5, <1>6 DEF Keeps
<1> QED
  BY <1>5, <1>7, <1>8 DEF Continues, s

----------------------------------------------------------------------------
(* Transactions.                                                           *)

Stories == \A i \in Ids : Story(ledger[i]) /\ Story(backup[i])

(* While someone may still submit, no wait of the record is satisfied, not *)
(* even in the copy the operator keeps.                                    *)
FencedStory ==
  \A p \in Procs : Fenced(p) =>
    NoneSatisfied(ledger[proc[p].id].waits) /\ NoneSatisfied(backup[proc[p].id].waits)

BackupOlder == \A i \in Ids : ledger[i].phase = "prepared" => backup[i].phase \in {"absent", "prepared"}

(* Once a collector runs, authority an earlier one minted and nobody used  *)
(* is dead.                                                                *)
OldAuthorityDead ==
  coll.up => \A i \in Ids : ledger[i].cap = "live" /\ ledger[i].ack = "none"
                                => ledger[i].capClock = coll.epoch

HInv == IInv /\ Stories /\ FencedStory /\ BackupOlder /\ OldAuthorityDead

(* What a step makes of one record: its continuation, or its loss.         *)
Told(i) ==
  /\ Story(ledger'[i])
  /\ ledger'[i].phase = "prepared" => ledger[i].phase = "prepared" \/ i \notin used
  /\ \/ Keeps(ledger[i], ledger'[i])
     \/ /\ Lost(i) /\ ledger'[i].phase # "prepared" /\ ledger'[i].cap # "live"
        /\ NoneSatisfied(backup[i].waits) /\ ledger'[i].ack = "none" => NoneSatisfied(ledger'[i].waits)

LEMMA SnapshotStory ==
  ASSUME IInv, Stories, NEW i \in Ids
  PROVE  /\ Snapshot[i] \in Record /\ Story(Snapshot[i])
         /\ \/ Snapshot[i] = ledger[i]
            \/ /\ Expired(ledger, i) /\ Snapshot[i].phase = "tombstone" /\ Snapshot[i].cap = "none"
               /\ Snapshot[i].ack = "none" /\ Snapshot[i].waits = <<>>
<1>1. Snapshot[i] = IF Expired(ledger, i) THEN Tombstone(ledger[i]) ELSE ledger[i]
  BY DEF Snapshot, Retained
<1>2. ledger[i] \in Record /\ Story(ledger[i])
  BY DEF IInv, LedgerInv, Stories
<1>3. Snapshot[i] \in Record
  BY SnapshotFacts DEF IInv
<1> QED
  BY <1>1, <1>2, <1>3, TombstoneStory

LEMMA SameTold == ASSUME IInv, Stories, NEW i \in Ids, ledger'[i] = ledger[i] PROVE Told(i)
<1>1. Story(ledger[i])
  BY DEF Stories
<1>2. Keeps(ledger[i], ledger[i])
  BY FollowsItself DEF Keeps, Follows
<1> QED
  BY <1>1, <1>2 DEF Told

LEMMA UnchangedTold == ASSUME IInv, Stories, UNCHANGED ledger PROVE \A i \in Ids : Told(i)
  BY SameTold

LEMMA RetainTold == ASSUME IInv, Stories, NEW i \in Ids, ledger'[i] = Snapshot[i] PROVE Told(i)
<1> HIDE DEF Snapshot
<1>1. CASE Snapshot[i] = ledger[i]
  BY <1>1, SameTold
<1>2. CASE Snapshot[i] # ledger[i]
  <2>1. /\ Expired(ledger, i) /\ ledger'[i].phase = "tombstone" /\ ledger'[i].cap = "none"
        /\ Story(ledger'[i])
    BY <1>2, SnapshotStory
  <2>2. ledger'[i].waits = <<>>
    BY <1>2, SnapshotStory
  <2>3. NoneSatisfied(ledger'[i].waits)
    BY <2>2 DEF NoneSatisfied
  <2> QED
    BY <2>1, <2>3 DEF Told, Lost
<1> QED
  BY <1>1, <1>2

LEMMA CompactTold == ASSUME IInv, Stories, ledger' = Snapshot PROVE \A i \in Ids : Told(i)
<1> HIDE DEF Snapshot
<1> QED
  BY RetainTold

LEMMA SaveKept ==
  ASSUME IInv, Stories, NEW i \in Ids, NEW r, Save(i, r), Story(r), Keeps(Snapshot[i], r),
         r.phase = "prepared" => Snapshot[i].phase = "prepared" \/ i \notin used
  PROVE  \A j \in Ids : Told(j)
<1> HIDE DEF Snapshot
<1>1. /\ Snapshot \in [Ids -> Record]
      /\ ledger' = [Snapshot EXCEPT ![i] = r]
  BY SnapshotFacts DEF IInv, Save
<1>2. \A j \in Ids : j # i => Told(j)
  BY <1>1, RetainTold
<1>3. ledger'[i] = r
  BY <1>1
<1>4. CASE Snapshot[i] = ledger[i]
  BY <1>2, <1>3, <1>4 DEF Told
<1>5. CASE Snapshot[i] # ledger[i]
  <2>1. /\ Expired(ledger, i) /\ Snapshot[i].phase = "tombstone" /\ Snapshot[i].cap = "none"
        /\ Snapshot[i].waits = <<>>
    BY <1>5, SnapshotStory
  <2>2. NoneSatisfied(Snapshot[i].waits)
    BY <2>1 DEF NoneSatisfied
  <2>3. i \in used
    BY <2>1 DEF Expired, IInv, FenceInv, IntentInv
  <2>4. r.phase # "prepared" /\ r.cap # "live" /\ (r.ack = "none" => NoneSatisfied(r.waits)) /\ Story(r)
    BY <2>1, <2>2, <2>3 DEF Keeps
  <2> QED
    BY <1>2, <1>3, <2>1, <2>4 DEF Told, Lost
<1> QED
  BY <1>4, <1>5

LEMMA SaveTold ==
  ASSUME IInv, Stories, NEW i \in Ids, NEW r, Save(i, r), Continues(Snapshot[i], r)
  PROVE  \A j \in Ids : Told(j)
<1> HIDE DEF Snapshot
<1> QED
  BY SaveKept DEF Continues

(* A known intent's own record, as a transaction finds it.                 *)
LEMMA MineStory ==
  ASSUME IInv, Stories, NEW p \in Procs, proc[p].pc # "idle"
  PROVE  /\ proc[p].id \in Ids /\ Mine(p) = Snapshot[proc[p].id]
         /\ Mine(p) \in Record /\ Story(Mine(p)) /\ Good(proc[p].id, Mine(p))
  BY MineGood, SnapshotStory

LEMMA FreshTold ==
  ASSUME IInv, Stories, NEW i \in Ids, i \notin used, Save(i, Prepared(boot))
  PROVE  \A j \in Ids : Told(j)
<1> HIDE DEF Snapshot
<1>1. ledger[i].phase = "absent"
  BY DEF IInv, FenceInv, IntentInv
<1>2. Snapshot[i].phase = "absent"
  BY <1>1, SnapshotFacts DEF RetainedFact, IInv
<1>3. Snapshot[i] = Absent
  BY <1>2, SnapshotStory DEF Story
<1> QED
  BY <1>3, PreparedKeeps, SaveKept

LEMMA ConfirmTold == ASSUME IInv, Stories, NEW i \in Ids, Confirm(i) PROVE \A j \in Ids : Told(j)
<1> HIDE DEF Snapshot
<1>1. Snapshot[i] \in Record /\ Story(Snapshot[i]) /\ Good(i, Snapshot[i])
  BY SnapshotStory, SnapshotFacts DEF IInv
<1>2. Snapshot[i].submission = "submitted" /\ Snapshot[i].ack = "none" /\ Confirmable(Snapshot[i])
  BY DEF Confirm
<1>3. Snapshot[i].phase \notin {"absent", "prepared"}
  BY <1>1, <1>2 DEF Good, RecordValid
<1> QED
  BY <1>1, <1>2, <1>3, ConfirmedContinues, SaveTold DEF Confirm

LEMMA RevokeAuthorityTold ==
  ASSUME IInv, Stories, NEW p \in Procs, RevokeAuthority(p) PROVE \A j \in Ids : Told(j)
<1>1. CASE Mine(p).phase = "absent"
  BY <1>1, UnchangedTold DEF RevokeAuthority
<1>2. CASE Mine(p).phase # "absent"
  <2>1. proc[p].id \in Ids /\ Mine(p) = Snapshot[proc[p].id] /\ Mine(p) \in Record /\ Story(Mine(p))
    BY MineStory DEF RevokeAuthority, At
  <2>2. Continues(Snapshot[proc[p].id], Revoked(Mine(p)))
    BY <1>2, <2>1, RevokedContinues
  <2> QED
    BY <1>2, <2>1, <2>2, SaveTold DEF RevokeAuthority
<1> QED
  BY <1>1, <1>2

LEMMA OpenWaitTold ==
  ASSUME IInv, Stories, NEW p \in Procs, NEW b \in BOOLEAN, OpenWait(p, b) PROVE \A j \in Ids : Told(j)
<1>1. CASE UNCHANGED ledger
  BY <1>1, UnchangedTold
<1>2. CASE ~UNCHANGED ledger
  <2>1. proc[p].id \in Ids /\ Mine(p) = Snapshot[proc[p].id] /\ Mine(p) \in Record /\ Story(Mine(p))
    BY MineStory DEF OpenWait, At
  <2>2. proc[p].clock \in Nat
    BY DEF IInv, SystemTypes, Process
  <2>3. PICK goal \in Goals, status \in WaitStatuses :
           /\ status # "satisfied" /\ (status = "pending" => goal = "acknowledged")
           /\ Mine(p).phase # "absent"
           /\ Save(proc[p].id, StartWait(Mine(p), p, goal, status, proc[p].clock))
    <3>1. \A i, r, goal : WaitSupported(i, r, goal) => goal = "acknowledged"
      BY DEF WaitSupported
    <3> QED
      BY <1>2, <2>1, <3>1, Zenon DEF OpenWait, Goals, WaitStatuses
  <2>4. Continues(Snapshot[proc[p].id], StartWait(Mine(p), p, goal, status, proc[p].clock))
    BY <2>1, <2>2, <2>3, StartWaitContinues
  <2> QED
    BY <2>1, <2>3, <2>4, SaveTold
<1> QED
  BY <1>1, <1>2

LEMMA EndWaitTold ==
  ASSUME IInv, Stories, NEW p \in Procs, Poll(p) \/ Interrupt(p) PROVE \A j \in Ids : Told(j)
<1>1. proc[p].id \in Ids /\ Mine(p) = Snapshot[proc[p].id] /\ Mine(p) \in Record /\ Story(Mine(p))
  BY MineStory DEF Poll, Interrupt, At
<1>2. ASSUME NEW k \in DOMAIN Mine(p).waits PROVE Mine(p).phase # "absent"
  <2>1. Absent.waits = <<>> /\ DOMAIN <<>> = {}
    BY DEF Absent, Blank
  <2> QED
    BY <1>1, <2>1 DEF Story
<1>3. CASE Poll(p) /\ ~UNCHANGED ledger
  <2>1. PICK k \in WaitOf(Mine(p), p) : Save(proc[p].id, SetWait(Mine(p), p, PollResult(Mine(p), k, p)))
    BY <1>3 DEF Poll
  <2> DEFINE status == PollResult(Mine(p), k, p)
  <2>2. k \in DOMAIN Mine(p).waits /\ Mine(p).waits[k] \in Wait
    BY <1>1, <2>1, LenProperties DEF WaitOf, Record
  <2>3. status \in WaitStatuses
    BY <2>2 DEF PollResult, Wait, WaitStatuses
  <2>4. status = "satisfied" => Mine(p).ack # "none" \/ ~NoneSatisfied(Mine(p).waits)
    BY <2>2 DEF PollResult, NoneSatisfied
  <2> HIDE DEF status
  <2>5. Continues(Mine(p), SetWait(Mine(p), p, status))
    BY <1>1, <1>2, <2>2, <2>3, <2>4, SetWaitContinues
  <2> QED
    BY <1>1, <2>1, <2>5, SaveTold DEF status
<1>4. CASE Interrupt(p) /\ ~UNCHANGED ledger
  <2>1. Save(proc[p].id, SetWait(Mine(p), p, "stopped")) /\ WaitOf(Mine(p), p) # {}
    BY <1>4 DEF Interrupt
  <2>2. Mine(p).phase # "absent"
    BY <1>2, <2>1 DEF WaitOf
  <2>3. Continues(Mine(p), SetWait(Mine(p), p, "stopped"))
    BY <1>1, <2>2, SetWaitContinues DEF WaitStatuses
  <2> QED
    BY <1>1, <2>1, <2>3, SaveTold
<1>5. CASE UNCHANGED ledger
  BY <1>5, UnchangedTold
<1> QED
  BY <1>3, <1>4, <1>5

----------------------------------------------------------------------------
(* The collector's transactions.                                           *)

LEMMA StartTold == ASSUME IInv, Stories, CollectorStart PROVE \A i \in Ids : Told(i)
<1> HIDE DEF Snapshot
<1> SUFFICES ASSUME NEW i \in Ids PROVE Told(i)
  OBVIOUS
<1>1. ledger'[i] = IF Snapshot[i].ack = "none" THEN Revoked(Snapshot[i]) ELSE Snapshot[i]
  BY DEF CollectorStart, StartupLedger
<1>2. /\ Snapshot[i] \in Record /\ Story(Snapshot[i])
      /\ \/ Snapshot[i] = ledger[i]
         \/ /\ Expired(ledger, i) /\ Snapshot[i].phase = "tombstone" /\ Snapshot[i].cap = "none"
            /\ Snapshot[i].ack = "none" /\ Snapshot[i].waits = <<>>
  BY SnapshotStory
<1>3. CASE Snapshot[i].phase = "absent"
  <2>1. Snapshot[i] = Absent /\ Revoked(Absent) = Absent
    BY <1>2, <1>3 DEF Story, Revoked, Absent, Blank
  <2> QED
    BY <1>1, <1>2, <1>3, <2>1, RetainTold
<1>4. CASE Snapshot[i].phase # "absent" /\ Snapshot[i].ack = "none"
  <2> DEFINE r == Revoked(Snapshot[i])
  <2>1. Continues(Snapshot[i], r) /\ ledger'[i] = r /\ r.cap # "live" /\ r.waits = Snapshot[i].waits
    BY <1>1, <1>2, <1>4, RevokedContinues
  <2> HIDE DEF r
  <2>2. CASE Snapshot[i] = ledger[i]
    BY <2>1, <2>2 DEF Told, Continues
  <2>3. CASE Snapshot[i] # ledger[i]
    <3>1. NoneSatisfied(r.waits) /\ r.phase # "prepared"
      BY <1>2, <2>1, <2>3 DEF NoneSatisfied, Continues, Keeps
    <3> QED
      BY <1>2, <2>1, <2>3, <3>1 DEF Told, Continues, Lost
  <2> QED
    BY <2>2, <2>3
<1>5. CASE Snapshot[i].ack # "none"
  BY <1>1, <1>5, RetainTold
<1> QED
  BY <1>3, <1>4, <1>5

LEMMA HandleMintTold == ASSUME IInv, Stories, NEW q \in requests, HandleMint(q) PROVE \A j \in Ids : Told(j)
<1>1. q.id \in Ids
  BY DEF IInv, SystemTypes, Request
<1>2. CASE Mintable(q.id)
  <2> DEFINE r == [Snapshot[q.id] EXCEPT !.cap = "live", !.capClock = coll.epoch]
  <2>1. Snapshot[q.id] \in Record /\ Story(Snapshot[q.id])
    BY <1>1, SnapshotStory
  <2>2. Save(q.id, r) /\ Snapshot[q.id].phase = "prepared" /\ Snapshot[q.id].cap = "none"
    BY <1>2 DEF HandleMint, Mintable
  <2> HIDE DEF Snapshot
  <2>3. /\ r.waits = Snapshot[q.id].waits /\ r.ack = Snapshot[q.id].ack /\ r.late = Snapshot[q.id].late
        /\ r.receipt = Snapshot[q.id].receipt /\ r.pending = Snapshot[q.id].pending
        /\ r.phase = Snapshot[q.id].phase /\ r.cap = "live" /\ r.capClock = coll.epoch
    BY <2>1 DEF Record
  <2>4. Continues(Snapshot[q.id], r)
    <3> HIDE DEF r
    <3> QED
      BY <2>1, <2>2, <2>3, FollowsItself DEF Continues, Story, Keeps, Follows
  <2> QED
    BY <1>1, <2>2, <2>4, SaveTold
<1>3. CASE ~Mintable(q.id)
  BY <1>3, UnchangedTold DEF HandleMint
<1> QED
  BY <1>2, <1>3

LEMMA ClassifyTold ==
  ASSUME IInv, Stories, NEW i \in Ids, NEW rid, Classify(i, rid), Snapshot[i].ack = "none"
  PROVE  \A j \in Ids : Told(j)
<1>1. Snapshot[i] \in Record /\ Story(Snapshot[i]) /\ Good(i, Snapshot[i])
  BY SnapshotStory, SnapshotFacts DEF IInv
<1>2. PICK due2 \in SUBSET Procs :
        due \subseteq due2 /\ Save(i, Acknowledged(Snapshot[i], rid, coll.epoch, due, due2))
  BY DEF Classify
<1>3. Snapshot[i].submission = "submitted" /\ OrderProvable(Snapshot[i], coll.epoch)
  BY DEF Classify
<1> HIDE DEF Snapshot
<1>4. Snapshot[i].phase \notin {"absent", "prepared", "quarantined"}
  BY <1>1, <1>3 DEF Good, RecordValid
<1>5. Continues(Snapshot[i], Acknowledged(Snapshot[i], rid, coll.epoch, due, due2))
  BY <1>1, <1>2, <1>3, <1>4, AcknowledgedContinues
<1> QED
  BY <1>2, <1>5, SaveTold

LEMMA HandleClassifyTold ==
  ASSUME IInv, Stories, NEW q \in requests, HandleClassify(q) PROVE \A j \in Ids : Told(j)
<1>1. q.id \in Ids
  BY DEF IInv, SystemTypes, Request
<1>2. UNCHANGED ledger \/ (Classify(q.id, None) /\ Snapshot[q.id].ack = "none")
  BY DEF HandleClassify, Usable
<1> QED
  BY <1>1, <1>2, ClassifyTold, UnchangedTold

LEMMA ReceiptTold ==
  ASSUME IInv, Stories, NEW i \in Ids, NEW rid \in ReceiptIds, Receipt(i, rid) PROVE \A j \in Ids : Told(j)
<1>1. Snapshot[i].ack = "none"
  BY DEF Receipt, Usable
<1>2. CASE HoldEarly(i, rid)
  <2> DEFINE r == [Snapshot[i] EXCEPT !.pending = rid, !.pendingClock = coll.epoch]
  <2>1. Snapshot[i] \in Record /\ Story(Snapshot[i])
    BY SnapshotStory
  <2>2. Save(i, r) /\ Snapshot[i].pending = None /\ Snapshot[i].phase = "attempted"
    BY <1>2 DEF HoldEarly
  <2> HIDE DEF Snapshot
  <2>3. /\ r.waits = Snapshot[i].waits /\ r.ack = Snapshot[i].ack /\ r.late = Snapshot[i].late
        /\ r.phase = Snapshot[i].phase /\ r.cap = Snapshot[i].cap /\ r.capClock = Snapshot[i].capClock
    BY <2>1 DEF Record
  <2>4. Continues(Snapshot[i], r)
    <3> HIDE DEF r
    <3> QED
      BY <1>1, <2>1, <2>2, <2>3, FollowsItself DEF Continues, Story, Keeps, Follows
  <2> QED
    BY <2>2, <2>4, SaveTold
<1>3. CASE Classify(i, rid)
  BY <1>1, <1>3, ClassifyTold
<1> QED
  BY <1>2, <1>3 DEF Receipt

LEMMA RestoreTold == ASSUME IInv, Stories, RestoreQuarantined PROVE \A i \in Ids : Told(i)
<1> SUFFICES ASSUME NEW i \in Ids PROVE Told(i)
  OBVIOUS
<1>1. ledger'[i] = IF backup[i].phase = "absent" THEN backup[i] ELSE Quarantined(Retained(backup)[i])
  BY DEF RestoreQuarantined
<1>2. Retained(backup)[i] = IF Expired(backup, i) THEN Tombstone(backup[i]) ELSE backup[i]
  BY DEF Retained
<1>3. backup[i] \in Record /\ Story(backup[i])
  BY DEF IInv, LedgerInv, Stories
<1>4. CASE backup[i].phase = "absent"
  <2>1. ledger'[i] = Absent
    BY <1>1, <1>3, <1>4 DEF Story
  <2>2. Absent.phase = "absent" /\ Absent.cap = "none" /\ NoneSatisfied(Absent.waits)
    BY DEF Absent, Blank, NoneSatisfied
  <2> QED
    BY <2>1, <2>2, AbsentStory DEF Told, Lost
<1>5. CASE backup[i].phase # "absent"
  <2> DEFINE r == Retained(backup)[i]
  <2>1. r \in Record /\ Story(r) /\ (NoneSatisfied(backup[i].waits) => NoneSatisfied(r.waits))
    <3>1. CASE Expired(backup, i)
      <4>1. Tombstone(backup[i]) \in Record
        BY <1>3, TombstoneGood DEF IInv, LedgerInv, Good
      <4> QED
        BY <1>2, <1>3, <3>1, <4>1, TombstoneStory DEF NoneSatisfied
    <3>2. CASE ~Expired(backup, i)
      BY <1>2, <1>3, <3>2
    <3> QED
      BY <3>1, <3>2
  <2> HIDE DEF r
  <2>2. /\ Story(Quarantined(r)) /\ Quarantined(r).phase = "quarantined" /\ Quarantined(r).cap # "live"
        /\ NoneSatisfied(r.waits) => NoneSatisfied(Quarantined(r).waits)
    BY <2>1, QuarantinedStory
  <2>3. ledger'[i] = Quarantined(r)
    BY <1>1, <1>5 DEF r
  <2> QED
    BY <2>1, <2>2, <2>3 DEF Told, Lost
<1> QED
  BY <1>4, <1>5

----------------------------------------------------------------------------
(* The steps that close an intent.                                         *)

(* Such a step dresses a record first, then starts or ends its wait.       *)
LEMMA DressedContinues ==
  ASSUME NEW r \in Record, NEW t \in Record, Aside(r, t), Story(r), t.waits = r.waits,
         NEW s, Continues(t, s), s.cap = "live" => t.cap = "live" /\ s.capClock = t.capClock,
         s.ack = t.ack, s.late = t.late, s.receipt = t.receipt, s.pending = t.pending, s.phase = t.phase
  PROVE  Continues(r, s)
<1>1. Continues(r, t)
  BY FollowsItself, AsideContinues
<1>2. Story(s) /\ Keeps(r, s) /\ (s.phase = "prepared" => r.phase = "prepared")
  BY <1>1 DEF Continues, Keeps, Aside
<1> QED
  BY <1>2 DEF Continues

(* Dressing a record changes its phase, its submission and what goes with it. *)
Dressed(r, phase, submission, asked) ==
  [r EXCEPT !.phase = phase, !.submission = submission, !.ackRequested = asked]

LEMMA DressedFields ==
  ASSUME NEW r \in Record, NEW phase \in Phases, NEW submission \in Submissions, NEW asked \in BOOLEAN
  PROVE  LET t == Dressed(r, phase, submission, asked)
         IN /\ t \in Record /\ t.waits = r.waits /\ t.phase = phase
            /\ t.ack = r.ack /\ t.late = r.late /\ t.receipt = r.receipt /\ t.pending = r.pending
            /\ t.cap = r.cap /\ t.capClock = r.capClock
  BY DEF Record, Dressed

LEMMA OutcomeFields ==
  ASSUME NEW r \in Record, NEW native \in {"submitted", "refused", "unknown"}
  PROVE  LET t == [r EXCEPT !.phase = "terminal", !.submission = native, !.native = native]
         IN /\ t \in Record /\ t.waits = r.waits /\ t.phase = "terminal"
            /\ t.ack = r.ack /\ t.late = r.late /\ t.receipt = r.receipt /\ t.pending = r.pending
            /\ t.cap = r.cap /\ t.capClock = r.capClock
  BY DEF Record, Phases, Submissions

LEMMA RefuseSendTold ==
  ASSUME IInv, Stories, NEW p \in Procs, proc[p].pc # "idle",
         NEW status \in {"failed", "unsupported"}, RefuseSend(p, status)
  PROVE  \A j \in Ids : Told(j)
<1>1. CASE ~Refusable(p)
  BY <1>1, UnchangedTold DEF RefuseSend
<1>2. CASE Refusable(p)
  <2> DEFINE m == Mine(p)
             goal == IF proc[p].mode = "delivered" THEN "delivered" ELSE "acknowledged"
             asked == WantsAck(p)
             spent == Dressed(m, "terminal", "refused", asked)
             waited == IF Waits(p) THEN StartWait(spent, p, goal, status, 0) ELSE spent
  <2>1. m \in Record /\ Story(m) /\ m.phase = "prepared" /\ proc[p].id \in Ids /\ Good(proc[p].id, m)
        /\ m = Snapshot[proc[p].id]
    BY <1>2, MineStory DEF Refusable
  <2>2. Save(proc[p].id, Revoked(waited))
    BY <1>2 DEF RefuseSend, Dressed
  <2>3. goal \in Goals /\ asked \in BOOLEAN /\ status \in WaitStatuses /\ status \notin {"satisfied", "pending"}
    BY DEF Goals, WantsAck, WaitStatuses
  <2> HIDE DEF m, goal, asked
  <2>4. /\ spent \in Record /\ spent.waits = m.waits /\ spent.phase = "terminal"
        /\ spent.ack = m.ack /\ spent.late = m.late /\ spent.receipt = m.receipt /\ spent.pending = m.pending
        /\ spent.cap = m.cap /\ spent.capClock = m.capClock
    <3>1. "terminal" \in Phases /\ "refused" \in Submissions
      BY DEF Phases, Submissions
    <3> QED
      BY <2>1, <2>3, <3>1, DressedFields
  <2>5. m.ack = "none" /\ NoneSatisfied(m.waits)
    BY <2>1 DEF Good, RecordValid, Story
  <2> HIDE DEF spent
  <2>6. Aside(m, spent)
    BY <2>4, <2>5 DEF Aside
  <2>7. Story(spent)
    BY <2>1, <2>4, <2>6, FollowsItself, AsideContinues DEF Continues
  <2>8. /\ Continues(spent, waited) /\ waited \in Record /\ waited.phase = spent.phase
        /\ waited.ack = spent.ack /\ waited.late = spent.late /\ waited.receipt = spent.receipt
        /\ waited.pending = spent.pending /\ waited.cap = spent.cap /\ waited.capClock = spent.capClock
    <3>1. CASE Waits(p)
      <4> DEFINE w == [op |-> p, goal |-> goal, status |-> status, clock |-> 0]
      <4>1. Continues(spent, StartWait(spent, p, goal, status, 0))
        BY <2>3, <2>4, <2>7, StartWaitContinues
      <4>2. Append(spent.waits, w) \in Seq(Wait)
        BY <2>3, <2>4, AppendProperties DEF Wait, Record
      <4>3. waited = [spent EXCEPT !.waits = Append(spent.waits, w)]
        BY <2>4, <3>1 DEF StartWait, Record
      <4> HIDE DEF w, waited
      <4> QED
        BY <2>4, <3>1, <4>1, <4>2, <4>3 DEF Record, waited
    <3>2. CASE ~Waits(p)
      BY <2>4, <2>7, <3>2, StoryKept
    <3> QED
      BY <3>1, <3>2
  <2> HIDE DEF waited
  <2>9. /\ Continues(waited, Revoked(waited)) /\ Revoked(waited).cap # "live"
        /\ Revoked(waited).waits = waited.waits
    BY <2>4, <2>8, RevokedContinues DEF Continues
  <2>10. /\ Revoked(waited).ack = waited.ack /\ Revoked(waited).late = waited.late
         /\ Revoked(waited).receipt = waited.receipt /\ Revoked(waited).pending = waited.pending
         /\ Revoked(waited).phase = waited.phase
    BY <2>8 DEF Revoked, Record
  <2>11. Continues(m, waited)
    BY <2>1, <2>4, <2>6, <2>8, DressedContinues
  <2>12. Continues(m, Revoked(waited))
    BY <2>1, <2>4, <2>8, <2>9, <2>10, <2>11 DEF Continues, Keeps
  <2> QED
    BY <2>1, <2>2, <2>12, SaveTold
<1> QED
  BY <1>1, <1>2

LEMMA FenceTold == ASSUME IInv, Stories, NEW p \in Procs, Fence(p) PROVE \A j \in Ids : Told(j)
<1>1. CASE ~FenceOpen(p)
  BY <1>1, UnchangedTold DEF Fence
<1>2. CASE FenceOpen(p)
  <2> DEFINE m == Mine(p)
             asked == WantsAck(p)
             base == Dressed(m, "attempted", "unknown", asked)
             status == IF WaitSupported(proc[p].id, base, "acknowledged") THEN "pending" ELSE "unsupported"
             r == IF proc[p].mode = "wait"
                  THEN StartWait(base, p, "acknowledged", status, proc[p].auth) ELSE base
  <2>1. m \in Record /\ Story(m) /\ m.phase = "prepared" /\ proc[p].id \in Ids /\ Good(proc[p].id, m)
        /\ m = Snapshot[proc[p].id] /\ proc[p].auth \in Nat
    BY <1>2, MineStory DEF FenceOpen, Fence, At, IInv, SystemTypes, Process
  <2>2. Save(proc[p].id, r)
    BY <1>2 DEF Fence, Dressed
  <2>3. asked \in BOOLEAN /\ status \in WaitStatuses /\ status # "satisfied" /\ "acknowledged" \in Goals
    BY DEF WantsAck, WaitStatuses, Goals
  <2> HIDE DEF m, asked
  <2>4. /\ base \in Record /\ base.waits = m.waits /\ base.phase = "attempted"
        /\ base.ack = m.ack /\ base.late = m.late /\ base.receipt = m.receipt /\ base.pending = m.pending
        /\ base.cap = m.cap /\ base.capClock = m.capClock
    <3>1. "attempted" \in Phases /\ "unknown" \in Submissions
      BY DEF Phases, Submissions
    <3> QED
      BY <2>1, <2>3, <3>1, DressedFields
  <2>5. m.ack = "none" /\ NoneSatisfied(m.waits)
    BY <2>1 DEF Good, RecordValid, Story
  <2> HIDE DEF base, status
  <2>6. Aside(m, base)
    BY <2>4, <2>5 DEF Aside
  <2>7. Story(base)
    BY <2>1, <2>4, <2>6, FollowsItself, AsideContinues DEF Continues
  <2>8. Continues(m, r)
    <3>1. CASE proc[p].mode = "wait"
      <4> DEFINE w == [op |-> p, goal |-> "acknowledged", status |-> status, clock |-> proc[p].auth]
                 vs == Append(base.waits, w)
      <4>1. Continues(base, r)
        BY <2>1, <2>3, <2>4, <2>7, <3>1, StartWaitContinues
      <4>2. r = [base EXCEPT !.waits = vs]
        BY <2>4, <3>1 DEF StartWait, Record
      <4> HIDE DEF r, vs
      <4>3. /\ r.cap = base.cap /\ r.capClock = base.capClock /\ r.ack = base.ack /\ r.late = base.late
            /\ r.receipt = base.receipt /\ r.pending = base.pending /\ r.phase = base.phase
        BY <2>4, <4>2 DEF Record
      <4> QED
        BY <2>1, <2>4, <2>6, <4>1, <4>3, DressedContinues
    <3>2. CASE proc[p].mode # "wait"
      BY <2>1, <2>4, <2>6, <3>2, FollowsItself, AsideContinues
    <3> QED
      BY <3>1, <3>2
  <2> HIDE DEF r
  <2> QED
    BY <2>1, <2>2, <2>8, SaveTold
<1> QED
  BY <1>1, <1>2

LEMMA RecordOutcomeTold ==
  ASSUME IInv, Stories, FencedStory, NEW p \in Procs, NEW ended \in {"stopped", "failed"}, NEW asked \in BOOLEAN,
         RecordOutcome(p, ended, asked)
  PROVE  \A j \in Ids : Told(j)
<1>1. CASE ~OutcomeWritable(p)
  BY <1>1, UnchangedTold DEF RecordOutcome
<1>2. CASE OutcomeWritable(p)
  <2> DEFINE m == Mine(p)
             t == [m EXCEPT !.phase = "terminal", !.submission = proc[p].native, !.native = proc[p].native]
             s == IF proc[p].mode = "wait" THEN SetWait(Revoked(t), p, ended) ELSE Revoked(t)
  <2>1. /\ m \in Record /\ Story(m) /\ m.phase # "absent" /\ proc[p].id \in Ids /\ Good(proc[p].id, m)
        /\ m = Snapshot[proc[p].id] /\ proc[p].pc = "outcome"
    BY <1>2, MineStory DEF OutcomeWritable, RecordOutcome, At
  <2>2. proc[p].native \in {"submitted", "refused", "unknown"}
    BY <2>1 DEF IInv, SystemTypes, Process, Outcomes, FenceInv, ProcInv
  <2>3. Save(proc[p].id, IF proc[p].native = "submitted" THEN t ELSE s)
    BY <1>2 DEF RecordOutcome, WithOutcome
  <2>4. NoneSatisfied(m.waits)
    <3>1. NoneSatisfied(ledger[proc[p].id].waits)
      BY <2>1 DEF FencedStory, Fenced
    <3>2. NoneSatisfied(<<>>)
      BY DEF NoneSatisfied
    <3> QED
      BY <2>1, <3>1, <3>2, SnapshotStory
  <2> HIDE DEF m
  <2>5. /\ t \in Record /\ t.waits = m.waits /\ t.phase = "terminal"
        /\ t.ack = m.ack /\ t.late = m.late /\ t.receipt = m.receipt /\ t.pending = m.pending
        /\ t.cap = m.cap /\ t.capClock = m.capClock
    BY <2>1, <2>2, OutcomeFields
  <2> HIDE DEF t
  <2>6. Aside(m, t)
    BY <2>4, <2>5 DEF Aside
  <2>7. Continues(m, t)
    BY <2>1, <2>5, <2>6, FollowsItself, AsideContinues
  <2>8. Continues(m, s)
    <3> DEFINE v == Revoked(t)
    <3>1. Continues(t, v) /\ v.cap # "live" /\ v.waits = t.waits
      BY <2>5, <2>7, RevokedContinues DEF Continues
    <3>2. /\ v \in Record /\ v.ack = t.ack /\ v.late = t.late /\ v.receipt = t.receipt
          /\ v.pending = t.pending /\ v.phase = t.phase
      BY <2>5 DEF Revoked, Record
    <3> HIDE DEF v
    <3>3. Continues(v, SetWait(v, p, ended))
      BY <2>5, <3>1, <3>2, SetWaitContinues DEF Continues, WaitStatuses
    <3> DEFINE u == SetWait(v, p, ended)
    <3>4. /\ u.cap = v.cap /\ u.ack = v.ack /\ u.late = v.late /\ u.receipt = v.receipt
          /\ u.pending = v.pending /\ u.phase = v.phase
      BY <3>2 DEF SetWait, Record
    <3> HIDE DEF u
    <3>5. Aside(m, v)
      BY <2>5, <2>6, <3>1, <3>2 DEF Aside
    <3>6. Continues(m, v)
      BY <2>1, <2>5, <3>1, <3>5, FollowsItself, AsideContinues
    <3>7. Continues(m, u)
      BY <2>1, <2>5, <3>1, <3>2, <3>3, <3>4, <3>5, DressedContinues DEF u
    <3> QED
      BY <3>6, <3>7 DEF u, v
  <2> HIDE DEF s
  <2> QED
    BY <2>1, <2>3, <2>7, <2>8, SaveTold
<1> QED
  BY <1>1, <1>2

----------------------------------------------------------------------------
(* Every step.                                                             *)

LEMMA SendTold ==
  ASSUME IInv, Stories, FencedStory, NEW p \in Procs, SendStep(p) PROVE \A i \in Ids : Told(i)
<1>1. CASE \E i \in Ids, m \in SendModes : SendFresh(p, i, m)
  BY <1>1, FreshTold DEF SendFresh
<1>2. CASE \E i \in Ids, m \in SendModes : SendPrepared(p, i, m)
  BY <1>2, CompactTold, UnchangedTold DEF SendPrepared
<1>3. CASE Refuse(p) \/ MintFails(p)
  <2>1. \/ UNCHANGED ledger
        \/ proc[p].pc # "idle" /\ \E status \in {"failed", "unsupported"} : RefuseSend(p, status)
    BY <1>3 DEF Refuse, MintFails, At
  <2> QED
    BY <2>1, UnchangedTold, RefuseSendTold
<1>4. CASE DryRun(p) \/ Skip(p) \/ LaunchCollector(p) \/ AskMint(p)
  BY <1>4, UnchangedTold DEF DryRun, Skip, LaunchCollector, AskMint
<1>5. CASE RevokeAuthority(p)
  BY <1>5, RevokeAuthorityTold
<1>6. CASE Fence(p)
  BY <1>6, FenceTold
<1>7. CASE \E o \in Outcomes \ {"none"}, h \in BOOLEAN : Native(p, o, h)
  BY <1>7, UnchangedTold DEF Native
<1>8. CASE \E e \in {"stopped", "failed"}, b \in BOOLEAN : RecordOutcome(p, e, b)
  BY <1>8, RecordOutcomeTold
<1> QED
  BY <1>1, <1>2, <1>3, <1>4, <1>5, <1>6, <1>7, <1>8 DEF SendStep

LEMMA WaitTold ==
  ASSUME IInv, Stories, NEW p \in Procs, WaitStep(p) PROVE \A i \in Ids : Told(i)
<1>1. CASE \E i \in Ids, m \in WaitModes : WaitBegin(p, i, m)
  BY <1>1, UnchangedTold DEF WaitBegin
<1>2. CASE \E b \in BOOLEAN : QueryClock(p, b)
  BY <1>2, UnchangedTold DEF QueryClock
<1>3. CASE \E b \in BOOLEAN : OpenWait(p, b)
  BY <1>3, OpenWaitTold
<1>4. CASE Poll(p) \/ Interrupt(p)
  BY <1>4, EndWaitTold
<1> QED
  BY <1>1, <1>2, <1>3, <1>4 DEF WaitStep

LEMMA CollectorTold == ASSUME IInv, Stories, CollectorStep PROVE \A i \in Ids : Told(i)
<1>1. CASE CollectorStart \/ CollectorRefused
  BY <1>1, StartTold, UnchangedTold DEF CollectorRefused
<1>2. CASE \E q \in requests : HandleMint(q) \/ HandleClassify(q)
  BY <1>2, HandleMintTold, HandleClassifyTold
<1>3. CASE \E i \in Ids, rid \in ReceiptIds : Receipt(i, rid)
  BY <1>3, ReceiptTold
<1> QED
  BY <1>1, <1>2, <1>3 DEF CollectorStep

LEMMA EnvironmentTold == ASSUME IInv, Stories, Environment PROVE \A i \in Ids : Told(i)
<1>1. CASE RestoreQuarantined
  BY <1>1, RestoreTold
<1>2. CASE Environment /\ ~RestoreQuarantined
  <2>1. UNCHANGED ledger
    BY <1>2 DEF Environment, DeadlinePasses, Crash, GrowOld, CollectorStop, CollectorCrash,
                CollectorDiesBinding, RemoveStaleSocket, Reboot, TakeBackup
  <2> QED
    BY <2>1, UnchangedTold
<1> QED
  BY <1>1, <1>2

LEMMA StepTold ==
  ASSUME IInv, Stories, FencedStory, [Next]_vars PROVE \A i \in Ids : Told(i)
<1>1. CASE \E p \in Procs : SendStep(p) \/ WaitStep(p)
  BY <1>1, SendTold, WaitTold
<1>2. CASE \E i \in Ids : PrepareIntent(i) \/ Confirm(i)
  BY <1>2, FreshTold, ConfirmTold DEF PrepareIntent
<1>3. CASE Compact \/ CollectorStep \/ Environment
  BY <1>3, CompactTold, CollectorTold, EnvironmentTold DEF Compact
<1>4. CASE UNCHANGED vars
  BY <1>4, UnchangedTold DEF vars
<1> QED
  BY <1>1, <1>2, <1>3, <1>4 DEF Next

(* Only the fence licenses a submission, and only of a prepared intent.    *)
FencedBefore(p) ==
  Fenced(p)' => /\ proc[p].id \in Ids /\ proc'[p].id = proc[p].id
                /\ Fenced(p) \/ ledger[proc[p].id].phase = "prepared"

LEMMA StepFences == ASSUME IInv, [Next]_vars PROVE \A p \in Procs : FencedBefore(p)
<1>1. /\ proc \in [Procs -> Process]
      /\ \A p \in Procs : proc[p].pc # "idle" => proc[p].id \in Ids
  BY DEF IInv, SystemTypes, FenceInv, ProcInv
<1>2. CASE UNCHANGED proc
  BY <1>1, <1>2 DEF FencedBefore, Fenced
<1>3. ASSUME NEW p \in Procs, NEW pc, pc \notin {"effect", "outcome"}, Goto(p, pc) PROVE \A q \in Procs : FencedBefore(q)
  BY <1>1, <1>3 DEF Goto, FencedBefore, Fenced, Process
<1>4. ASSUME NEW p \in Procs, NEW i, NEW m, NEW pc, pc \notin {"effect", "outcome"}, Begin(p, i, m, pc)
      PROVE  \A q \in Procs : FencedBefore(q)
  BY <1>1, <1>4 DEF Begin, Idle, FencedBefore, Fenced, Process
<1>5. ASSUME NEW p \in Procs, SendStep(p) PROVE \A q \in Procs : FencedBefore(q)
  <2>1. CASE \E i \in Ids, m \in SendModes : SendFresh(p, i, m) \/ SendPrepared(p, i, m)
    BY <2>1, <1>4 DEF SendFresh, SendPrepared
  <2>2. CASE DryRun(p) \/ Skip(p) \/ LaunchCollector(p) \/ AskMint(p) \/ RevokeAuthority(p)
    BY <2>2, <1>3 DEF DryRun, Skip, LaunchCollector, AskMint, RevokeAuthority
  <2>3. CASE Refuse(p) \/ MintFails(p)
    <3>1. \/ Goto(p, "revoking") \/ Goto(p, "done")
          \/ proc' = [proc EXCEPT ![p].pc = "done", ![p].native = "refused"]
      BY <2>3 DEF Refuse, MintFails, RefuseSend
    <3> QED
      BY <1>1, <1>3, <3>1 DEF FencedBefore, Fenced, Process
  <2>4. CASE Fence(p)
    <3>1. CASE FenceOpen(p)
      <4>1. proc[p].id \in Ids /\ ledger[proc[p].id].phase = "prepared"
        BY <2>4, <3>1, MineGood DEF Fence, FenceOpen, At, RetainedFact
      <4> QED
        BY <1>1, <2>4, <3>1, <4>1 DEF Fence, Goto, FencedBefore, Fenced, Process
    <3>2. CASE ~FenceOpen(p)
      BY <1>3, <2>4, <3>2 DEF Fence
    <3> QED
      BY <3>1, <3>2
  <2>5. CASE \E o \in Outcomes \ {"none"}, h \in BOOLEAN : Native(p, o, h)
    BY <1>1, <2>5 DEF Native, At, FencedBefore, Fenced, Process
  <2>6. CASE \E e \in {"stopped", "failed"}, b \in BOOLEAN : RecordOutcome(p, e, b)
    <3>1. Goto(p, "clock") \/ Goto(p, "done") \/ Goto(p, "crashed")
      BY <2>6 DEF RecordOutcome, Missing
    <3> QED
      BY <1>3, <3>1
  <2> QED
    BY <1>5, <2>1, <2>2, <2>3, <2>4, <2>5, <2>6 DEF SendStep
<1>6. ASSUME NEW p \in Procs, WaitStep(p) PROVE \A q \in Procs : FencedBefore(q)
  <2>1. CASE \E i \in Ids, m \in WaitModes : WaitBegin(p, i, m)
    BY <2>1, <1>4 DEF WaitBegin
  <2>2. CASE \E b \in BOOLEAN : QueryClock(p, b)
    BY <1>1, <2>2 DEF QueryClock, FencedBefore, Fenced, Process
  <2>3. CASE \E b \in BOOLEAN : OpenWait(p, b)
    BY <2>3, <1>3 DEF OpenWait
  <2>4. CASE Poll(p) \/ Interrupt(p)
    <3>1. Goto(p, "done") \/ Goto(p, "crashed")
      BY <2>4 DEF Poll, Interrupt, Missing
    <3> QED
      BY <1>3, <3>1
  <2> QED
    BY <1>6, <2>1, <2>2, <2>3, <2>4 DEF WaitStep
<1>7. ASSUME NEW q \in requests, HandleMint(q) PROVE \A p \in Procs : FencedBefore(p)
  BY <1>1, <1>7 DEF HandleMint, FencedBefore, Fenced, Process
<1>8. CASE Reboot
  BY <1>1, <1>8 DEF Reboot, FencedBefore, Fenced, Process
<1>9. CASE \E p \in Procs : Crash(p)
  BY <1>3, <1>9 DEF Crash
<1>10. [Next]_vars => \/ UNCHANGED proc \/ Reboot \/ \E p \in Procs : SendStep(p) \/ WaitStep(p) \/ Crash(p)
                      \/ \E q \in requests : HandleMint(q)
  <2>1. Environment => UNCHANGED proc \/ Reboot \/ \E p \in Procs : Crash(p)
    BY DEF Environment, DeadlinePasses, GrowOld, CollectorStop, CollectorCrash,
           CollectorDiesBinding, RemoveStaleSocket, TakeBackup, RestoreQuarantined
  <2>2. CollectorStep => UNCHANGED proc \/ \E q \in requests : HandleMint(q)
    BY DEF CollectorStep, CollectorStart, CollectorRefused, HandleClassify, Receipt
  <2>3. Compact \/ (\E i \in Ids : PrepareIntent(i) \/ Confirm(i)) => UNCHANGED proc
    BY DEF Compact, PrepareIntent, Confirm
  <2> QED
    BY <2>1, <2>2, <2>3 DEF Next, vars
<1> QED
  BY <1>2, <1>5, <1>6, <1>7, <1>8, <1>9, <1>10

----------------------------------------------------------------------------
(* The inductive invariant.                                                *)

LEMMA InitHistory == Init => HInv
<1> SUFFICES ASSUME Init PROVE HInv
  OBVIOUS
<1>1. IInv
  BY InitInv
<1>2. \A i \in Ids : ledger[i] = Absent /\ backup[i] = Absent
  BY DEF Init
<1>3. Absent.phase = "absent" /\ Absent.cap = "none"
  BY DEF Absent, Blank
<1>4. \A p \in Procs : ~Fenced(p)
  BY DEF Init, Idle, Fenced
<1>5. ~coll.up
  BY DEF Init
<1> QED
  BY <1>1, <1>2, <1>3, <1>4, <1>5, AbsentStory
     DEF HInv, Stories, FencedStory, BackupOlder, OldAuthorityDead

(* What the operator keeps is what is there, or what was.                  *)
LEMMA StepBackup == ASSUME [Next]_vars PROVE backup' \in {backup, ledger}
<1>1. ASSUME NEW p \in Procs, SendStep(p) PROVE UNCHANGED backup
  BY <1>1 DEF SendStep, SendFresh, SendPrepared, DryRun, Skip, Refuse, RefuseSend, LaunchCollector,
              AskMint, MintFails, RevokeAuthority, Fence, Native, RecordOutcome
<1>2. ASSUME NEW p \in Procs, WaitStep(p) PROVE UNCHANGED backup
  BY <1>2 DEF WaitStep, WaitBegin, QueryClock, OpenWait, Poll, Interrupt
<1>3. CollectorStep => UNCHANGED backup
  BY DEF CollectorStep, CollectorStart, CollectorRefused, HandleMint, HandleClassify, Receipt
<1>4. Environment => backup' \in {backup, ledger}
  BY DEF Environment, DeadlinePasses, Crash, GrowOld, CollectorStop, CollectorCrash,
         CollectorDiesBinding, RemoveStaleSocket, Reboot, TakeBackup, RestoreQuarantined
<1>5. Compact \/ (\E i \in Ids : PrepareIntent(i) \/ Confirm(i)) => UNCHANGED backup
  BY DEF Compact, PrepareIntent, Confirm
<1> QED
  BY <1>1, <1>2, <1>3, <1>4, <1>5 DEF Next, vars

(* A collector that runs afterwards ran before, or has just begun.         *)
LEMMA StepCollector == ASSUME IInv, [Next]_vars PROVE coll' = coll \/ ~coll'.up \/ CollectorStart
<1>1. ASSUME NEW p \in Procs, SendStep(p) PROVE UNCHANGED coll
  BY <1>1 DEF SendStep, SendFresh, SendPrepared, DryRun, Skip, Refuse, RefuseSend, LaunchCollector,
              AskMint, MintFails, RevokeAuthority, Fence, Native, RecordOutcome, world
<1>2. ASSUME NEW p \in Procs, WaitStep(p) PROVE UNCHANGED coll
  BY <1>2 DEF WaitStep, WaitBegin, QueryClock, OpenWait, Poll, Interrupt, world
<1>3. CollectorStep => UNCHANGED coll \/ CollectorStart
  BY DEF CollectorStep, CollectorRefused, HandleMint, HandleClassify, Receipt, world
<1>4. Environment => UNCHANGED coll \/ CollectorStop \/ CollectorCrash \/ Reboot
  BY DEF Environment, DeadlinePasses, Crash, GrowOld, CollectorDiesBinding, RemoveStaleSocket,
         TakeBackup, RestoreQuarantined, world
<1>5. CollectorStop \/ CollectorCrash \/ Reboot => coll' = [coll EXCEPT !.up = FALSE]
  BY DEF CollectorStop, CollectorCrash, Reboot
<1>6. coll' = [coll EXCEPT !.up = FALSE] => coll' = coll \/ ~coll'.up
  BY DEF IInv, SystemTypes
<1>7. Compact \/ (\E i \in Ids : PrepareIntent(i) \/ Confirm(i)) => UNCHANGED coll
  BY DEF Compact, PrepareIntent, Confirm, world
<1> QED
  BY <1>1, <1>2, <1>3, <1>4, <1>5, <1>6, <1>7 DEF Next, vars

(* A record that may still be sent, like one that never was, satisfied no wait. *)
LEMMA OpenUnsatisfied ==
  ASSUME NEW i, NEW r, Good(i, r), Story(r), r.phase \in {"absent", "prepared"}
  PROVE  NoneSatisfied(r.waits) /\ r.ack = "none"
<1>1. Absent.ack = "none" /\ NoneSatisfied(Absent.waits)
  BY DEF Absent, Blank, NoneSatisfied
<1> QED
  BY <1>1 DEF Good, RecordValid, Story

LEMMA FencedStoryKept == ASSUME HInv, IInv', [Next]_vars PROVE FencedStory'
<1> SUFFICES ASSUME NEW p \in Procs, Fenced(p)'
             PROVE  NoneSatisfied(ledger'[proc'[p].id].waits) /\ NoneSatisfied(backup'[proc'[p].id].waits)
  BY DEF FencedStory
<1> DEFINE i == proc[p].id
<1>1. i \in Ids /\ proc'[p].id = i /\ (Fenced(p) \/ ledger[i].phase = "prepared")
  BY StepFences DEF FencedBefore, HInv
<1>2. NoneSatisfied(ledger[i].waits) /\ NoneSatisfied(backup[i].waits)
  <2>1. CASE Fenced(p)
    BY <2>1 DEF HInv, FencedStory
  <2>2. CASE ledger[i].phase = "prepared"
    BY <1>1, <2>2, OpenUnsatisfied DEF HInv, IInv, LedgerInv, Stories, BackupOlder
  <2> QED
    BY <1>1, <2>1, <2>2
<1>3. Told(i)
  BY <1>1, StepTold DEF HInv
<1>4. ledger'[i].ack = "none"
  <2>1. ledger'[i].submission \notin {"submitted", "refused"} /\ Good(i, ledger'[i])
    BY <1>1 DEF IInv, FenceInv, ProcInv, LedgerInv
  <2> QED
    BY <1>3, <2>1, OpenUnsatisfied DEF Good, RecordValid, Told
<1>5. NoneSatisfied(ledger'[i].waits)
  BY <1>2, <1>3, <1>4 DEF Told, Keeps
<1> QED
  BY <1>1, <1>2, <1>5, StepBackup

LEMMA BackupOlderKept == ASSUME HInv, [Next]_vars PROVE BackupOlder'
<1> SUFFICES ASSUME NEW i \in Ids, ledger'[i].phase = "prepared"
             PROVE  backup'[i].phase \in {"absent", "prepared"}
  BY DEF BackupOlder
<1>1. ledger[i].phase = "prepared" \/ i \notin used
  BY StepTold DEF HInv, Told
<1>2. i \notin used => ledger[i].phase = "absent" /\ backup[i].phase = "absent"
  BY DEF HInv, IInv, FenceInv, IntentInv
<1> QED
  BY <1>1, <1>2, StepBackup DEF HInv, BackupOlder

LEMMA OldAuthorityKept == ASSUME HInv, [Next]_vars PROVE OldAuthorityDead'
<1> SUFFICES ASSUME coll'.up, NEW i \in Ids, ledger'[i].cap = "live", ledger'[i].ack = "none"
             PROVE  ledger'[i].capClock = coll'.epoch
  BY DEF OldAuthorityDead
<1>1. Told(i)
  BY StepTold DEF HInv
<1>2. CASE coll' = coll
  BY <1>1, <1>2 DEF Told, Keeps, HInv, OldAuthorityDead
<1>3. CASE CollectorStart
  <2>1. ledger'[i] = IF Snapshot[i].ack = "none" THEN Revoked(Snapshot[i]) ELSE Snapshot[i]
    BY <1>3 DEF CollectorStart, StartupLedger
  <2>2. Snapshot[i] \in Record
    BY SnapshotStory DEF HInv
  <2> HIDE DEF Snapshot
  <2>3. Revoked(Snapshot[i]).cap # "live"
    BY <2>2 DEF Revoked, Record
  <2> QED
    BY <2>1, <2>3
<1> QED
  BY <1>2, <1>3, StepCollector DEF HInv

LEMMA HistoryKept == HInv /\ [Next]_vars => HInv'
<1> SUFFICES ASSUME HInv, [Next]_vars PROVE HInv'
  OBVIOUS
<1>1. IInv'
  BY NextKeeps DEF Kept, HInv
<1>2. Stories'
  <2>1. \A i \in Ids : Told(i)
    BY StepTold DEF HInv
  <2> QED
    BY <2>1, StepBackup DEF Told, HInv, Stories
<1> QED
  BY <1>1, <1>2, FencedStoryKept, BackupOlderKept, OldAuthorityKept DEF HInv

(* The inductive invariant of the records' history holds in every          *)
(* reachable state: what a record tells of its past is consistent, no wait *)
(* is satisfied while a sender may still submit, a kept copy of an intent  *)
(* that may be sent is no further than the intent, and unused authority is *)
(* the running collector's.                                                *)
THEOREM HistoryInvariance == Spec => []HInv
<1> QED
  BY InitHistory, HistoryKept, PTL DEF Spec

----------------------------------------------------------------------------
(* What follows from it.                                                   *)

LEMMA ToldPublic ==
  ASSUME NEW i \in Ids, NEW r \in Record, Good(i, r), Story(r), r.phase \notin {"absent", "quarantined"}
  PROVE  PublicValid(i, r)
<1>1. RecordValid(i, r) /\ (r.cap # "none" => i \in Claude)
  BY DEF Good
<1>2. r.ack # "none" => PublicState(r) = "acknowledged" /\ i \in Claude
  BY <1>1 DEF RecordValid, PublicState
<1>3. ASSUME r.waits # <<>>, LastWait(r).status = "satisfied"
      PROVE  LastWait(r).goal = "acknowledged" /\ r.ack # "none"
  <2>1. r.waits \in Seq(Wait) /\ DOMAIN r.waits = 1..Len(r.waits) /\ Len(r.waits) \in Nat
    BY LenProperties DEF Record
  <2>2. 1 \in DOMAIN r.waits
    BY <1>3, <2>1, FirstOfList
  <2>3. Len(r.waits) \in DOMAIN r.waits
    BY <2>1, <2>2
  <2> QED
    BY <1>3, <2>3 DEF LastWait, Story, WaitsSound, NoneSatisfied
<1> QED
  BY <1>1, <1>2, <1>3 DEF PublicValid

(* Status can be told of every record that is not quarantined, and what it *)
(* tells of a receipt's lateness agrees with the waits it ended            *)
(* (handoff_public, handoff_validate_public, handoff_collect).             *)
THEOREM StatusTold == Spec => []StatusTrue
<1>1. HInv => StatusTrue
  <2> SUFFICES ASSUME HInv, NEW i \in Ids
               PROVE  /\ ledger[i].phase \notin {"absent", "quarantined"} => PublicValid(i, ledger[i])
                      /\ ledger[i].ack # "none" /\ ledger[i].late =>
                           ledger[i].waits # <<>> /\ ledger[i].waits[1].status # "satisfied"
    BY DEF StatusTrue, StatusAnswers, LatenessConsistent
  <2>1. ledger[i] \in Record /\ Good(i, ledger[i]) /\ Story(ledger[i])
    BY DEF HInv, IInv, LedgerInv, Stories
  <2> QED
    BY <2>1, ToldPublic DEF Story, FirstOver
<1> QED
  BY <1>1, HistoryInvariance, PTL

LEMMA StepFinal ==
  ASSUME HInv, [Next]_vars, NEW i \in Ids
  PROVE  Lost(i) \/ Keeps(ledger[i], ledger'[i])
  BY StepTold DEF HInv, Told

(* No step rewrites a wait that has ended, the acknowledgement, or the     *)
(* first receipt that was held (handoff_collect, handoff_confirm, the      *)
(* sender's outcome, an interrupt): only retention and a quarantined copy  *)
(* drop them, with the whole record.                                       *)
THEOREM ClassificationStands == Spec => ClassificationFinal
<1> DEFINE Step(i) == Lost(i) \/ Keeps(ledger[i], ledger'[i])
<1>1. HInv /\ [Next]_vars => \A i \in Ids : Step(i)
  BY StepFinal
<1>2. (\A i \in Ids : Step(i)) =>
        \A i \in Ids : \A k \in DOMAIN ledger[i].waits :
          ledger[i].waits[k].status # "pending" =>
            Lost(i) \/ (k \in DOMAIN ledger'[i].waits /\ ledger'[i].waits[k] = ledger[i].waits[k])
  BY DEF Keeps, WaitsKept
<1>3. (\A i \in Ids : Step(i)) =>
        \A i \in Ids : ledger[i].ack # "none" =>
          \/ Lost(i)
          \/ /\ ledger'[i].ack = ledger[i].ack /\ ledger'[i].late = ledger[i].late
             /\ ledger'[i].receipt = ledger[i].receipt
  BY DEF Keeps
<1>4. (\A i \in Ids : Step(i)) =>
        \A i \in Ids : ledger[i].pending # None =>
          \/ Lost(i) \/ ledger'[i].pending = ledger[i].pending
          \/ ledger'[i].ack = "token_possession" /\ ledger'[i].receipt = ledger[i].pending
  BY DEF Keeps
<1> HIDE DEF Step
<1>5. Spec => WaitsFinal
  BY <1>1, <1>2, HistoryInvariance, PTL DEF Spec, WaitsFinal
<1>6. Spec => AckFinal
  BY <1>1, <1>3, HistoryInvariance, PTL DEF Spec, AckFinal
<1>7. Spec => FirstReceiptWins
  BY <1>1, <1>4, HistoryInvariance, PTL DEF Spec, FirstReceiptWins
<1> QED
  BY <1>5, <1>6, <1>7 DEF ClassificationFinal

(* Unused receipt authority is always the running collector's, and it is   *)
(* minted only for an intent nobody has attempted; revoked authority never *)
(* comes back (handoff_serve's startup, handoff_mint).                     *)
THEOREM AuthorityHolds == Spec => AuthorityHeld
<1> DEFINE Minted == \A i \in Ids : ledger'[i].cap = "live" /\ ledger[i].cap # "live" =>
                       ledger[i].cap = "none" /\ ledger[i].phase = "prepared" /\ effects[i] = 0
<1>1. HInv /\ [Next]_vars => Minted
  <2> SUFFICES ASSUME HInv, [Next]_vars, NEW i \in Ids, ledger'[i].cap = "live", ledger[i].cap # "live"
               PROVE  ledger[i].cap = "none" /\ ledger[i].phase = "prepared" /\ effects[i] = 0
    OBVIOUS
  <2>1. ledger[i].cap = "none" /\ ledger[i].phase = "prepared"
    BY StepTold DEF HInv, Told, Keeps
  <2> QED
    BY <2>1 DEF HInv, IInv, FenceInv, IntentInv
<1>2. HInv => OldAuthorityDead
  BY DEF HInv
<1> HIDE DEF Minted
<1>3. Spec => [][Minted]_vars
  BY <1>1, HistoryInvariance, PTL DEF Spec
<1>4. Spec => []OldAuthorityDead
  BY <1>2, HistoryInvariance, PTL
<1> QED
  BY <1>3, <1>4 DEF AuthorityHeld, AuthorityMintedOnce, Minted, OldAuthorityDead
=============================================================================
