--------------------------- MODULE RemoteHandoff ---------------------------
(***************************************************************************)
(* A correlated handoff over SSH (session_peer_core/handoff_remote.py, with *)
(* the bounded child of handoff_process.py and the dispatch of ssh.py).     *)
(* The sender probes the remote session, commits a durable intent to its    *)
(* ledger, runs one SSH child that carries the effect command, and records  *)
(* what it can prove of the outcome.  The remote command keeps no ledger:   *)
(* its only guard is the deadline it derives from the clock value of the    *)
(* probe.  A remote command that was started goes on when its SSH client    *)
(* is gone.                                                                 *)
(*                                                                         *)
(* Both hosts' clocks advance together; their readings are only ever        *)
(* compared on the host they come from.  `generation` stands for what       *)
(* identifies the target: a Claude session's generation, a Codex home.      *)
(***************************************************************************)
EXTENDS Naturals, FiniteSets

CONSTANTS
  Senders,       \* invocations of `send --host` with a correlation id or a new one
  Handoffs,      \* correlation ids
  Budget,        \* an invocation's time until its cutoff
  Closing,       \* from the cutoff to the total: 5 s
  MaxNow,        \* bound on time
  MaxTarget      \* bound on the generations of the target

ASSUME RemoteBounds == {Budget, Closing, MaxNow, MaxTarget} \subseteq Nat

VARIABLES
  now,        \* time
  ledger,     \* ledger[i]: the record of correlation id i
  sender,     \* sender[s]: one invocation
  child,      \* child[s]: the SSH child of its effect command
  job,        \* job[s]: that command at the remote host
  target,     \* generation of the session that answers at the remote host
  boot,       \* boots of the remote host
  delivered   \* delivered[i]: each submission the session got: by whom, when, which session

remoteVars == <<now, ledger, sender, child, job, target, boot, delivered>>

Times == 0..MaxNow
Targets == 0..MaxTarget
NoTarget == MaxTarget + 1     \* a record prepared without knowing the generation
NoHandoff == "no id"

NoRecord == [phase |-> "absent", submission |-> "not_attempted", gen |-> NoTarget]
NotSending == [pc |-> "idle", id |-> NoHandoff, cutoff |-> 0, anchor |-> 0, boot |-> 0, remaining |-> 0,
         gen |-> NoTarget, dry |-> FALSE, outcome |-> "none", code |-> 0]
NoChild == [pc |-> "none", spawned |-> "no", response |-> "none", interrupted |-> FALSE, key |-> "unseen"]
NoJob == [pc |-> "none", native |-> "none"]
Natives == {"submitted", "refused", "unknown"}

RemoteTypeOK ==
  /\ now \in Times /\ target \in Targets /\ boot \in 0..1
  /\ ledger \in [Handoffs -> [phase : {"absent", "prepared", "attempted", "terminal"},
                              submission : {"not_attempted"} \cup Natives, gen : Targets \cup {NoTarget}]]
  /\ \A i \in Handoffs : /\ ledger[i].phase = "terminal" => ledger[i].submission # "not_attempted"
                         /\ ledger[i].phase = "attempted" => ledger[i].submission = "unknown"
  /\ \A s \in Senders :
       /\ sender[s].pc \in {"idle", "probing", "refusing", "probed", "prepared", "effect", "bound", "outcome", "over"}
       /\ sender[s].outcome \in {"none"} \cup Natives /\ sender[s].code \in {0, 1, 130}
       /\ child[s].pc \in {"none", "running", "over"} /\ child[s].spawned \in {"no", "yes", "unknown"}
       /\ child[s].response \in {"none"} \cup Natives /\ child[s].key \in {"unseen", "observed", "refused"}
       /\ job[s].pc \in {"none", "queued", "effect", "done"} /\ job[s].native \in {"none"} \cup Natives

RemoteInit ==
  /\ now = 0 /\ target = 0 /\ boot = 0
  /\ ledger = [i \in Handoffs |-> NoRecord]
  /\ sender = [s \in Senders |-> NotSending]
  /\ child = [s \in Senders |-> NoChild]
  /\ job = [s \in Senders |-> NoJob]
  /\ delivered = [i \in Handoffs |-> {}]

InPc(s, pc) == sender[s].pc = pc
Ended(s, code) == [sender EXCEPT ![s].pc = "over", ![s].code = code]

----------------------------------------------------------------------------
(* Before the effect.                                                      *)

(* The command starts: a correlation id that was given must name a record  *)
(* still prepared.  A request for an observation or a wait, or too small a *)
(* budget, goes to the refusal.                                            *)
SendOverSsh(s, i) ==
  /\ InPc(s, "idle")
  /\ now + Budget + Closing <= MaxNow
  /\ \E given, early, dry \in BOOLEAN :
       /\ given => ledger[i].phase = "prepared"
       /\ ~given => ledger[i].phase = "absent" /\ \A t \in Senders : sender[t].id # i
       /\ sender' = [sender EXCEPT ![s] = [@ EXCEPT !.pc = IF early THEN "refusing" ELSE "probing",
                                            !.id = i, !.cutoff = now + Budget, !.dry = dry]]
  /\ UNCHANGED <<now, ledger, child, job, target, boot, delivered>>

(* ledger.prepare: a new record, or the one of the id if nothing about the *)
(* target has changed since.                                               *)
PreparedRecord(i, gen) == [phase |-> "prepared", submission |-> "not_attempted", gen |-> gen]
MayPrepare(i, gen) == ledger[i].phase = "absent" \/ ledger[i] = PreparedRecord(i, gen)

(* handoff_refuse_send, a transaction after the one that prepared.         *)
Refusable(i) == ledger[i].phase = "prepared"
PrepareToRefuse(s) ==
  LET i == sender[s].id IN
  /\ InPc(s, "refusing") /\ sender[s].gen = NoTarget /\ sender[s].outcome = "none"
  /\ IF MayPrepare(i, NoTarget)
     THEN /\ ledger' = [ledger EXCEPT ![i] = PreparedRecord(i, NoTarget)]
          /\ sender' = [sender EXCEPT ![s].outcome = "refused"]
     ELSE ledger' = ledger /\ sender' = Ended(s, 1)
  /\ UNCHANGED <<now, child, job, target, boot, delivered>>
RefuseEarly(s) ==
  LET i == sender[s].id IN
  /\ InPc(s, "refusing") /\ sender[s].outcome = "refused"
  /\ ledger' = IF Refusable(i) THEN [ledger EXCEPT ![i].phase = "terminal", ![i].submission = "refused"] ELSE ledger
  /\ sender' = Ended(s, 1)
  /\ UNCHANGED <<now, child, job, target, boot, delivered>>

(* The probe's remote command notes its host's boot and clock and the      *)
(* target's generation; the sender computes what is left of its budget     *)
(* once, after the answer.                                                 *)
RemoteProbe(s) ==
  /\ InPc(s, "probing") /\ sender[s].gen = NoTarget /\ now < sender[s].cutoff
  /\ sender' = [sender EXCEPT ![s].anchor = now, ![s].boot = boot, ![s].gen = target]
  /\ UNCHANGED <<now, ledger, child, job, target, boot, delivered>>
ProbeAnswered(s) ==
  /\ InPc(s, "probing") /\ sender[s].gen # NoTarget
  /\ now < sender[s].cutoff + Closing
  /\ sender' = [sender EXCEPT ![s].pc = "probed",
       ![s].remaining = IF now < sender[s].cutoff THEN sender[s].cutoff - now ELSE 0]
  /\ UNCHANGED <<now, ledger, child, job, target, boot, delivered>>

(* Any failure, a refusal of the metadata preflight or an interruption     *)
(* before the intent leaves the ledger as it was.                          *)
StopsBefore(s) ==
  /\ sender[s].pc \in {"probing", "probed", "prepared"}
  /\ \E code \in {1, 130} : sender' = Ended(s, code)
  /\ UNCHANGED <<now, ledger, child, job, target, boot, delivered>>

PrepareIntent(s) ==
  LET i == sender[s].id IN
  /\ InPc(s, "probed") /\ now < sender[s].cutoff /\ MayPrepare(i, sender[s].gen)
  /\ ledger' = [ledger EXCEPT ![i] = PreparedRecord(i, sender[s].gen)]
  /\ sender' = IF sender[s].dry THEN Ended(s, 0) ELSE [sender EXCEPT ![s].pc = "prepared"]
  /\ UNCHANGED <<now, child, job, target, boot, delivered>>

(* The durable intent, the last thing before the only effect command.      *)
MayAttempt(s) == ledger[sender[s].id].phase = "prepared" /\ now < sender[s].cutoff
Intend(s) ==
  /\ InPc(s, "prepared") /\ MayAttempt(s)
  /\ ledger' = [ledger EXCEPT ![sender[s].id].phase = "attempted", ![sender[s].id].submission = "unknown"]
  /\ sender' = [sender EXCEPT ![s].pc = "effect"]
  /\ UNCHANGED <<now, child, job, target, boot, delivered>>

----------------------------------------------------------------------------
(* handoff_stream_child, for the effect command.                           *)

(* No process was created: the deadline passed, the clock failed, the      *)
(* request is invalid, the source or the SSH configuration unreadable, or  *)
(* an interruption came first.                                             *)
NotSpawned(s) ==
  /\ InPc(s, "effect") /\ child[s].pc = "none"
  /\ \E int \in BOOLEAN : child' = [child EXCEPT ![s] = [@ EXCEPT !.pc = "over", !.interrupted = int]]
  /\ UNCHANGED <<now, ledger, sender, job, target, boot, delivered>>
Spawned(s) ==
  /\ InPc(s, "effect") /\ child[s].pc = "none" /\ now < sender[s].cutoff
  /\ \/ child' = [child EXCEPT ![s] = [@ EXCEPT !.pc = "running", !.spawned = "yes"]]
     \/ child' = [child EXCEPT ![s] = [@ EXCEPT !.pc = "over", !.spawned = "unknown", !.interrupted = TRUE]]
  /\ UNCHANGED <<now, ledger, sender, job, target, boot, delivered>>

(* The host key is looked at before anything is executed; a pinned key     *)
(* that does not match ends the connection.  The whole source reaches the  *)
(* remote interpreter before it runs, and not after the cutoff.            *)
KeySeen(s) ==
  /\ child[s].pc = "running" /\ child[s].key = "unseen"
  /\ \E k \in {"observed", "refused"} : child' = [child EXCEPT ![s].key = k]
  /\ UNCHANGED <<now, ledger, sender, job, target, boot, delivered>>
SourceStreamed(s) ==
  /\ child[s].pc = "running" /\ child[s].key = "observed" /\ job[s].pc = "none"
  /\ now < sender[s].cutoff
  /\ job' = [job EXCEPT ![s].pc = "queued"]
  /\ UNCHANGED <<now, ledger, sender, child, target, boot, delivered>>

(* The child's end, with a complete response or without one: the peer hung *)
(* up, a pipe overflowed, the deadline passed, the user interrupted.  What *)
(* was complete by then is read during the cleanup.                        *)
ChildEnds(s) ==
  /\ child[s].pc = "running"
  /\ \E int \in BOOLEAN, r \in {"none", job[s].native} :
       child' = [child EXCEPT ![s].pc = "over", ![s].interrupted = int, ![s].response = r]
  /\ UNCHANGED <<now, ledger, sender, job, target, boot, delivered>>

----------------------------------------------------------------------------
(* cmd_handoff_remote_native at the remote host.                           *)

RemoteCutoffMutant(s) == now + sender[s].remaining
RemoteCutoff(s) == sender[s].anchor + sender[s].remaining
WithinDeadline(s) == sender[s].boot = boot /\ now < RemoteCutoff(s)
SameTarget(s) == target = sender[s].gen

RemoteStarts(s) ==
  /\ job[s].pc = "queued"
  /\ job' = [job EXCEPT ![s] = IF WithinDeadline(s) /\ SameTarget(s)
                                THEN [@ EXCEPT !.pc = "effect"] ELSE [pc |-> "done", native |-> "refused"]]
  /\ UNCHANGED <<now, ledger, sender, child, target, boot, delivered>>

(* post_to_socket looks at the connected session and at the time again.    *)
(* A failed check refuses; a write that failed half way is unknown.        *)
RemoteSubmits(s) ==
  LET i == sender[s].id IN
  /\ job[s].pc = "effect" /\ WithinDeadline(s) /\ SameTarget(s)
  /\ delivered' = [delivered EXCEPT ![i] = @ \cup {[by |-> s, at |-> now, gen |-> target]}]
  /\ \E n \in {"submitted", "unknown"} : job' = [job EXCEPT ![s] = [pc |-> "done", native |-> n]]
  /\ UNCHANGED <<now, ledger, sender, child, target, boot>>
RemoteFails(s) ==
  /\ job[s].pc = "effect"
  /\ \E n \in {"refused", "unknown"} : job' = [job EXCEPT ![s] = [pc |-> "done", native |-> n]]
  /\ UNCHANGED <<now, ledger, sender, child, target, boot, delivered>>

----------------------------------------------------------------------------
(* The outcome.                                                            *)

(* transport.execute() returns, or raises with, a validated response, and  *)
(* only then the sender holds it.                                          *)
Binds(s) ==
  /\ InPc(s, "effect") /\ child[s].pc = "over" /\ child[s].response # "none"
  /\ sender' = [sender EXCEPT ![s].pc = "bound"]
  /\ UNCHANGED <<now, ledger, child, job, target, boot, delivered>>

(* The response says the outcome, whatever else befell the child.  Without *)
(* one only two things prove that nothing happened: that no process was    *)
(* created, and that the pinned host key was refused.                      *)
Unanswered(s) == IF child[s].spawned = "no" \/ child[s].key = "refused" THEN "refused" ELSE "unknown"
Tells(s, outcome, code) == sender' = [sender EXCEPT ![s].pc = "outcome", ![s].outcome = outcome, ![s].code = code]
Classify(s) ==
  /\ \/ InPc(s, "bound") /\ Tells(s, child[s].response, IF child[s].response = "submitted" THEN 0 ELSE 1)
     \/ /\ InPc(s, "effect") /\ child[s].pc = "over" /\ child[s].response = "none"
        /\ Tells(s, Unanswered(s), IF child[s].interrupted THEN 130 ELSE 1)
  /\ UNCHANGED <<now, ledger, child, job, target, boot, delivered>>

(* An interrupt of the sender itself, outside what the child's supervision *)
(* catches.  Before a response is bound nothing is known, even if the      *)
(* child had answered or still runs.  A bound one is validated again, and  *)
(* kept if it says submitted, unless a second interrupt falls into that.   *)
SenderInterrupted(s) ==
  /\ \/ InPc(s, "effect") /\ child[s].pc # "none" /\ Tells(s, "unknown", 130)
     \/ InPc(s, "bound") /\ child[s].response = "submitted" /\ Tells(s, "submitted", 0)
     \/ InPc(s, "bound") /\ Tells(s, "unknown", 130)
  /\ UNCHANGED <<now, ledger, child, job, target, boot, delivered>>

(* The last transaction has the budget's reserve; when it fails, the       *)
(* record stays attempted and the caller is told the outcome all the same. *)
RecordTerminal(s) ==
  LET i == sender[s].id IN
  /\ InPc(s, "outcome")
  /\ \/ ledger' = [ledger EXCEPT ![i].phase = "terminal", ![i].submission = sender[s].outcome]
     \/ ledger' = ledger
  /\ sender' = [sender EXCEPT ![s].pc = "over"]
  /\ UNCHANGED <<now, child, job, target, boot, delivered>>

----------------------------------------------------------------------------
(* Time and faults.                                                        *)

RemoteTick ==
  /\ now < MaxNow /\ now' = now + 1
  /\ UNCHANGED <<ledger, sender, child, job, target, boot, delivered>>

(* The target session is replaced by another.                              *)
TargetRestarts ==
  /\ target < MaxTarget /\ target' = target + 1
  /\ UNCHANGED <<now, ledger, sender, child, job, boot, delivered>>

(* The remote host reboots: its commands and its clock are gone.           *)
RemoteReboots ==
  /\ boot = 0 /\ boot' = 1
  /\ target < MaxTarget /\ target' = target + 1
  /\ job' = [s \in Senders |-> IF job[s].pc \in {"queued", "effect"} THEN [pc |-> "done", native |-> "none"] ELSE job[s]]
  /\ UNCHANGED <<now, ledger, sender, child, delivered>>

(* The sender is killed; its SSH child, in a session of its own, goes on.  *)
SenderKilled(s) ==
  /\ sender[s].pc \notin {"idle", "over"}
  /\ sender' = [sender EXCEPT ![s].pc = "over", ![s].outcome = "none", ![s].code = 1]
  /\ UNCHANGED <<now, ledger, child, job, target, boot, delivered>>

RemoteNext ==
  \/ \E s \in Senders : \/ \E i \in Handoffs : SendOverSsh(s, i)
                        \/ PrepareToRefuse(s) \/ RefuseEarly(s)
                        \/ RemoteProbe(s) \/ ProbeAnswered(s) \/ StopsBefore(s)
                        \/ PrepareIntent(s) \/ Intend(s)
                        \/ NotSpawned(s) \/ Spawned(s) \/ KeySeen(s) \/ SourceStreamed(s) \/ ChildEnds(s)
                        \/ RemoteStarts(s) \/ RemoteSubmits(s) \/ RemoteFails(s)
                        \/ Binds(s) \/ Classify(s) \/ SenderInterrupted(s) \/ RecordTerminal(s) \/ SenderKilled(s)
  \/ RemoteTick \/ TargetRestarts \/ RemoteReboots

RemoteSpec == RemoteInit /\ [][RemoteNext]_remoteVars

----------------------------------------------------------------------------
(* What a handoff over SSH guarantees.                                     *)

(* However many invocations use one correlation id, and whoever is killed, *)
(* at most one of them submits, and an outcome that is recorded, or told   *)
(* to the caller, is true and stays true: after `refused` no command still *)
(* under way can submit.                                                   *)
Claims(i) == {ledger[i].submission} \cup
  {sender[s].outcome : s \in {t \in Senders : sender[t].id = i /\ InPc(t, "over") /\ child[t].pc = "over"}}
RemoteOutcomesTrue ==
  \A i \in Handoffs : /\ "submitted" \in Claims(i) => delivered[i] # {}
                      /\ "refused" \in Claims(i) => delivered[i] = {}

(* A submission over SSH happens before the cutoff of the invocation that  *)
(* caused it, on the sender's own clock, although the remote host never    *)
(* sees that clock: the old anchor and a remaining time sampled after it   *)
(* cannot renew the budget.                                                *)
EffectBeforeCutoff == \A i \in Handoffs : \A e \in delivered[i] : e.at < sender[e.by].cutoff

(* The session that got the text is the one the record names, however the  *)
(* target was replaced between probe, intent and effect.                   *)
RecordedTargetOnly == \A i \in Handoffs : \A e \in delivered[i] : e.gen = ledger[i].gen

(* A validated response that says the text was submitted is reported so,   *)
(* however the child ended.  Only an interrupt of the sender itself loses  *)
(* it, and then the outcome is unknown and the code 130, never a refusal.  *)
EvidenceKept ==
  \A s \in Senders : InPc(s, "outcome") /\ child[s].response = "submitted" =>
    \/ sender[s].outcome = "submitted" /\ sender[s].code = 0
    \/ sender[s].outcome = "unknown" /\ sender[s].code = 130

(* The exit code 0 says, of a real send, that this very invocation's       *)
(* command gave the session its text: of two invocations with one id never *)
(* both say so, and no interrupt, lost answer or early refusal does.       *)
ExitsTrue ==
  \A s \in Senders : InPc(s, "over") /\ sender[s].code = 0 /\ ~sender[s].dry =>
    \E e \in delivered[sender[s].id] : e.by = s

(* The handoff over SSH keeps the promise of SubmissionPromise, like the   *)
(* local one: a record is a licence for at most one submission, a spent    *)
(* licence never reopens, and only true facts are learned.  The licence is *)
(* held while a command may still submit, also after its invocation ended. *)
MaySubmit(s) == \/ InPc(s, "effect") /\ child[s].pc = "none"
                \/ child[s].pc = "running" /\ job[s].pc = "none"
                \/ job[s].pc \in {"queued", "effect"}
HeldBy(i) == \E s \in Senders : sender[s].id = i /\ MaySubmit(s)
RemoteLicence(i) ==
  IF ledger[i].phase \in {"absent", "prepared"} THEN "open" ELSE IF HeldBy(i) THEN "held" ELSE "spent"
RemoteFact(i) == IF ledger[i].submission \in {"submitted", "refused"} THEN ledger[i].submission ELSE "none"
RemotePromise == INSTANCE SubmissionPromise WITH
  Ids <- Handoffs, licence <- [i \in Handoffs |-> RemoteLicence(i)],
  sent <- [i \in Handoffs |-> Cardinality(delivered[i])], fact <- [i \in Handoffs |-> RemoteFact(i)]
RemoteKeepsPromise == RemotePromise!Spec

(* What a handoff over SSH guarantees in every state, besides the promise: *)
(* true outcomes and exit codes, evidence lost to nothing but an interrupt *)
(* of the sender, an effect in time, and on the session that was recorded. *)
RemoteSafe ==
  /\ [](/\ RemoteTypeOK
        /\ RemoteOutcomesTrue
        /\ EffectBeforeCutoff
        /\ RecordedTargetOnly
        /\ EvidenceKept
        /\ ExitsTrue)
  /\ RemoteKeepsPromise
=============================================================================
