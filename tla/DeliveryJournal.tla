-------------------------- MODULE DeliveryJournal --------------------------
(***************************************************************************)
(* Delivery between paired devices (session_peer_relay): a sender's CLI    *)
(* submits a request once over an authenticated channel (app.exchange);    *)
(* the receiver's event loop authorizes it, journals it and runs a native  *)
(* worker process (app.Receiver.dispatch, native.Native.invoke, worker),   *)
(* over the SQLite journal of store.Store.  One receiving device and one   *)
(* peer of it are modelled: the journal's key is (peer, id), and no        *)
(* operation relates the rows of two peers except the row limit.           *)
(*                                                                         *)
(* `loop` is the request in the event loop's synchronous stretch between   *)
(* reading the peer's authorization and the journal's transaction: nothing *)
(* else runs on the loop then, but another process may write the database. *)
(* Definitions named ...Mutant are deliberately wrong forms of the next    *)
(* one, used only to show that a property notices the mistake.             *)
(***************************************************************************)
EXTENDS Naturals, FiniteSets

CONSTANTS
  Calls,       \* invocations of the sender's CLI, each of them one request
  Ids,         \* request ids; an operator may give several calls one id
  Texts,       \* messages
  Bindings,    \* what the policy may bind the target's alias to
  MaxRows,     \* rows the journal may hold (10000 in the code)
  Slots,       \* native workers at a time (2 in the code)
  Faults,      \* what may go wrong
  None         \* no value

AllFaults == {"loss", "down", "database", "revoke", "restore"}

ASSUME LimitsAssumption == MaxRows \in Nat /\ Slots \in Nat
ASSUME FaultsAssumption == Faults \subseteq AllFaults

WorkerEndings == {"submitted", "refused", "dead"}
Results == {"submitted", "refused", "unknown"}
(* "rejected": this request was turned away (a Rejected in dispatch);      *)
(* "no_route": nothing was submitted; "gap": recovery_gap.                 *)
Answers == Results \cup {"rejected", "not_found", "gap", "no_route"}

ASSUME NoneAssumption == None \notin Calls \cup Ids \cup Texts \cup Bindings \cup Answers

VARIABLES
  call,        \* the sender's calls
  frames,      \* calls whose request frame is on its way to the receiver
  expired,     \* calls whose request is past its `expires`
  up,          \* the receiver runs
  loop,        \* the call in the loop's synchronous stretch, or None
  task,        \* the receiver's handler of each call
  worker,      \* its native worker: "submitted" once the session got the message,
               \* "refused" by its preflight, "dead" without having submitted
  binding,     \* the running receiver's binding of the alias
  journal,     \* table requests
  peer,        \* the peer's row: "paired" or "revoked"
  recovery,    \* the state is a restored archive (recovery_required)
  backup,      \* the last snapshot: journal and peer
  closed,      \* history: calls that were past `expires` when a status said not_found
  late         \* history: calls journalled while their peer was revoked

receiver == <<up, loop, task, binding>>
store == <<journal, peer, recovery, backup>>
history == <<closed, late>>
vars == <<call, frames, expired, worker, receiver, store, history>>

Call == [pc : {"idle", "ready", "sent", "done"}, op : {"send", "status"},
         id : Ids \cup {None}, text : Texts \cup {None}, answer : Answers \cup {None}]
Task == [pc : {"none", "waiting", "running", "replying"}, reply : Answers \cup {None}]
NoCall == [pc |-> "idle", op |-> "send", id |-> None, text |-> None, answer |-> None]
NoTask == [pc |-> "none", reply |-> None]
NoRow == [state |-> "absent", text |-> None, binding |-> None, result |-> None]
Row == {NoRow}
       \cup [state : {"pending"}, text : Texts, binding : Bindings, result : {None}]
       \cup [state : {"done"}, text : Texts, binding : Bindings, result : Results]

Init ==
  /\ call = [c \in Calls |-> NoCall] /\ frames = {} /\ expired = {}
  /\ up = FALSE /\ loop = None /\ task = [c \in Calls |-> NoTask] /\ binding \in Bindings
  /\ worker = [c \in Calls |-> "none"]
  /\ journal = [i \in Ids |-> NoRow] /\ peer = "paired" /\ recovery = FALSE
  /\ backup = [journal |-> journal, peer |-> peer]
  /\ closed = {} /\ late = {}

----------------------------------------------------------------------------
(* The sender (app.exchange).                                              *)

Sender == UNCHANGED <<worker, receiver, store, history>>

(* Route setup, with its retries and its race of two routes, submits       *)
(* nothing; it ends with an authenticated, probed channel or without one.  *)
StartCall(c, op, i, text) ==
  /\ call[c].pc = "idle"
  /\ call' = [call EXCEPT ![c] = [pc |-> "ready", op |-> op, id |-> i, answer |-> None,
                                   text |-> IF op = "send" THEN text ELSE None]]
  /\ UNCHANGED <<frames, expired>> /\ Sender

Ends(c, answer) == call' = [call EXCEPT ![c].pc = "done", ![c].answer = answer]

NoRoute(c) ==
  /\ call[c].pc = "ready" /\ Ends(c, "no_route")
  /\ UNCHANGED <<frames, expired>> /\ Sender

(* The one application submission; the 60 s of `expires` start here.       *)
Submit(c) ==
  /\ call[c].pc = "ready" /\ up
  /\ call' = [call EXCEPT ![c].pc = "sent"] /\ frames' = frames \cup {c}
  /\ UNCHANGED expired /\ Sender

(* A timeout, a lost connection or an unreadable answer: unknown, and what *)
(* was written may still arrive.                                           *)
GiveUp(c) ==
  /\ call[c].pc = "sent" /\ Ends(c, "unknown")
  /\ UNCHANGED <<frames, expired>> /\ Sender

Expire(c) ==
  /\ call[c].pc \in {"sent", "done"} /\ c \notin expired /\ expired' = expired \cup {c}
  /\ UNCHANGED <<call, frames>> /\ Sender

LoseFrame(c) ==
  /\ "loss" \in Faults /\ c \in frames /\ frames' = frames \ {c}
  /\ UNCHANGED <<call, expired>> /\ Sender

----------------------------------------------------------------------------
(* The receiver's event loop.                                              *)

LoopFree == up /\ loop = None

Reply(c, answer) == task' = [task EXCEPT ![c] = [pc |-> "replying", reply |-> answer]]

(* Store.status.                                                           *)
Status(i) ==
  IF journal[i].state = "done" THEN journal[i].result
  ELSE IF journal[i].state = "pending" THEN "unknown"
  ELSE IF recovery THEN "gap" ELSE "not_found"

AdmissibleMutant(c) == peer = "paired"
AdmissibleAnyMutant(c) == c \notin expired
Admissible(c) == peer = "paired" /\ c \notin expired

OnStatus(c) ==
  /\ call[c].op = "status"
  /\ Reply(c, IF Admissible(c) THEN Status(call[c].id) ELSE "rejected")
  /\ closed' = IF Admissible(c) /\ Status(call[c].id) = "not_found"
               THEN closed \cup {s \in expired : call[s].op = "send" /\ call[s].id = call[c].id}
               ELSE closed
  /\ UNCHANGED loop

(* A send that policy, framing or a rotation under way turns away is       *)
(* rejected before the journal whatever this model says.                   *)
OnSend(c) ==
  /\ call[c].op = "send" /\ UNCHANGED closed
  /\ \/ Admissible(c) /\ loop' = c /\ UNCHANGED task
     \/ Reply(c, "rejected") /\ UNCHANGED loop

Dispatch(c) ==
  /\ LoopFree /\ c \in frames /\ task[c].pc = "none"
  /\ frames' = frames \ {c}
  /\ OnStatus(c) \/ OnSend(c)
  /\ UNCHANGED <<call, expired, worker, up, binding, store, late>>

Rows == {i \in Ids : journal[i].state # "absent"}
SameRequestMutant(c) == journal[call[c].id].binding = binding
SameRequest(c) == journal[call[c].id].text = call[c].text /\ journal[call[c].id].binding = binding

UnseenMutant(i) == journal[i].state # "pending"
Unseen(i) == journal[i].state = "absent"
RefusedNewMutant == Cardinality(Rows) >= MaxRows
RefusedNew == recovery \/ Cardinality(Rows) >= MaxRows

(* Store.begin, one transaction: the pending row is committed before any   *)
(* native effect.  A transaction that fails is answered unknown.           *)
Begin(c) ==
  /\ up /\ loop = c /\ loop' = None
  /\ LET i == call[c].id IN
     \/ ~Unseen(i) /\ SameRequest(c) /\ Reply(c, Status(i)) /\ UNCHANGED <<journal, late>>
     \/ ~Unseen(i) /\ ~SameRequest(c) /\ Reply(c, "rejected") /\ UNCHANGED <<journal, late>>
     \/ Unseen(i) /\ RefusedNew /\ Reply(c, "rejected") /\ UNCHANGED <<journal, late>>
     \/ /\ Unseen(i) /\ ~RefusedNew
        /\ journal' = [journal EXCEPT ![i] = [state |-> "pending", text |-> call[c].text,
                                              binding |-> binding, result |-> None]]
        /\ task' = [task EXCEPT ![c].pc = "waiting"]
        /\ late' = IF peer = "revoked" THEN late \cup {c} ELSE late
     \/ "database" \in Faults /\ Reply(c, "unknown") /\ UNCHANGED <<journal, late>>
  /\ UNCHANGED <<call, frames, expired, worker, up, binding, peer, recovery, backup, closed>>

SlotFreeMutant == Cardinality({c \in Calls : worker[c] # "none"}) < Slots
SlotFree == Cardinality({c \in Calls : task[c].pc = "running"}) < Slots

Spawn(c) ==
  /\ LoopFree /\ task[c].pc = "waiting" /\ SlotFree
  /\ task' = [task EXCEPT ![c].pc = "running"] /\ worker' = [worker EXCEPT ![c] = "live"]
  /\ UNCHANGED <<call, frames, expired, up, loop, binding, store, history>>

(* The worker process could not be created: dispatch raises, the row stays *)
(* pending for good.                                                       *)
SpawnFails(c) ==
  /\ LoopFree /\ task[c].pc = "waiting" /\ SlotFree /\ Reply(c, "unknown")
  /\ UNCHANGED <<call, frames, expired, worker, up, loop, binding, store, history>>

(* The worker's result, or unknown for a failed, unreadable or overdue     *)
(* worker, which is killed; the agent's own process may outlive it.        *)
Outcome(c, result) ==
  \/ result = "submitted" /\ worker[c] = "submitted"
  \/ result = "refused" /\ worker[c] = "refused"
  \/ result = "unknown"

RecordedMutant(r, result) == [r EXCEPT !.result = result]
Recorded(r, result) == [state |-> "done", text |-> r.text, binding |-> r.binding, result |-> result]

(* Native.invoke returns and Store.finish records, with no await between.  *)
Finish(c, result) ==
  /\ LoopFree /\ task[c].pc = "running" /\ Outcome(c, result)
  /\ \/ /\ journal' = [journal EXCEPT ![call[c].id] = Recorded(@, result)]
        /\ Reply(c, result)
     \/ "database" \in Faults /\ UNCHANGED journal /\ Reply(c, "unknown")
  /\ UNCHANGED <<call, frames, expired, worker, up, loop, binding, peer, recovery, backup, history>>

(* The answer reaches the sender, or a channel that is closed, revoked or  *)
(* given up.                                                               *)
Answer(c) ==
  /\ LoopFree /\ task[c].pc = "replying" /\ task' = [task EXCEPT ![c] = NoTask]
  /\ \/ call[c].pc = "sent" /\ Ends(c, task[c].reply)
     \/ (call[c].pc = "done" \/ "loss" \in Faults \/ peer = "revoked") /\ UNCHANGED call
  /\ UNCHANGED <<frames, expired, worker, up, loop, binding, store, history>>

----------------------------------------------------------------------------
(* The worker and the agent process it runs; they do not need the receiver. *)
(* Its read-only preflight may refuse, before any attempt; else the native  *)
(* submission takes place or it does not, and only the first may be         *)
(* reported as submitted.                                                   *)
WorkerEnds(c, end) ==
  /\ worker[c] = "live" /\ worker' = [worker EXCEPT ![c] = end]
  /\ UNCHANGED <<call, frames, expired, receiver, store, history>>

----------------------------------------------------------------------------
(* The operator of the receiving device.                                   *)

ReceiverStarts(b) ==
  /\ ~up /\ up' = TRUE /\ binding' = b
  /\ UNCHANGED <<call, frames, expired, loop, task, worker, store, history>>

(* Stopped (every handler is cancelled) or killed: rows stay as they are,  *)
(* nothing resumes them, and a worker that was not killed runs on.         *)
ReceiverGone ==
  /\ "down" \in Faults /\ up /\ up' = FALSE /\ loop' = None
  /\ task' = [c \in Calls |-> NoTask] /\ frames' = {}
  /\ UNCHANGED <<call, expired, worker, binding, store, history>>

Operator == UNCHANGED <<call, frames, expired, worker, receiver, history>>

(* `device revoke`, from another process, at any time.                     *)
Revoke ==
  /\ "revoke" \in Faults /\ peer = "paired" /\ peer' = "revoked"
  /\ UNCHANGED <<journal, recovery, backup>> /\ Operator

(* Both need the exclusive state lock: the receiver is down.               *)
Backup ==
  /\ "restore" \in Faults /\ ~up /\ backup' = [journal |-> journal, peer |-> peer]
  /\ UNCHANGED <<journal, peer, recovery>> /\ Operator
Restore ==
  /\ "restore" \in Faults /\ ~up
  /\ journal' = backup.journal /\ peer' = backup.peer /\ recovery' = TRUE
  /\ UNCHANGED backup /\ Operator

----------------------------------------------------------------------------
SenderStep(c) ==
  \/ \E op \in {"send", "status"}, i \in Ids, text \in Texts : StartCall(c, op, i, text)
  \/ NoRoute(c) \/ Submit(c) \/ GiveUp(c) \/ Expire(c) \/ LoseFrame(c)
ReceiverStep(c) ==
  \/ Dispatch(c) \/ Begin(c) \/ Spawn(c) \/ SpawnFails(c) \/ Answer(c)
  \/ \E result \in Results : Finish(c, result)

Next ==
  \/ \E c \in Calls : SenderStep(c) \/ ReceiverStep(c) \/ (\E end \in WorkerEndings : WorkerEnds(c, end))
  \/ \E b \in Bindings : ReceiverStarts(b)
  \/ ReceiverGone \/ Revoke \/ Backup \/ Restore

Spec == Init /\ [][Next]_vars

----------------------------------------------------------------------------
(* Properties.                                                             *)

TypeOK ==
  /\ call \in [Calls -> Call] /\ frames \subseteq Calls /\ expired \subseteq Calls
  /\ up \in BOOLEAN /\ loop \in Calls \cup {None} /\ task \in [Calls -> Task]
  /\ worker \in [Calls -> {"none", "live"} \cup WorkerEndings] /\ binding \in Bindings
  /\ journal \in [Ids -> Row] /\ peer \in {"paired", "revoked"} /\ recovery \in BOOLEAN
  /\ backup \in [journal : [Ids -> Row], peer : {"paired", "revoked"}]
  /\ closed \subseteq Calls /\ late \subseteq Calls

For(i) == {c \in Calls : call[c].op = "send" /\ call[c].id = i}
Submitters(i) == {c \in For(i) : worker[c] = "submitted"}

(* However often an id is sent, and whatever crashes, outlives its         *)
(* receiver or is restored, the session gets at most one message under it. *)
AtMostOneSubmission ==
  \A c, d \in Calls : worker[c] = "submitted" /\ worker[d] = "submitted" /\ call[c].id = call[d].id
                        => c = d

(* What the sender's operator is told is true: "submitted" means that very *)
(* text was submitted, "refused" that nothing was or will be under the id. *)
AnswersTrue ==
  \A c \in Calls :
    /\ call[c].answer = "submitted" =>
         \E s \in Submitters(call[c].id) : call[c].op = "send" => call[s].text = call[c].text
    /\ call[c].answer = "refused" => \A s \in For(call[c].id) : worker[s] \in {"none", "refused", "dead"}

(* recovery._native_classification, of a row of an archive.                *)
ClassificationMutant(r) ==
  IF r.state = "done" /\ r.result = "submitted" THEN "already_processed" ELSE "not_processed"
Classification(r) ==
  IF r.state # "done" \/ r.result = "unknown" THEN "unknown"
  ELSE IF r.result = "refused" THEN "not_processed" ELSE "already_processed"

(* The recovery plan of an archive never calls "not processed" a message   *)
(* the session got, or a surviving worker may still hand it, nor "already  *)
(* processed" one it did not get.                                          *)
ReceiptTrue(i) ==
  /\ Classification(journal[i]) = "already_processed" => Submitters(i) # {}
  /\ Classification(journal[i]) = "not_processed" =>
       \A s \in For(i) : worker[s] \in {"none", "refused", "dead"}

(* A status that says not_found once a request's lifetime is over settles  *)
(* it: that request never reached the session and never will.              *)
NotFoundSettles == \A c \in closed : worker[c] = "none" /\ task[c].pc \in {"none", "replying"}

(* docs/paired-devices.md:465, "Revocation prevents new authorized work":  *)
(* authorization is read before the journal's transaction, so a revocation *)
(* can be overtaken, but by one request at most.                           *)
RevocationOvertakenOnce == Cardinality(late) <= 1

(* A recorded outcome is final, and so is every row of an archive, pending *)
(* ones too: nothing but putting an archive in the state's place rewrites  *)
(* them, neither a late worker nor what is asked of the archive later.     *)
ReceiptsFinal ==
  [][(\A i \in Ids : recovery \/ journal[i].state = "done" => journal'[i] = journal[i]) \/ Restore]_vars

(* What an archive is told of its deliveries stays true: the receipts are, *)
(* and no later step of the journal rewrites the rows they are taken from. *)
ReceiptsKept == [](\A i \in Ids : ReceiptTrue(i)) /\ ReceiptsFinal

(* The journal keeps the same promise as the handoff ledger: an id is a    *)
(* licence, held while a worker started for it may submit.                 *)
Licence(i) ==
  IF \E c \in For(i) : task[c].pc = "waiting" \/ worker[c] = "live" THEN "held"
  ELSE IF journal[i].state = "absent" /\ ~recovery THEN "open" ELSE "spent"
Fact(i) == IF journal[i].result \in {"submitted", "refused"} THEN journal[i].result ELSE "none"

Promise == INSTANCE SubmissionPromise WITH
  licence <- [i \in Ids |-> Licence(i)], sent <- [i \in Ids |-> Cardinality(Submitters(i))],
  fact <- [i \in Ids |-> Fact(i)]
KeepsPromise == Promise!Spec

(* Fairness: the event loop runs what is ready, and a worker is collected  *)
(* when it ends or after 35 s.                                             *)
Fairness ==
  \A c \in Calls :
    /\ WF_vars(Begin(c)) /\ WF_vars(Spawn(c)) /\ WF_vars(\E r \in Results : Finish(c, r))

FairSpec == Spec /\ Fairness

(* Whatever the number of requests and of workers at a time, an accepted   *)
(* request does not wait for a slot forever: its row is settled, or its    *)
(* process could not be created.                                           *)
PendingSettles ==
  \A c \in Calls : task[c].pc \in {"waiting", "running"} ~> task[c].pc \notin {"waiting", "running"}
=============================================================================
