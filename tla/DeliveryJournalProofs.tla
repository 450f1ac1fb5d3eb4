----------------------- MODULE DeliveryJournalProofs -----------------------
(***************************************************************************)
(* What module DeliveryJournal promises, for any number of calls, ids,     *)
(* texts and bindings: the inductive invariant and its consequences.       *)
(***************************************************************************)
EXTENDS DeliveryJournal, FiniteSetTheorems, TLAPS

(* A call holds its id from the moment its row is inserted.                *)
Active(c) == task[c].pc \in {"waiting", "running"}
Holder(c) == Active(c) \/ worker[c] # "none"

(* A request is dispatched once: before that, nothing is done for it.      *)
OnceInv ==
  /\ \A c \in Calls : call[c].pc \in {"idle", "ready"} =>
       /\ c \notin frames /\ c \notin expired /\ loop # c /\ ~Holder(c)
       /\ task[c].pc = "none" /\ call[c].answer = None
  /\ \A c \in frames : loop # c /\ ~Holder(c)
  /\ \A c \in Calls : loop = c => call[c].op = "send" /\ call[c].id \in Ids /\ ~Holder(c)
                                  /\ call[c].text \in Texts
  /\ \A c \in Calls : call[c].pc # "idle" => call[c].id \in Ids /\ (call[c].op = "send" => call[c].text \in Texts)
  /\ ~up => loop = None /\ frames = {} /\ \A c \in Calls : task[c] = NoTask

(* One holder per id, and its row is in the journal, or was before an      *)
(* archive that accepts nothing new took the journal's place.              *)
OwnerInv ==
  /\ \A c, d \in Calls : Holder(c) /\ Holder(d) /\ call[c].id = call[d].id => c = d
  /\ \A c \in Calls : Holder(c) =>
       call[c].op = "send" /\ call[c].id \in Ids /\ (journal[call[c].id].state # "absent" \/ recovery)
  /\ \A c \in Calls : Active(c) => journal[call[c].id].state = "pending"
  /\ \A c \in Calls : task[c].pc = "waiting" => worker[c] = "none"
  /\ ~recovery => \A i \in Ids : backup.journal[i].state # "absent" => journal[i].state # "absent"

(* What a row of the journal, or of a snapshot of it, says about an id.    *)
Got(i, text) == \E s \in Calls : worker[s] = "submitted" /\ call[s].op = "send"
                                 /\ call[s].id = i /\ call[s].text = text
Never(i) ==
  /\ \A s \in Calls : call[s].id = i => worker[s] \in {"none", "refused", "dead"} /\ ~Active(s)
  /\ journal[i].state # "absent" \/ recovery
RowTrue(i, r) ==
  /\ r.state # "absent" => \A c \in Calls : Holder(c) /\ call[c].id = i => call[c].text = r.text
  /\ r.result = "submitted" => Got(i, r.text)
  /\ r.result = "refused" => Never(i)
RowsInv == \A i \in Ids : RowTrue(i, journal[i]) /\ RowTrue(i, backup.journal[i])

(* What an answer, given or on its way, says about an id.                  *)
AnswerTrue(c, a) ==
  /\ a = "submitted" => \E s \in Calls : /\ worker[s] = "submitted" /\ call[s].op = "send"
                                         /\ call[s].id = call[c].id
                                         /\ call[c].op = "send" => call[s].text = call[c].text
  /\ a = "refused" => Never(call[c].id)
AnswersInv == \A c \in Calls :
  /\ AnswerTrue(c, call[c].answer)
  /\ task[c].pc = "replying" => AnswerTrue(c, task[c].reply)

ClosedInv == \A c \in closed : c \in expired /\ ~Holder(c) /\ loop # c

LateInv ==
  /\ late = {} \/ \E c \in Calls : late = {c}
  /\ late # {} => recovery \/ (peer = "revoked" /\ loop = None)

IInv ==
  /\ TypeOK /\ OnceInv /\ OwnerInv /\ RowsInv /\ AnswersInv /\ ClosedInv /\ LateInv

LEMMA InitInv == Init => IInv
<1> SUFFICES ASSUME Init PROVE IInv
  OBVIOUS
<1> USE NoneAssumption
<1>1. /\ \A c \in Calls : call[c] = NoCall /\ task[c] = NoTask /\ worker[c] = "none"
      /\ \A i \in Ids : journal[i] = NoRow /\ backup.journal[i] = NoRow
  BY DEF Init
<1>2. TypeOK
  <2>1. NoCall \in Call
    BY DEF NoCall, Call
  <2>2. NoTask \in Task /\ NoRow \in Row
    BY DEF NoTask, Task, Row
  <2>3. call \in [Calls -> Call] /\ task \in [Calls -> Task] /\ journal \in [Ids -> Row]
    <3> HIDE DEF NoCall, NoTask, NoRow, Call, Task, Row
    <3> QED
      BY <2>1, <2>2 DEF Init
  <2>4. backup \in [journal : [Ids -> Row], peer : {"paired", "revoked"}]
    BY <2>3 DEF Init
  <2> QED
    BY <2>3, <2>4 DEF Init, TypeOK
<1>3. \A c \in Calls : ~Holder(c) /\ task[c].pc = "none" /\ call[c].pc = "idle" /\ call[c].answer = None
  BY <1>1 DEF NoCall, NoTask, Holder, Active
<1>4. OnceInv /\ OwnerInv /\ ClosedInv /\ LateInv
  BY <1>1, <1>3 DEF Init, OnceInv, OwnerInv, ClosedInv, LateInv, Holder, NoRow
<1>5. RowsInv
  BY <1>1 DEF RowsInv, RowTrue, NoRow, Answers, Results
<1>6. AnswersInv
  BY <1>3 DEF AnswersInv, AnswerTrue, Answers, Results
<1> QED
  BY <1>2, <1>4, <1>5, <1>6 DEF IInv

----------------------------------------------------------------------------
(* What every step but StartCall and Restore's change of rows respects.    *)
SameName(c) == call'[c].op = call[c].op /\ call'[c].id = call[c].id /\ call'[c].text = call[c].text
Keeps ==
  /\ \A c \in Calls : worker[c] = "submitted" => worker'[c] = "submitted"
  /\ \A c \in Calls : call[c].pc # "idle" => SameName(c)
  /\ \A i \in Ids : Never(i) => Never(i)'

LEMMA KeepsGot ==
  ASSUME IInv, Keeps
  PROVE  /\ \A i \in Ids, text \in Texts : Got(i, text) => Got(i, text)'
         /\ \A c \in Calls, a \in Answers \cup {None} :
              call[c].pc # "idle" /\ AnswerTrue(c, a) => AnswerTrue(c, a)'
<1>1. \A s \in Calls : worker[s] = "submitted" => worker'[s] = "submitted" /\ SameName(s)
  BY DEF IInv, OnceInv, Holder, Keeps
<1>2. \A c \in Calls : call[c].pc # "idle" => call[c].id \in Ids
  BY DEF IInv, OnceInv
<1>3. \A i \in Ids : Never(i) => Never(i)'
  BY DEF Keeps
<1>4. \A c \in Calls : call[c].pc # "idle" => SameName(c)
  BY DEF Keeps
<1> QED
  <2>1. \A i \in Ids, text \in Texts : Got(i, text) => Got(i, text)'
    BY <1>1 DEF Got, SameName
  <2>2. ASSUME NEW c \in Calls, NEW a \in Answers \cup {None}, call[c].pc # "idle", AnswerTrue(c, a)
        PROVE  AnswerTrue(c, a)'
    <3>1. SameName(c) /\ call[c].id \in Ids
      BY <2>2, <1>2, <1>4
    <3>2. a = "refused" => Never(call[c].id)'
      BY <3>1, <2>2, <1>3 DEF AnswerTrue, SameName
    <3>3. a = "submitted" =>
            \E s \in Calls :
              /\ worker'[s] = "submitted" /\ call'[s].op = "send"
              /\ call'[s].id = call'[c].id
              /\ call'[c].op = "send" => call'[s].text = call'[c].text
      BY <3>1, <2>2, <1>1 DEF AnswerTrue, SameName
    <3> QED
      BY <3>2, <3>3 DEF AnswerTrue
  <2> QED
    BY <2>1, <2>2

(* The answers a step leaves are old ones, or true ones.                   *)
LEMMA AnswersStep ==
  ASSUME IInv, TypeOK', Keeps,
         \A c \in Calls :
           /\ \/ call'[c].answer = call[c].answer
              \/ call[c].pc # "idle" /\ AnswerTrue(c, call[c].answer)'
           /\ task'[c].pc = "replying" =>
                \/ task'[c] = task[c]
                \/ call[c].pc # "idle" /\ AnswerTrue(c, task[c].reply)'
  PROVE  AnswersInv'
<1> SUFFICES ASSUME NEW c \in Calls
             PROVE  /\ AnswerTrue(c, call[c].answer)'
                    /\ task'[c].pc = "replying" => AnswerTrue(c, task[c].reply)'
  BY DEF AnswersInv
<1>1. call[c].answer \in Answers \cup {None} /\ task[c].reply \in Answers \cup {None}
  BY DEF IInv, TypeOK, Call, Task
<1>2. CASE call[c].pc = "idle"
  <2>1. call[c].answer = None /\ task[c].pc = "none"
    BY <1>2 DEF IInv, OnceInv
  <2>2. None # "submitted" /\ None # "refused"
    BY NoneAssumption DEF Answers, Results
  <2> QED
    BY <1>2, <2>1, <2>2 DEF AnswerTrue
<1>3. CASE call[c].pc # "idle"
  <2>1. /\ AnswerTrue(c, call[c].answer)
        /\ task[c].pc = "replying" => AnswerTrue(c, task[c].reply)
    BY DEF IInv, AnswersInv
  <2>2. \A a \in Answers \cup {None} : AnswerTrue(c, a) => AnswerTrue(c, a)'
    BY <1>3, KeepsGot
  <2>3. CASE call'[c].answer = call[c].answer
    BY <2>1, <2>2, <2>3, <1>1
  <2> QED
    BY <2>1, <2>2, <2>3, <1>1
<1> QED
  BY <1>2, <1>3

(* What a row said stays true if its id got no new holder.                 *)
LEMMA RowKept ==
  ASSUME IInv, Keeps, NEW i \in Ids, NEW r, RowTrue(i, r),
         r.result = "submitted" => r.text \in Texts,
         \A d \in Calls : Holder(d)' /\ call'[d].id = i => Holder(d)
  PROVE  RowTrue(i, r)'
<1>1. \A d \in Calls : Holder(d) => SameName(d)
  BY DEF IInv, OnceInv, Keeps
<1>2. r.state # "absent" => \A c \in Calls : Holder(c)' /\ call'[c].id = i => call'[c].text = r.text
  BY <1>1 DEF RowTrue, SameName
<1>3. r.result = "submitted" => Got(i, r.text)'
  BY KeepsGot DEF RowTrue
<1>4. r.result = "refused" => Never(i)'
  BY DEF RowTrue, Keeps
<1> QED
  BY <1>2, <1>3, <1>4 DEF RowTrue

(* In a journal or a snapshot, only a text is recorded as submitted.       *)
LEMMA RowTexts ==
  ASSUME TypeOK
  PROVE  \A i \in Ids : /\ journal[i].result = "submitted" => journal[i].text \in Texts
                        /\ backup.journal[i].result = "submitted" => backup.journal[i].text \in Texts
BY NoneAssumption DEF TypeOK, Row, NoRow, Answers, Results

----------------------------------------------------------------------------
(* Steps that start nothing for a holder and write no row.                 *)
Quiet ==
  /\ UNCHANGED <<worker, journal, recovery, backup>>
  /\ \A c \in Calls : Active(c)' => Active(c)
  /\ \A c \in Calls : task'[c].pc = "waiting" => task[c].pc = "waiting"
  /\ \A c \in Calls : call[c].pc # "idle" => SameName(c)

LEMMA QuietKeeps == IInv /\ Quiet => Keeps /\ OwnerInv' /\ RowsInv'
<1> SUFFICES ASSUME IInv, Quiet PROVE Keeps /\ OwnerInv' /\ RowsInv'
  OBVIOUS
<1>1. \A c \in Calls : (Holder(c)' => Holder(c)) /\ (Active(c)' => Active(c)) /\ worker'[c] = worker[c]
  BY DEF Quiet, Holder
<1>2. \A c \in Calls : Holder(c) => call[c].pc # "idle" /\ SameName(c)
  BY DEF IInv, OnceInv, Quiet
<1>3. \A c \in Calls : call[c].pc # "idle" => SameName(c)
  BY DEF Quiet
<1>4. \A i \in Ids : Never(i) => Never(i)'
  <2> SUFFICES ASSUME NEW i \in Ids, Never(i), NEW s \in Calls, call'[s].id = i
               PROVE  worker'[s] \in {"none", "refused", "dead"} /\ ~Active(s)'
    BY DEF Never, Quiet
  <2>1. CASE Holder(s)
    BY <2>1, <1>1, <1>2 DEF Never, SameName
  <2>2. CASE ~Holder(s)
    BY <2>2, <1>1 DEF Holder
  <2> QED
    BY <2>1, <2>2
<1>5. Keeps
  BY <1>1, <1>3, <1>4 DEF Keeps
<1>6. OwnerInv'
  BY <1>1, <1>2 DEF IInv, OwnerInv, Quiet, SameName, Holder
<1>7. RowsInv'
  <2>1. \A i \in Ids : RowTrue(i, journal[i]) /\ RowTrue(i, backup.journal[i])
    BY DEF IInv, RowsInv
  <2>2. TypeOK
    BY DEF IInv
  <2> QED
    BY <2>1, <2>2, <1>1, <1>5, RowKept, RowTexts DEF RowsInv, Quiet
<1> QED
  BY <1>5, <1>6, <1>7

LEMMA QuietStep ==
  ASSUME IInv, Quiet, TypeOK', OnceInv', ClosedInv', LateInv',
         \A c \in Calls :
           /\ \/ call'[c].answer = call[c].answer
              \/ call[c].pc # "idle" /\ AnswerTrue(c, call[c].answer)'
           /\ task'[c].pc = "replying" =>
                \/ task'[c] = task[c]
                \/ call[c].pc # "idle" /\ AnswerTrue(c, task[c].reply)'
  PROVE  IInv'
<1>1. Keeps /\ OwnerInv' /\ RowsInv'
  BY QuietKeeps
<1>2. AnswersInv'
  BY <1>1, AnswersStep
<1> QED
  BY <1>1, <1>2 DEF IInv

(* An answer that claims nothing is true.                                  *)
LEMMA Modest ==
  \A c \in Calls : \A a : a # "submitted" /\ a # "refused" => AnswerTrue(c, a)
BY DEF AnswerTrue

LEMMA StartCallStep ==
  ASSUME IInv, NEW c \in Calls, NEW op \in {"send", "status"}, NEW i \in Ids, NEW text \in Texts,
         StartCall(c, op, i, text)
  PROVE  IInv'
<1> DEFINE t == IF op = "send" THEN text ELSE None
<1>1. /\ call[c].pc = "idle"
      /\ call' = [call EXCEPT ![c] = [pc |-> "ready", op |-> op, id |-> i, answer |-> None, text |-> t]]
      /\ UNCHANGED <<frames, expired, worker, up, loop, task, binding, journal, peer, recovery, backup, closed, late>>
  BY DEF StartCall, Sender, receiver, store, history
<1>2. call \in [Calls -> Call] /\ t \in Texts \cup {None}
  BY DEF IInv, TypeOK
<1>3. /\ call'[c].pc = "ready" /\ call'[c].op = op /\ call'[c].id = i /\ call'[c].text = t /\ call'[c].answer = None
      /\ \A d \in Calls \ {c} : call'[d] = call[d]
  BY <1>1, <1>2
<1>4. TypeOK'
  <2>1. [pc |-> "ready", op |-> op, id |-> i, answer |-> None, text |-> t] \in Call
    BY <1>2 DEF Call
  <2>3. call' \in [Calls -> Call]
    <3> HIDE DEF Call, t
    <3> QED
      BY <1>1, <1>2, <2>1
  <2> QED
    BY <1>1, <2>3 DEF IInv, TypeOK
<1> HIDE DEF t
<1>5. \A d \in Calls : (Active(d)' <=> Active(d)) /\ (Holder(d)' <=> Holder(d))
  BY <1>1 DEF Active, Holder
<1>6. Quiet
  BY <1>1, <1>3, <1>5 DEF Quiet, SameName
<1>7. OnceInv'
  <2>1. c \notin frames /\ c \notin expired /\ loop # c /\ ~Holder(c) /\ task[c].pc = "none"
    BY <1>1 DEF IInv, OnceInv
  <2>2. op = "send" => t \in Texts
    BY DEF t
  <2> QED
    <3>1. \A d \in Calls : call'[d].pc \in {"idle", "ready"} => call[d].pc \in {"idle", "ready"}
      BY <1>1, <1>3
    <3>2. \A d \in Calls : call'[d].answer = call[d].answer
      BY <1>1, <1>3 DEF IInv, OnceInv
    <3>3. \A d \in Calls : loop = d => d # c
      BY <2>1
    <3>4. \A d \in Calls : call'[d].pc # "idle" =>
             call'[d].id \in Ids /\ (call'[d].op = "send" => call'[d].text \in Texts)
      BY <1>1, <1>3, <2>2 DEF IInv, OnceInv
    <3> QED
      BY <1>1, <1>3, <1>5, <3>1, <3>2, <3>3, <3>4 DEF IInv, TypeOK, OnceInv
<1>8. ClosedInv' /\ LateInv'
  BY <1>1, <1>5 DEF IInv, TypeOK, ClosedInv, LateInv
<1>9. \A d \in Calls : call'[d].answer = call[d].answer
  BY <1>1, <1>3 DEF IInv, OnceInv
<1> QED
  BY <1>1, <1>4, <1>6, <1>7, <1>8, <1>9, QuietStep

(* The rest of the sender: a call only changes its pc and its answer.      *)
SenderMoves(c) ==
  /\ call[c].pc \in {"ready", "sent", "done"}
  /\ UNCHANGED <<worker, up, loop, task, binding, journal, peer, recovery, backup, closed, late>>
  /\ \/ /\ UNCHANGED call /\ frames' \subseteq frames /\ expired' \in {expired, expired \cup {c}}
        /\ call[c].pc = "ready" => UNCHANGED expired
     \/ /\ call[c].pc = "ready" /\ up /\ frames' = frames \cup {c} /\ UNCHANGED expired
        /\ call' = [call EXCEPT ![c].pc = "sent"]
     \/ /\ UNCHANGED <<frames, expired>>
        /\ \E a \in {"no_route", "unknown"} : call' = [call EXCEPT ![c].pc = "done", ![c].answer = a]

LEMMA SenderMovesStep == ASSUME IInv, NEW c \in Calls, SenderMoves(c) PROVE IInv'
<1>1. call \in [Calls -> Call] /\ frames \subseteq Calls /\ expired \subseteq Calls
  BY DEF IInv, TypeOK
<1>2. /\ call' \in [Calls -> Call] /\ frames' \subseteq Calls /\ expired' \subseteq Calls
      /\ \A d \in Calls : SameName(d)
      /\ \A d \in Calls : call'[d].answer \in {call[d].answer, "no_route", "unknown"}
      /\ \A d \in Calls : call'[d].answer # call[d].answer => call[d].pc # "idle"
      /\ \A d \in Calls \ {c} : call'[d] = call[d]
      /\ \A d \in frames' : d \in frames \/ (d = c /\ call[c].pc = "ready" /\ call'[c].pc = "sent" /\ up)
      /\ \A d \in Calls : call'[d].pc \in {"idle", "ready"} => call'[d] = call[d]
  <2>1. CASE UNCHANGED call /\ frames' \subseteq frames /\ expired' \in {expired, expired \cup {c}}
    BY <1>1, <2>1 DEF SameName
  <2>2. CASE /\ call[c].pc = "ready" /\ up /\ frames' = frames \cup {c} /\ UNCHANGED expired
             /\ call' = [call EXCEPT ![c].pc = "sent"]
    BY <1>1, <2>2 DEF SameName, Call
  <2>3. ASSUME NEW a \in {"no_route", "unknown"}, UNCHANGED <<frames, expired>>,
               call' = [call EXCEPT ![c].pc = "done", ![c].answer = a]
        PROVE  <1>2!:
    BY <1>1, <2>3 DEF SameName, Call, Answers, Results, SenderMoves
  <2> QED
    BY <2>1, <2>2, <2>3 DEF SenderMoves
<1>3. TypeOK'
  BY <1>2 DEF IInv, TypeOK, SenderMoves
<1>4. \A d \in Calls : (Active(d)' <=> Active(d)) /\ (Holder(d)' <=> Holder(d))
  BY DEF Active, Holder, SenderMoves
<1>5. Quiet
  BY <1>2, <1>4 DEF Quiet, SenderMoves
<1>6. OnceInv'
  <2>1. \A d \in expired' : d \in expired \/ (d = c /\ call[c].pc # "ready" /\ UNCHANGED call)
    BY DEF SenderMoves
  <2>2. \A d \in frames' : loop # d /\ ~Holder(d)
    BY <1>1, <1>2 DEF IInv, OnceInv
  <2>3. ~up => frames' = {}
    BY DEF IInv, OnceInv, SenderMoves
  <2>4. \A d \in Calls : call[d].pc = "idle" => call'[d].pc = "idle"
    BY <1>1, <1>2 DEF SenderMoves
  <2> HIDE DEF SenderMoves
  <2>5. /\ UNCHANGED <<loop, up, task>>
        /\ c \in frames' /\ c \notin frames => call'[c].pc = "sent"
        /\ c \in expired' /\ c \notin expired => call'[c].pc \notin {"idle", "ready"}
    BY <1>2, <2>1 DEF SenderMoves
  <2> QED
    BY <1>2, <1>4, <2>1, <2>2, <2>3, <2>4, <2>5 DEF IInv, OnceInv, SameName
<1>7. ClosedInv' /\ LateInv'
  BY <1>4 DEF IInv, TypeOK, ClosedInv, LateInv, SenderMoves
<1>8. \A d \in Calls : \/ call'[d].answer = call[d].answer
                       \/ call[d].pc # "idle" /\ AnswerTrue(d, call[d].answer)'
  BY <1>2 DEF AnswerTrue
<1> QED
  BY <1>3, <1>5, <1>6, <1>7, <1>8, QuietStep DEF SenderMoves

LEMMA SenderSteps ==
  ASSUME IInv, NEW c \in Calls, NoRoute(c) \/ Submit(c) \/ GiveUp(c) \/ Expire(c) \/ LoseFrame(c)
  PROVE  IInv'
<1>1. call[c].pc \in {"idle", "ready", "sent", "done"}
  BY DEF IInv, TypeOK, Call
<1>2. c \in frames => call[c].pc \in {"sent", "done"}
  BY <1>1 DEF IInv, OnceInv
<1>3. NoRoute(c) \/ Submit(c) \/ GiveUp(c) \/ Expire(c) \/ LoseFrame(c) => SenderMoves(c)
  BY <1>1, <1>2 DEF NoRoute, Submit, GiveUp, Expire, LoseFrame, Ends, Sender, SenderMoves,
                    receiver, store, history
<1> QED
  BY <1>3, SenderMovesStep

----------------------------------------------------------------------------
(* The receiver.                                                           *)

(* What the journal says about a status query's id.                        *)
LEMMA StatusTrue ==
  ASSUME IInv, NEW c \in Calls, call[c].id \in Ids,
         call[c].op = "send" => journal[call[c].id].text = call[c].text
  PROVE  AnswerTrue(c, Status(call[c].id)) /\ Status(call[c].id) \in Answers
<1> DEFINE r == journal[call[c].id]
<1>1. r \in Row /\ RowTrue(call[c].id, r)
  BY DEF IInv, TypeOK, RowsInv
<1>2. r.state = "done" => r.result \in Results
  BY <1>1 DEF Row, NoRow
<1>3. r.state = "done" => Status(call[c].id) = r.result
  BY DEF Status
<1>4. r.state # "done" => Status(call[c].id) \in {"unknown", "gap", "not_found"}
  BY DEF Status
<1>5. Status(call[c].id) \in Answers
  BY <1>2, <1>3, <1>4 DEF Answers, Results
<1>6. CASE r.state = "done"
  <2>1. r.result = "submitted" => Got(call[c].id, r.text)
    BY <1>1 DEF RowTrue
  <2>2. r.result = "refused" => Never(call[c].id)
    BY <1>1 DEF RowTrue
  <2> QED
    BY <1>3, <1>5, <1>6, <2>1, <2>2 DEF AnswerTrue, Got
<1>7. CASE r.state # "done"
  BY <1>4, <1>5, <1>7, Modest
<1> QED
  BY <1>5, <1>6, <1>7

(* The parts of OnceInv a step of the loop may touch.                      *)
LEMMA OnceKept ==
  ASSUME IInv, UNCHANGED <<expired, up>>, up, frames' \subseteq frames,
         \A d \in Calls : call'[d] = call[d] \/ (SameName(d) /\ {call[d].pc, call'[d].pc} \subseteq {"sent", "done"}),
         \A d \in Calls : task'[d] = task[d] \/ call[d].pc \in {"sent", "done"},
         \A d \in Calls : Holder(d)' => Holder(d) \/ (call[d].pc \in {"sent", "done"} /\ d \notin frames' /\ loop' # d),
         \A d \in Calls : loop' = d => loop = d \/ (/\ call[d].pc \in {"sent", "done"} /\ ~Holder(d) /\ d \notin frames'
                                                  /\ call[d].op = "send")
  PROVE  OnceInv'
<1>1. \A d \in Calls : call'[d].pc \in {"idle", "ready"} => call'[d] = call[d]
  OBVIOUS
<1>2. \A d \in Calls : SameName(d)
  BY DEF SameName
<1>3. \A d \in Calls : call[d].pc = "idle" => call'[d].pc = "idle"
  OBVIOUS
<1>4. ASSUME NEW d \in Calls, call'[d].pc \in {"idle", "ready"}
      PROVE  /\ d \notin frames' /\ d \notin expired' /\ loop' # d /\ ~Holder(d)'
             /\ task'[d].pc = "none" /\ call'[d].answer = None
  <2>1. call'[d] = call[d] /\ call[d].pc \notin {"sent", "done"}
    BY <1>1, <1>4
  <2>2. /\ d \notin frames /\ d \notin expired /\ loop # d /\ ~Holder(d)
        /\ task[d].pc = "none" /\ call[d].answer = None
    BY <1>4, <2>1 DEF IInv, OnceInv
  <2> QED
    BY <2>1, <2>2
<1>5. \A d \in frames' : loop' # d /\ ~Holder(d)'
  <2>1. \A d \in frames : d \in Calls /\ loop # d /\ ~Holder(d)
    BY DEF IInv, OnceInv, TypeOK
  <2> QED
    BY <2>1
<1>6. ASSUME NEW d \in Calls, loop' = d
      PROVE  call'[d].op = "send" /\ call'[d].id \in Ids /\ ~Holder(d)' /\ call'[d].text \in Texts
  <2>1. ~Holder(d) /\ call[d].op = "send" /\ call[d].id \in Ids /\ call[d].text \in Texts
    BY <1>6 DEF IInv, OnceInv
  <2> QED
    BY <2>1, <1>2, <1>6 DEF SameName
<1>7. \A d \in Calls : call'[d].pc # "idle" =>
         call'[d].id \in Ids /\ (call'[d].op = "send" => call'[d].text \in Texts)
  BY <1>2, <1>3 DEF IInv, OnceInv, SameName
<1> QED
  BY <1>4, <1>5, <1>6, <1>7 DEF OnceInv

LEMMA DispatchStep == ASSUME IInv, NEW c \in Calls, Dispatch(c) PROVE IInv'
<1>1. /\ up /\ loop = None /\ c \in frames /\ task[c].pc = "none" /\ frames' = frames \ {c}
      /\ OnStatus(c) \/ OnSend(c)
      /\ UNCHANGED <<call, expired, worker, up, binding, journal, peer, recovery, backup, late>>
  BY DEF Dispatch, LoopFree, store
<1>2. /\ TypeOK /\ call[c].pc \in {"sent", "done"} /\ call[c].id \in Ids /\ ~Holder(c)
      /\ call[c].op = "send" => call[c].text \in Texts
  BY <1>1 DEF IInv, TypeOK, OnceInv, Call
<1>3. \A a \in Answers :
         Reply(c, a) => /\ task' \in [Calls -> Task] /\ task'[c] = [pc |-> "replying", reply |-> a]
                        /\ \A d \in Calls \ {c} : task'[d] = task[d]
                        /\ \A d \in Calls : Active(d)' => Active(d)
                        /\ \A d \in Calls : task'[d].pc = "waiting" => task[d].pc = "waiting"
  <2> SUFFICES ASSUME NEW a \in Answers, Reply(c, a) PROVE <1>3!(a)!2
    OBVIOUS
  <2>1. [pc |-> "replying", reply |-> a] \in Task
    BY DEF Task
  <2>2. /\ task' \in [Calls -> Task] /\ task'[c] = [pc |-> "replying", reply |-> a]
        /\ \A d \in Calls \ {c} : task'[d] = task[d]
    <3> HIDE DEF Task
    <3> QED
      BY <1>2, <2>1 DEF Reply, TypeOK
  <2> QED
    BY <2>2 DEF Active
<1>4. CASE OnStatus(c)
  <2> DEFINE a == IF Admissible(c) THEN Status(call[c].id) ELSE "rejected"
  <2>1. call[c].op = "status" /\ Reply(c, a) /\ UNCHANGED loop
    BY <1>4 DEF OnStatus
  <2>2. PICK x \in Answers : x = a /\ AnswerTrue(c, x)
    BY <1>2, <2>1, StatusTrue, Modest DEF Answers
  <2> HIDE DEF a
  <2>3. Quiet
    BY <1>1, <1>3, <2>1, <2>2 DEF Quiet, SameName
  <2>4. OnceInv'
    BY <1>1, <1>2, <1>3, <2>1, <2>2, <2>3, OnceKept DEF SameName, Holder, Quiet
  <2>5. closed' \subseteq Calls /\ ClosedInv'
    <3>0. UNCHANGED loop /\ loop = None /\ \A d \in Calls : (Holder(d)' => Holder(d)) /\ d # None
      BY <1>1, <2>1, <2>3, NoneAssumption DEF Quiet, Holder
    <3>1. CASE Admissible(c) /\ Status(call[c].id) = "not_found"
      <4>1. journal[call[c].id].state = "absent" /\ ~recovery
        <5>1. journal[call[c].id] \in Row
          BY <1>2 DEF TypeOK
        <5>2. journal[call[c].id].state # "done"
          <6>1. journal[call[c].id].state = "done" => Status(call[c].id) \in Results
            BY <5>1 DEF Status, Row, NoRow
          <6> QED
            BY <3>1, <6>1 DEF Results
        <5> QED
          BY <5>1, <5>2, <3>1 DEF Status, Row, NoRow
      <4>2. closed' = closed \cup {s \in expired : call[s].op = "send" /\ call[s].id = call[c].id}
        BY <1>4, <3>1 DEF OnStatus
      <4>3. \A s \in Calls : call[s].id = call[c].id => ~Holder(s)
        BY <4>1 DEF IInv, OwnerInv
      <4> QED
        BY <1>1, <1>2, <3>0, <4>2, <4>3 DEF IInv, TypeOK, ClosedInv
    <3>2. CASE ~(Admissible(c) /\ Status(call[c].id) = "not_found")
      BY <1>1, <1>2, <1>4, <3>0, <3>2 DEF IInv, TypeOK, ClosedInv, OnStatus
    <3> QED
      BY <3>1, <3>2
  <2>6. TypeOK'
    BY <1>1, <1>2, <1>3, <2>1, <2>2, <2>5 DEF TypeOK
  <2>7. LateInv'
    BY <1>1, <2>1 DEF IInv, LateInv
  <2>8. AnswerTrue(c, x)'
    BY <1>2, <2>2, <2>3, QuietKeeps, KeepsGot, <1>1
  <2>9. \A d \in Calls :
          task'[d].pc = "replying" =>
            task'[d] = task[d] \/ (call[d].pc # "idle" /\ AnswerTrue(d, task[d].reply)')
    <3>1. task'[c].reply = x
      BY <1>2, <2>1, <2>2 DEF Reply, TypeOK
    <3>2. call[c].pc # "idle" /\ AnswerTrue(c, task[c].reply)'
      BY <1>2, <2>8, <3>1 DEF AnswerTrue
    <3>3. \A d \in Calls \ {c} : task'[d] = task[d]
      BY <1>3, <2>1, <2>2
    <3> QED
      BY <3>2, <3>3, Zenon
  <2> QED
    BY <1>1, <2>3, <2>4, <2>5, <2>6, <2>7, <2>9, QuietStep
<1>5. CASE OnSend(c) /\ Reply(c, "rejected") /\ UNCHANGED loop
  <2>1. UNCHANGED <<closed, loop>> /\ Reply(c, "rejected") /\ "rejected" \in Answers
    BY <1>5 DEF OnSend, Answers
  <2>2. Quiet
    BY <1>1, <1>3, <2>1 DEF Quiet, SameName
  <2>3. OnceInv'
    BY <1>1, <1>2, <1>3, <2>1, <2>2, OnceKept DEF SameName, Holder, Quiet
  <2>4. ClosedInv' /\ LateInv'
    BY <1>1, <1>3, <2>1 DEF IInv, TypeOK, ClosedInv, LateInv, Holder
  <2>5. TypeOK'
    BY <1>1, <1>2, <1>3, <2>1 DEF TypeOK
  <2>6. task'[c].reply = "rejected"
    BY <1>2, <2>1 DEF Reply, TypeOK
  <2>7. AnswerTrue(c, task[c].reply)'
    BY <2>6 DEF AnswerTrue
  <2>8. \A d \in Calls : task'[d].pc = "replying" =>
          task'[d] = task[d] \/ (call[d].pc # "idle" /\ AnswerTrue(d, task[d].reply)')
    <3>1. call[c].pc # "idle" /\ \A d \in Calls \ {c} : task'[d] = task[d]
      BY <1>2, <1>3, <2>1
    <3> QED
      BY <2>7, <3>1, Zenon
  <2> QED
    BY <1>1, <2>2, <2>3, <2>4, <2>5, <2>8, QuietStep
<1>6. CASE OnSend(c) /\ Admissible(c) /\ loop' = c /\ UNCHANGED task
  <2>1. UNCHANGED <<closed, task>> /\ loop' = c /\ peer = "paired" /\ c \notin expired /\ call[c].op = "send"
    BY <1>6 DEF OnSend, Admissible
  <2>2. Quiet
    BY <1>1, <2>1 DEF Quiet, SameName, Active
  <2>3. OnceInv'
    BY <1>1, <1>2, <2>1, <2>2, OnceKept DEF SameName, Holder, Quiet
  <2>4. \A d \in Calls : Holder(d)' => Holder(d)
    BY <2>2 DEF Quiet, Holder
  <2>5. ClosedInv' /\ LateInv'
    BY <1>1, <2>1, <2>4 DEF IInv, TypeOK, ClosedInv, LateInv
  <2>6. TypeOK'
    BY <1>1, <1>2, <2>1 DEF TypeOK
  <2> QED
    BY <1>1, <2>1, <2>2, <2>3, <2>5, <2>6, QuietStep
<1> QED
  BY <1>1, <1>4, <1>5, <1>6 DEF OnSend

(* What the receiver works on was submitted.                               *)
LEMMA Submitted ==
  ASSUME IInv, NEW c \in Calls, loop = c \/ Holder(c) \/ task[c].pc # "none"
  PROVE  /\ call[c].pc \in {"sent", "done"} /\ call[c].id \in Ids
         /\ call[c].op = "send" => call[c].text \in Texts
         /\ loop = c => call[c].op = "send" /\ ~Holder(c) /\ c \notin closed
         /\ Holder(c) => loop # c /\ c \notin closed
<1>1. call[c].pc \in {"idle", "ready", "sent", "done"}
  BY DEF IInv, TypeOK, Call
<1>2. call[c].pc \notin {"idle", "ready"}
  BY DEF IInv, OnceInv
<1>3. call[c].id \in Ids /\ (call[c].op = "send" => call[c].text \in Texts)
  BY <1>2 DEF IInv, OnceInv
<1>4. loop = c => call[c].op = "send" /\ ~Holder(c) /\ c \notin closed
  BY DEF IInv, OnceInv, ClosedInv
<1>5. Holder(c) => loop # c /\ c \notin closed
  BY <1>4 DEF IInv, ClosedInv
<1> QED
  BY <1>1, <1>2, <1>3, <1>4, <1>5

(* A step that only answers a call.                                        *)
LEMMA ReplyStep ==
  ASSUME IInv, NEW c \in Calls, NEW a \in Answers, Reply(c, a), AnswerTrue(c, a),
         up, call[c].pc \in {"sent", "done"}, loop' \in {loop, None},
         UNCHANGED <<call, frames, expired, worker, up, binding, journal, peer, recovery, backup, closed, late>>
  PROVE  IInv'
<1>1. /\ task' \in [Calls -> Task] /\ task'[c].pc = "replying" /\ task'[c].reply = a
      /\ \A d \in Calls \ {c} : task'[d] = task[d]
  <2>1. [pc |-> "replying", reply |-> a] \in Task
    BY DEF Task
  <2> HIDE DEF Task
  <2> QED
    BY <2>1 DEF Reply, IInv, TypeOK
<1>2. \A d \in Calls : (Active(d)' => Active(d)) /\ (Holder(d)' => Holder(d))
  BY <1>1 DEF Active, Holder
<1>3. Quiet
  BY <1>1, <1>2 DEF Quiet, SameName
<1>4. \A d \in Calls : loop' = d => loop = d
  BY NoneAssumption
<1>5. OnceInv'
  BY <1>1, <1>2, <1>4, OnceKept DEF SameName
<1>6. ClosedInv' /\ LateInv'
  BY <1>2, <1>4 DEF IInv, TypeOK, ClosedInv, LateInv
<1>7. TypeOK'
  BY <1>1 DEF IInv, TypeOK
<1>8. AnswerTrue(c, task[c].reply)'
  <2>1. AnswerTrue(c, a)'
    BY <1>3, QuietKeeps, KeepsGot
  <2> QED
    BY <1>1, <2>1 DEF AnswerTrue
<1>9. \A d \in Calls : task'[d].pc = "replying" =>
        task'[d] = task[d] \/ (call[d].pc # "idle" /\ AnswerTrue(d, task[d].reply)')
  <2>1. call[c].pc # "idle" /\ \A d \in Calls \ {c} : task'[d] = task[d]
    BY <1>1
  <2> QED
    BY <1>8, <2>1, Zenon
<1> QED
  BY <1>3, <1>5, <1>6, <1>7, <1>9, QuietStep

(* Accept a request: Begin's insertion of a row, after which c is the only *)
(* holder of its id.                                                       *)
Accepts(c) ==
  /\ up /\ loop = c /\ loop' = None /\ Unseen(call[c].id) /\ ~recovery
  /\ journal' = [journal EXCEPT ![call[c].id] = [state |-> "pending", text |-> call[c].text,
                                                 binding |-> binding, result |-> None]]
  /\ task' = [task EXCEPT ![c].pc = "waiting"]
  /\ late' = IF peer = "revoked" THEN late \cup {c} ELSE late
  /\ UNCHANGED <<call, frames, expired, worker, up, binding, peer, recovery, backup, closed>>

LEMMA AcceptsStep == ASSUME IInv, NEW c \in Calls, Accepts(c) PROVE IInv'
<1>0. PICK i \in Ids : i = call[c].id
  BY Submitted DEF Accepts
<1> USE <1>0
<1> DEFINE r == [state |-> "pending", text |-> call[c].text, binding |-> binding, result |-> None]
<1>1. /\ call[c].pc \in {"sent", "done"} /\ i \in Ids /\ call[c].text \in Texts /\ c \notin frames
      /\ call[c].op = "send" /\ ~Holder(c) /\ c \notin closed
  BY Submitted DEF Accepts, IInv, OnceInv
<1>2. journal[i].state = "absent" /\ ~recovery /\ loop = c /\ loop' = None /\ up
  BY DEF Accepts, Unseen
<1>3. /\ task' \in [Calls -> Task] /\ task'[c].pc = "waiting" /\ \A d \in Calls \ {c} : task'[d] = task[d]
  BY DEF Accepts, IInv, TypeOK, Task
<1>4. /\ journal' \in [Ids -> Row] /\ journal'[i] = r /\ \A j \in Ids \ {i} : journal'[j] = journal[j]
  <2>1. r \in Row
    BY <1>1 DEF Row, IInv, TypeOK
  <2> HIDE DEF Row
  <2> QED
    BY <1>1, <2>1 DEF Accepts, IInv, TypeOK
<1>5. /\ \A d \in Calls \ {c} : (Active(d)' <=> Active(d)) /\ (Holder(d)' <=> Holder(d))
      /\ Active(c)' /\ Holder(c)' /\ worker[c] = "none"
  BY <1>1, <1>3 DEF Active, Holder, Accepts
<1>6. \A d \in Calls : call[d].id = i => ~Holder(d)
  BY <1>2 DEF IInv, OwnerInv
<1>7. backup.journal[i].state = "absent" /\ backup.journal[i].result = None
  <2>1. backup.journal[i].state = "absent" /\ backup.journal[i] \in Row
    BY <1>1, <1>2 DEF IInv, OwnerInv, TypeOK
  <2> QED
    BY <2>1 DEF Row, NoRow
<1> HIDE DEF r
<1>8. Keeps
  <2>1. \A j \in Ids : Never(j) => Never(j)'
    <3> SUFFICES ASSUME NEW j \in Ids, Never(j) PROVE Never(j)'
      OBVIOUS
    <3>1. j # i
      BY <1>2 DEF Never
    <3> QED
      BY <3>1, <1>4, <1>5 DEF Never, Accepts
  <2> QED
    BY <2>1 DEF Keeps, SameName, Accepts
<1>9. UNCHANGED <<call, worker, recovery, backup>>
  BY DEF Accepts
<1>10. OwnerInv'
  <2>1. \A d, e \in Calls : Holder(d)' /\ Holder(e)' /\ call'[d].id = call'[e].id => d = e
    BY <1>5, <1>6, <1>9 DEF IInv, OwnerInv
  <2>2. \A d \in Calls : Holder(d)' =>
          call'[d].op = "send" /\ call'[d].id \in Ids /\ (journal'[call'[d].id].state # "absent" \/ recovery')
    BY <1>1, <1>2, <1>4, <1>5, <1>9 DEF IInv, OwnerInv, r
  <2>3. \A d \in Calls : Active(d)' => journal'[call'[d].id].state = "pending"
    <3> SUFFICES ASSUME NEW d \in Calls, Active(d)' PROVE journal'[call[d].id].state = "pending"
      BY <1>9
    <3>1. CASE d = c
      BY <3>1, <1>4 DEF r
    <3>2. CASE d # c
      <4>1. Active(d) /\ Holder(d)
        BY <3>2, <1>5 DEF Holder
      <4>2. call[d].id \in Ids \ {i} /\ journal[call[d].id].state = "pending"
        BY <4>1, <1>6 DEF IInv, OwnerInv
      <4> QED
        BY <4>2, <1>4
    <3> QED
      BY <3>1, <3>2
  <2>4. \A d \in Calls : task'[d].pc = "waiting" => worker'[d] = "none"
    BY <1>3, <1>5, <1>9 DEF IInv, OwnerInv
  <2>5. ~recovery' => \A j \in Ids : backup'.journal[j].state # "absent" => journal'[j].state # "absent"
    BY <1>2, <1>4, <1>7, <1>9 DEF IInv, OwnerInv, r
  <2> QED
    BY <2>1, <2>2, <2>3, <2>4, <2>5 DEF OwnerInv
<1>11. RowsInv'
  <2>1. RowTrue(i, journal[i])'
    <3>1. None # "submitted" /\ None # "refused"
      BY NoneAssumption DEF Answers, Results
    <3> QED
      BY <3>1, <1>4, <1>5, <1>6, <1>9 DEF RowTrue, r
  <2>2. RowTrue(i, backup.journal[i])'
    BY <1>7, <1>9, NoneAssumption DEF RowTrue, Answers, Results
  <2>3. \A j \in Ids \ {i} : RowTrue(j, journal[j])' /\ RowTrue(j, backup.journal[j])'
    <3>1. \A j \in Ids : RowTrue(j, journal[j]) /\ RowTrue(j, backup.journal[j])
      BY DEF IInv, RowsInv
    <3>2. TypeOK
      BY DEF IInv
    <3>3. \A j \in Ids \ {i}, d \in Calls : Holder(d)' /\ call'[d].id = j => Holder(d)
      BY <1>5, <1>9
    <3> QED
      BY <1>4, <1>8, <1>9, <3>1, <3>2, <3>3, RowKept, RowTexts
  <2> QED
    BY <2>1, <2>2, <2>3 DEF RowsInv
<1>12. LateInv' /\ late' \subseteq Calls
  <2>1. late = {}
    BY <1>2, NoneAssumption DEF IInv, LateInv
  <2> QED
    BY <1>2, <2>1 DEF LateInv, Accepts
<1>13. ClosedInv'
  <2>1. None \notin Calls
    BY NoneAssumption
  <2> QED
    BY <1>1, <1>2, <1>5, <2>1 DEF IInv, ClosedInv, Accepts, TypeOK
<1>14. OnceInv'
  BY <1>1, <1>2, <1>3, <1>5, NoneAssumption, OnceKept DEF Accepts
<1>15. TypeOK'
  BY <1>2, <1>3, <1>4, <1>12 DEF IInv, TypeOK, Accepts
<1>16. AnswersInv'
  BY <1>3, <1>8, <1>9, <1>15, AnswersStep
<1> QED
  BY <1>10, <1>11, <1>12, <1>13, <1>14, <1>15, <1>16 DEF IInv

LEMMA BeginStep == ASSUME IInv, NEW c \in Calls, Begin(c) PROVE IInv'
<1>1. /\ up /\ loop = c /\ loop' = None
      /\ UNCHANGED <<call, frames, expired, worker, up, binding, peer, recovery, backup, closed>>
  BY DEF Begin
<1>2. call[c].pc \in {"sent", "done"} /\ call[c].id \in Ids
  BY <1>1, Submitted
<1>3. CASE SameRequest(c) /\ Reply(c, Status(call[c].id)) /\ UNCHANGED <<journal, late>>
  <2>1. AnswerTrue(c, Status(call[c].id)) /\ Status(call[c].id) \in Answers
    BY <1>2, <1>3, StatusTrue DEF SameRequest
  <2>2. PICK x \in Answers : x = Status(call[c].id) /\ AnswerTrue(c, x) /\ Reply(c, x)
    BY <1>3, <2>1
  <2> QED
    BY <1>1, <1>2, <1>3, <2>2, ReplyStep
<1>4. CASE (Reply(c, "rejected") \/ Reply(c, "unknown")) /\ UNCHANGED <<journal, late>>
  <2>1. PICK x \in {"rejected", "unknown"} : Reply(c, x)
    BY <1>4
  <2>2. x \in Answers /\ AnswerTrue(c, x)
    BY <2>1, Modest DEF Answers, Results
  <2> QED
    BY <1>1, <1>2, <1>4, <2>1, <2>2, ReplyStep
<1>5. CASE Accepts(c)
  BY <1>5, AcceptsStep
<1> QED
  BY <1>1, <1>3, <1>4, <1>5 DEF Begin, Accepts, RefusedNew

(* A step that moves an accepted request's worker on: it starts, or ends.  *)
WorkerMoves(c) ==
  /\ \/ task[c].pc = "waiting" /\ worker'[c] = "live" /\ task' = [task EXCEPT ![c].pc = "running"]
     \/ worker[c] = "live" /\ worker'[c] \in WorkerEndings /\ UNCHANGED task
  /\ worker' = [worker EXCEPT ![c] = worker'[c]]
  /\ UNCHANGED <<call, frames, expired, up, loop, binding, journal, peer, recovery, backup, closed, late>>

LEMMA WorkerMovesStep == ASSUME IInv, NEW c \in Calls, WorkerMoves(c) PROVE IInv'
<1>1. /\ worker[c] \notin {"refused", "dead", "submitted"} /\ Holder(c)
      /\ Active(c) \/ worker[c] = "live"
      /\ worker'[c] \in {"live", "submitted", "refused", "dead"}
      /\ \A d \in Calls \ {c} : worker'[d] = worker[d] /\ task'[d] = task[d]
      /\ worker' \in [Calls -> {"none", "live"} \cup WorkerEndings] /\ task' \in [Calls -> Task]
  <2>1. TypeOK
    BY DEF IInv
  <2>2. CASE task[c].pc = "waiting" /\ worker'[c] = "live" /\ task' = [task EXCEPT ![c].pc = "running"]
    <3>1. worker[c] = "none"
      BY <2>2 DEF IInv, OwnerInv
    <3> QED
      BY <2>1, <2>2, <3>1 DEF WorkerMoves, TypeOK, Task, Active, Holder, WorkerEndings
  <2>3. CASE worker[c] = "live" /\ worker'[c] \in WorkerEndings /\ UNCHANGED task
    BY <2>1, <2>3 DEF WorkerMoves, TypeOK, Holder, WorkerEndings
  <2> QED
    BY <2>2, <2>3 DEF WorkerMoves
<1>2. \A d \in Calls : (Active(d)' <=> Active(d)) /\ (Holder(d)' <=> Holder(d))
  <2>1. TypeOK
    BY DEF IInv
  <2> QED
    BY <1>1, <2>1 DEF WorkerMoves, Active, Holder, TypeOK, Task, WorkerEndings
<1>3. \A d \in Calls : /\ task'[d].pc = "waiting" => task[d].pc = "waiting" /\ worker'[d] = "none"
                       /\ task'[d] = task[d] \/ task'[d].pc = "running"
  <2>1. task \in [Calls -> Task] /\ \A d \in Calls : task[d].pc = "waiting" => worker[d] = "none"
    BY DEF IInv, TypeOK, OwnerInv
  <2>2. task'[c].pc = "waiting" => FALSE
    BY <2>1 DEF WorkerMoves, Task
  <2>3. task'[c] = task[c] \/ task'[c].pc = "running"
    BY <2>1 DEF WorkerMoves, Task
  <2> QED
    BY <1>1, <2>1, <2>2, <2>3
<1>4. call[c].pc \in {"sent", "done"} /\ loop # c /\ c \notin frames
  BY <1>1, Submitted DEF IInv, OnceInv
<1>5. UNCHANGED <<call, frames, expired, up, loop, binding, journal, peer, recovery, backup, closed, late>>
  BY DEF WorkerMoves
<1>6. \A i \in Ids : Never(i) => Never(i)'
  <2> SUFFICES ASSUME NEW i \in Ids, Never(i) PROVE Never(i)'
    OBVIOUS
  <2>1. call[c].id # i
    BY <1>1 DEF Never
  <2> QED
    BY <2>1, <1>1, <1>2, <1>5 DEF Never
<1>7. Keeps
  BY <1>1, <1>5, <1>6 DEF Keeps, SameName
<1>8. OwnerInv'
  BY <1>2, <1>3, <1>5 DEF IInv, OwnerInv
<1>9. RowsInv'
  <2>1. TypeOK /\ \A i \in Ids : RowTrue(i, journal[i]) /\ RowTrue(i, backup.journal[i])
    BY DEF IInv, RowsInv
  <2> QED
    BY <1>2, <1>5, <1>7, <2>1, RowKept, RowTexts DEF RowsInv
<1>10. TypeOK'
  BY <1>1, <1>5 DEF IInv, TypeOK
<1>11. AnswersInv'
  BY <1>3, <1>5, <1>7, <1>10, AnswersStep
<1>12. OnceInv'
  <2>1. \A d \in Calls : d # c => task'[d] = task[d]
    BY <1>1
  <2>2. CASE up
    BY <1>2, <1>4, <1>5, <2>1, <2>2, OnceKept DEF SameName
  <2>3. CASE ~up
    <3>1. task[c].pc # "waiting"
      BY <2>3 DEF IInv, OnceInv, NoTask
    <3>2. UNCHANGED task
      BY <3>1 DEF WorkerMoves
    <3> QED
      BY <1>2, <1>5, <3>2 DEF IInv, TypeOK, OnceInv
  <2> QED
    BY <2>2, <2>3
<1>13. ClosedInv' /\ LateInv'
  BY <1>2, <1>5 DEF IInv, TypeOK, ClosedInv, LateInv
<1> QED
  BY <1>8, <1>9, <1>10, <1>11, <1>12, <1>13 DEF IInv

LEMMA WorkerSteps ==
  ASSUME IInv, NEW c \in Calls, NEW end \in WorkerEndings, Spawn(c) \/ WorkerEnds(c, end)
  PROVE  IInv'
<1>1. worker \in [Calls -> {"none", "live"} \cup WorkerEndings]
  BY DEF IInv, TypeOK
<1>2. CASE Spawn(c)
  BY <1>1, <1>2, WorkerMovesStep DEF Spawn, WorkerMoves, LoopFree, store, history
<1>3. CASE WorkerEnds(c, end)
  BY <1>1, <1>3, WorkerMovesStep DEF WorkerEnds, WorkerMoves, receiver, store, history
<1> QED
  BY <1>2, <1>3

LEMMA SpawnFailsStep == ASSUME IInv, NEW c \in Calls, SpawnFails(c) PROVE IInv'
<1>1. /\ Reply(c, "unknown") /\ up /\ task[c].pc = "waiting"
      /\ UNCHANGED <<call, frames, expired, worker, up, loop, binding, journal, peer, recovery, backup, closed, late>>
  BY DEF SpawnFails, LoopFree, store, history
<1>2. call[c].pc \in {"sent", "done"}
  BY <1>1, Submitted
<1>3. "unknown" \in Answers /\ AnswerTrue(c, "unknown")
  BY Modest DEF Answers, Results
<1> QED
  BY <1>1, <1>2, <1>3, ReplyStep

(* The worker's result is recorded and answered.                           *)
Records(c, result) ==
  /\ up /\ loop = None /\ task[c].pc = "running" /\ Outcome(c, result) /\ Reply(c, result)
  /\ journal' = [journal EXCEPT ![call[c].id] = Recorded(@, result)]
  /\ UNCHANGED <<call, frames, expired, worker, up, loop, binding, peer, recovery, backup, closed, late>>

LEMMA RecordsStep == ASSUME IInv, NEW c \in Calls, NEW result \in Results, Records(c, result) PROVE IInv'
<1>1. PICK i \in Ids : i = call[c].id
  BY Submitted DEF Records
<1>2. /\ call[c].pc \in {"sent", "done"} /\ c \notin frames /\ call[c].op = "send" /\ call[c].text \in Texts
      /\ Active(c) /\ Holder(c) /\ loop = None /\ up
  BY Submitted DEF Records, Active, Holder, IInv, OnceInv, OwnerInv
<1>3. UNCHANGED <<call, frames, expired, worker, up, loop, binding, peer, recovery, backup, closed, late>>
  BY DEF Records
<1>4. /\ task' \in [Calls -> Task] /\ task'[c].pc = "replying" /\ task'[c].reply = result
      /\ \A d \in Calls \ {c} : task'[d] = task[d]
  <2>1. [pc |-> "replying", reply |-> result] \in Task
    BY DEF Task, Answers
  <2> HIDE DEF Task
  <2> QED
    BY <2>1 DEF Records, Reply, IInv, TypeOK
<1>5. /\ journal[i].state = "pending" /\ journal[i] \in Row /\ journal[i].text \in Texts
      /\ journal[i].binding \in Bindings /\ RowTrue(i, journal[i])
  <2>1. journal[i].state = "pending" /\ journal[i] \in Row /\ RowTrue(i, journal[i])
    BY <1>1, <1>2 DEF IInv, OwnerInv, RowsInv, TypeOK
  <2> QED
    BY <2>1 DEF Row, NoRow
<1>6. /\ journal'[i].state = "done" /\ journal'[i].result = result /\ journal'[i].text = journal[i].text
      /\ journal' \in [Ids -> Row] /\ \A j \in Ids \ {i} : journal'[j] = journal[j]
  <2>1. Recorded(journal[i], result)
          = [state |-> "done", text |-> journal[i].text, binding |-> journal[i].binding, result |-> result]
    BY DEF Recorded
  <2>2. Recorded(journal[i], result) \in Row
    BY <1>5, <2>1 DEF Row
  <2>3. journal' = [journal EXCEPT ![i] = Recorded(journal[i], result)] /\ journal \in [Ids -> Row]
    BY <1>1 DEF Records, IInv, TypeOK
  <2> HIDE DEF Row, Recorded
  <2> QED
    BY <2>1, <2>2, <2>3
<1>7. \A d \in Calls : /\ Active(d)' <=> d # c /\ Active(d)
                       /\ Holder(d)' => Holder(d)
                       /\ task'[d].pc = "waiting" => task[d].pc = "waiting"
  BY <1>3, <1>4 DEF Active, Holder
<1>8. \A d \in Calls : Holder(d) /\ call[d].id = i => d = c
  BY <1>1, <1>2 DEF IInv, OwnerInv
<1>9. Keeps
  <2>1. \A j \in Ids : Never(j) => Never(j)'
    BY <1>3, <1>6, <1>7 DEF Never
  <2> QED
    BY <1>3, <2>1 DEF Keeps, SameName
<1>10. /\ result = "submitted" => worker[c] = "submitted"
       /\ result = "refused" => worker[c] = "refused"
  BY DEF Records, Outcome
<1>11. result = "refused" => Never(i)'
  <2> SUFFICES ASSUME result = "refused", NEW s \in Calls, call[s].id = i
               PROVE  worker[s] \in {"none", "refused", "dead"} /\ ~Active(s)'
    BY <1>3, <1>6 DEF Never
  <2>1. CASE Holder(s)
    BY <2>1, <1>7, <1>8, <1>10
  <2>2. CASE ~Holder(s)
    BY <2>2, <1>7 DEF Holder
  <2> QED
    BY <2>1, <2>2
<1>12. call[c].text = journal[i].text
  BY <1>1, <1>2, <1>5 DEF RowTrue
<1>13. OwnerInv'
  <2>1. \A d \in Calls : Active(d)' => journal'[call[d].id].state = "pending"
    <3> SUFFICES ASSUME NEW d \in Calls, Active(d)' PROVE journal'[call[d].id].state = "pending"
      OBVIOUS
    <3>1. d # c /\ Active(d) /\ Holder(d)
      BY <1>7 DEF Holder
    <3>2. call[d].id \in Ids \ {i} /\ journal[call[d].id].state = "pending"
      BY <3>1, <1>8 DEF IInv, OwnerInv
    <3> QED
      BY <3>2, <1>6
  <2>2. \A j \in Ids : journal[j].state # "absent" => journal'[j].state # "absent"
    BY <1>6
  <2> QED
    BY <1>3, <1>7, <2>1, <2>2 DEF IInv, OwnerInv
<1>14. RowsInv'
  <2>1. RowTrue(i, journal[i])'
    <3>1. \A d \in Calls : Holder(d)' /\ call'[d].id = i => call'[d].text = journal'[i].text
      BY <1>3, <1>6, <1>7, <1>8, <1>12
    <3>2. result = "submitted" => Got(i, journal[i].text)'
      BY <1>1, <1>2, <1>3, <1>6, <1>10, <1>12 DEF Got
    <3> QED
      BY <1>6, <1>11, <3>1, <3>2 DEF RowTrue
  <2>2. TypeOK /\ \A j \in Ids : RowTrue(j, journal[j]) /\ RowTrue(j, backup.journal[j])
    BY DEF IInv, RowsInv
  <2>3. \A j \in Ids \ {i} : RowTrue(j, journal[j])'
    BY <1>3, <1>6, <1>7, <1>9, <2>2, RowKept, RowTexts
  <2>4. \A j \in Ids : RowTrue(j, backup.journal[j])'
    BY <1>3, <1>7, <1>9, <2>2, RowKept, RowTexts
  <2> QED
    BY <2>1, <2>3, <2>4 DEF RowsInv
<1>15. TypeOK'
  BY <1>3, <1>4, <1>6 DEF IInv, TypeOK
<1>16. AnswersInv'
  <2>1. AnswerTrue(c, task[c].reply)'
    <3>1. result = "submitted" =>
            \E s \in Calls :
              /\ worker'[s] = "submitted" /\ call'[s].op = "send" /\ call'[s].id = call'[c].id
              /\ call'[c].op = "send" => call'[s].text = call'[c].text
      BY <1>2, <1>3, <1>10
    <3>2. result = "refused" => Never(call[c].id)'
      BY <1>1, <1>3, <1>11 DEF Never
    <3>3. AnswerTrue(c, result)'
      BY <3>1, <3>2 DEF AnswerTrue
    <3>4. task'[c].reply = result
      BY <1>4
    <3> QED
      BY <3>3, <3>4 DEF AnswerTrue
  <2>2. \A d \in Calls : task'[d].pc = "replying" =>
          task'[d] = task[d] \/ (call[d].pc # "idle" /\ AnswerTrue(d, task[d].reply)')
    <3>1. call[c].pc # "idle" /\ \A d \in Calls \ {c} : task'[d] = task[d]
      BY <1>2, <1>4
    <3> QED
      BY <2>1, <3>1, Zenon
  <2> QED
    BY <1>3, <1>9, <1>15, <2>2, AnswersStep
<1>17. OnceInv'
  BY <1>2, <1>3, <1>4, <1>7, OnceKept DEF SameName
<1>18. ClosedInv' /\ LateInv'
  BY <1>3, <1>7 DEF IInv, TypeOK, ClosedInv, LateInv
<1> QED
  BY <1>13, <1>14, <1>15, <1>16, <1>17, <1>18 DEF IInv

LEMMA FinishStep == ASSUME IInv, NEW c \in Calls, NEW result \in Results, Finish(c, result) PROVE IInv'
<1>1. CASE journal' = [journal EXCEPT ![call[c].id] = Recorded(@, result)] /\ Reply(c, result)
  BY <1>1, RecordsStep DEF Finish, Records, LoopFree, history
<1>2. CASE UNCHANGED journal /\ Reply(c, "unknown")
  <2>1. /\ up /\ task[c].pc = "running" /\ loop' = loop
        /\ UNCHANGED <<call, frames, expired, worker, up, binding, journal, peer, recovery, backup, closed, late>>
    BY <1>2 DEF Finish, LoopFree, history
  <2>2. call[c].pc \in {"sent", "done"}
    BY <2>1, Submitted
  <2>3. "unknown" \in Answers /\ AnswerTrue(c, "unknown")
    BY Modest DEF Answers, Results
  <2> QED
    BY <1>2, <2>1, <2>2, <2>3, ReplyStep
<1> QED
  BY <1>1, <1>2 DEF Finish

LEMMA AnswerStep == ASSUME IInv, NEW c \in Calls, Answer(c) PROVE IInv'
<1>1. /\ up /\ loop = None /\ task[c].pc = "replying" /\ task' = [task EXCEPT ![c] = NoTask]
      /\ UNCHANGED <<frames, expired, worker, up, loop, binding, journal, peer, recovery, backup, closed, late>>
  BY DEF Answer, LoopFree, store, history
<1>2. call[c].pc \in {"sent", "done"} /\ TypeOK /\ task[c].reply \in Answers \cup {None}
  BY <1>1, Submitted DEF IInv, TypeOK, Task
<1>3. /\ call' \in [Calls -> Call]
      /\ \A d \in Calls \ {c} : call'[d] = call[d]
      /\ call'[c] = call[c] \/ (call'[c].pc = "done" /\ SameName(c) /\ call'[c].answer = task[c].reply)
  <2>1. CASE Ends(c, task[c].reply)
    BY <1>2, <2>1 DEF Ends, TypeOK, Call, SameName
  <2>2. CASE UNCHANGED call
    BY <1>2, <2>2 DEF TypeOK
  <2> QED
    BY <2>1, <2>2 DEF Answer
<1>4. /\ task' \in [Calls -> Task] /\ task'[c].pc = "none" /\ \A d \in Calls \ {c} : task'[d] = task[d]
  <2>1. NoTask \in Task /\ NoTask.pc = "none"
    BY DEF NoTask, Task
  <2> HIDE DEF Task, NoTask
  <2> QED
    BY <1>1, <1>2, <2>1 DEF TypeOK
<1>5. \A d \in Calls : (Active(d)' => Active(d)) /\ (Holder(d)' => Holder(d)) /\ SameName(d)
  BY <1>1, <1>3, <1>4 DEF Active, Holder, SameName
<1>6. Quiet
  BY <1>1, <1>4, <1>5 DEF Quiet
<1>7. OnceInv'
  BY <1>1, <1>2, <1>3, <1>4, <1>5, OnceKept
<1>8. ClosedInv' /\ LateInv'
  BY <1>1, <1>5 DEF IInv, TypeOK, ClosedInv, LateInv
<1>9. TypeOK'
  BY <1>1, <1>2, <1>3, <1>4 DEF TypeOK
<1>10. \A d \in Calls : \/ call'[d].answer = call[d].answer
                        \/ call[d].pc # "idle" /\ AnswerTrue(d, call[d].answer)'
  <2>1. CASE call'[c] = call[c]
    BY <2>1, <1>3
  <2>2. CASE call'[c].answer = task[c].reply
    <3>1. PICK a \in Answers \cup {None} : a = task[c].reply /\ AnswerTrue(c, a)
      BY <1>1, <1>2 DEF IInv, AnswersInv
    <3>2. AnswerTrue(c, a)'
      BY <1>2, <1>6, <3>1, QuietKeeps, KeepsGot
    <3>3. call'[c].answer = a
      BY <2>2, <3>1
    <3>4. call[c].pc # "idle" /\ AnswerTrue(c, call[c].answer)'
      BY <1>2, <3>2, <3>3 DEF AnswerTrue
    <3> QED
      BY <1>3, <3>4
  <2> QED
    BY <1>3, <2>1, <2>2
<1>11. \A d \in Calls : task'[d].pc = "replying" => task'[d] = task[d]
  BY <1>4
<1> QED
  BY <1>6, <1>7, <1>8, <1>9, <1>10, <1>11, QuietStep

----------------------------------------------------------------------------
(* The operator of the receiving device.                                   *)

LEMMA ReceiverSteps ==
  ASSUME IInv, NEW b \in Bindings, ReceiverStarts(b) \/ ReceiverGone \/ Revoke
  PROVE  IInv'
<1>1. UNCHANGED <<call, expired, worker, journal, recovery, backup, closed, late>>
  BY DEF ReceiverStarts, ReceiverGone, Revoke, Operator, store, history, receiver
<1>2. task' = [c \in Calls |-> NoTask] \/ task' = task
  BY DEF ReceiverStarts, ReceiverGone, Revoke, Operator, receiver
<1>3. \A c \in Calls : task'[c] = NoTask \/ task'[c] = task[c]
  BY <1>2
<1>4. \A d \in Calls : (Active(d)' => Active(d)) /\ (Holder(d)' => Holder(d))
  BY <1>1, <1>3 DEF Active, Holder, NoTask
<1>5. Quiet
  BY <1>1, <1>3, <1>4 DEF Quiet, SameName, NoTask
<1>6. TypeOK'
  <2>1. NoTask \in Task
    BY DEF NoTask, Task
  <2>2. task' \in [Calls -> Task]
    BY <1>2, <2>1 DEF IInv, TypeOK
  <2>3. /\ frames' \in {frames, {}} /\ loop' \in {loop, None} /\ up' \in {up, TRUE, FALSE}
        /\ binding' \in {binding, b} /\ peer' \in {peer, "revoked"}
    BY DEF ReceiverStarts, ReceiverGone, Revoke, Operator, receiver, store
  <2> HIDE DEF Task, NoTask
  <2> QED
    BY <1>1, <2>2, <2>3 DEF IInv, TypeOK
<1>7. /\ frames' \in {frames, {}} /\ loop' \in {loop, None}
      /\ ~up' => frames' = {} /\ loop' = None /\ \A c \in Calls : task'[c] = NoTask
  BY DEF IInv, OnceInv, ReceiverStarts, ReceiverGone, Revoke, Operator, receiver
<1>8. \A d \in Calls : /\ loop' = d => loop = d
                       /\ task[d].pc = "none" => task'[d].pc = "none"
  BY <1>3, <1>7, NoneAssumption DEF NoTask
<1>9. OnceInv'
  BY <1>1, <1>4, <1>7, <1>8 DEF IInv, TypeOK, OnceInv
<1>10. ClosedInv'
  BY <1>1, <1>4, <1>8 DEF IInv, TypeOK, ClosedInv
<1>11. LateInv'
  BY <1>1, <1>7 DEF IInv, LateInv, ReceiverStarts, ReceiverGone, Revoke, Operator, store, receiver
<1>12. \A d \in Calls : task'[d].pc = "replying" => task'[d] = task[d]
  BY <1>3 DEF NoTask
<1> QED
  BY <1>1, <1>5, <1>6, <1>9, <1>10, <1>11, <1>12, QuietStep

LEMMA ArchiveSteps == ASSUME IInv, Backup \/ Restore PROVE IInv'
<1>1. ~up /\ UNCHANGED <<call, frames, expired, worker, up, loop, task, binding, closed, late>>
  BY DEF Backup, Restore, Operator, receiver, history
<1>2. \A c \in Calls : ~Active(c) /\ ~Active(c)' /\ (Holder(c)' <=> Holder(c)) /\ task[c].pc = "none"
  BY <1>1 DEF IInv, OnceInv, Active, Holder, NoTask
<1>3. TypeOK /\ \A i \in Ids : RowTrue(i, journal[i]) /\ RowTrue(i, backup.journal[i])
  BY DEF IInv, RowsInv
<1>4. \/ UNCHANGED <<journal, recovery>> /\ backup'.journal = journal
      \/ UNCHANGED backup /\ journal' = backup.journal /\ recovery'
  BY DEF Backup, Restore
<1>5. TypeOK'
  <2>1. CASE Backup
    BY <1>1, <1>3, <2>1 DEF TypeOK, Backup
  <2>2. CASE Restore
    BY <1>1, <1>3, <2>2 DEF TypeOK, Restore
  <2> QED
    BY <2>1, <2>2
<1>6. \A i \in Ids : Never(i) => Never(i)'
  BY <1>1, <1>2, <1>4 DEF Never
<1>7. Keeps
  BY <1>1, <1>6 DEF Keeps, SameName
<1>8. OwnerInv'
  BY <1>1, <1>2, <1>4 DEF IInv, OwnerInv
<1>9. RowsInv'
  <2>1. \A i \in Ids, d \in Calls : Holder(d)' /\ call'[d].id = i => Holder(d)
    BY <1>2
  <2>2. CASE UNCHANGED <<journal, recovery>> /\ backup'.journal = journal
    BY <1>3, <1>7, <2>1, <2>2, RowKept, RowTexts DEF RowsInv
  <2>3. CASE UNCHANGED backup /\ journal' = backup.journal /\ recovery'
    BY <1>3, <1>7, <2>1, <2>3, RowKept, RowTexts DEF RowsInv
  <2> QED
    BY <1>4, <2>2, <2>3
<1>10. OnceInv' /\ ClosedInv'
  BY <1>1, <1>2 DEF IInv, TypeOK, OnceInv, ClosedInv
<1>11. LateInv'
  <2>1. (peer' = peer /\ recovery' = recovery) \/ recovery'
    BY DEF Backup, Restore
  <2> QED
    BY <1>1, <2>1 DEF IInv, LateInv
<1>12. AnswersInv'
  BY <1>1, <1>2, <1>5, <1>7, AnswersStep
<1> QED
  BY <1>5, <1>8, <1>9, <1>10, <1>11, <1>12 DEF IInv

----------------------------------------------------------------------------
LEMMA NextKeeps == IInv /\ [Next]_vars => IInv'
<1> SUFFICES ASSUME IInv, [Next]_vars PROVE IInv'
  OBVIOUS
<1>1. ASSUME NEW c \in Calls, SenderStep(c) PROVE IInv'
  <2>1. CASE NoRoute(c) \/ Submit(c) \/ GiveUp(c) \/ Expire(c) \/ LoseFrame(c)
    BY <2>1, SenderSteps
  <2> QED
    BY <1>1, <2>1, StartCallStep DEF SenderStep
<1>2. ASSUME NEW c \in Calls, ReceiverStep(c) PROVE IInv'
  <2>1. CASE Spawn(c)
    BY <2>1, WorkerSteps DEF WorkerEndings
  <2> QED
    BY <1>2, <2>1, DispatchStep, BeginStep, SpawnFailsStep, AnswerStep, FinishStep DEF ReceiverStep
<1>3. ASSUME NEW c \in Calls, NEW end \in WorkerEndings, WorkerEnds(c, end) PROVE IInv'
  BY <1>3, WorkerSteps
<1>4. ASSUME NEW b \in Bindings, ReceiverStarts(b) PROVE IInv'
  BY <1>4, ReceiverSteps
<1>5. CASE ReceiverGone \/ Revoke
  <2>1. binding \in Bindings
    BY DEF IInv, TypeOK
  <2> QED
    BY <1>5, <2>1, ReceiverSteps
<1>6. CASE Backup \/ Restore
  BY <1>6, ArchiveSteps
<1>7. CASE UNCHANGED vars
  <2>1. Quiet /\ TypeOK' /\ ClosedInv' /\ LateInv' /\ UNCHANGED <<call, task>>
    BY <1>7 DEF vars, receiver, store, history, Quiet, Active, SameName, IInv, TypeOK, ClosedInv, LateInv, Holder
  <2>2. OnceInv'
    BY <1>7 DEF vars, receiver, store, history, IInv, OnceInv, Holder, Active
  <2> QED
    BY <2>1, <2>2, QuietStep
<1> QED
  BY <1>1, <1>2, <1>3, <1>4, <1>5, <1>6, <1>7 DEF Next

(* The inductive invariant holds of the journal, its receiver and their    *)
(* peer in every reachable state.                                          *)
THEOREM Invariance == Spec => []IInv
  BY InitInv, NextKeeps, PTL DEF Spec

(* The journal, the receiver's tasks and the sender's calls keep their types. *)
THEOREM TypesHold == Spec => []TypeOK
<1>1. IInv => TypeOK
  BY DEF IInv
<1> QED
  BY <1>1, Invariance, PTL

(* Under one id the session gets at most one message, whatever the number  *)
(* of calls, crashes of the receiver and restored archives.                *)
THEOREM SubmittedOnce == Spec => []AtMostOneSubmission
<1>1. IInv => AtMostOneSubmission
  <2> SUFFICES ASSUME IInv, NEW c \in Calls, NEW d \in Calls,
                      worker[c] = "submitted", worker[d] = "submitted", call[c].id = call[d].id
               PROVE  c = d
    BY DEF AtMostOneSubmission
  <2>1. Holder(c) /\ Holder(d)
    BY DEF Holder
  <2> QED
    BY <2>1 DEF IInv, OwnerInv
<1> QED
  BY <1>1, Invariance, PTL

(* Every answer a sender gets is true of the receiving session.            *)
THEOREM AnswersHold == Spec => []AnswersTrue
<1>1. IInv => AnswersTrue
  <2> SUFFICES ASSUME IInv, NEW c \in Calls
               PROVE  /\ call[c].answer = "submitted" =>
                            \E s \in Submitters(call[c].id) : call[c].op = "send" => call[s].text = call[c].text
                      /\ call[c].answer = "refused" =>
                            \A s \in For(call[c].id) : worker[s] \in {"none", "refused", "dead"}
    BY DEF AnswersTrue
  <2>1. AnswerTrue(c, call[c].answer)
    BY DEF IInv, AnswersInv
  <2> QED
    BY <2>1 DEF AnswerTrue, Submitters, For, Never
<1> QED
  BY <1>1, Invariance, PTL

(* A recovery plan's reading of any row of the journal is true.            *)
THEOREM ReceiptsHold == Spec => [](\A i \in Ids : ReceiptTrue(i))
<1>1. IInv => \A i \in Ids : ReceiptTrue(i)
  <2> SUFFICES ASSUME IInv, NEW i \in Ids
               PROVE  /\ Classification(journal[i]) = "already_processed" => Submitters(i) # {}
                      /\ Classification(journal[i]) = "not_processed" =>
                            \A s \in For(i) : worker[s] \in {"none", "refused", "dead"}
    BY DEF ReceiptTrue
  <2>1. journal[i] \in Row /\ RowTrue(i, journal[i])
    BY DEF IInv, TypeOK, RowsInv
  <2>2. journal[i].state = "done" => journal[i].result \in Results
    BY <2>1 DEF Row, NoRow
  <2>3. Classification(journal[i]) = "already_processed" => journal[i].result = "submitted"
    BY <2>2 DEF Classification, Results
  <2>4. Classification(journal[i]) = "not_processed" => journal[i].result = "refused"
    BY <2>2 DEF Classification, Results
  <2>5. journal[i].result = "submitted" => Submitters(i) # {}
    BY <2>1 DEF RowTrue, Got, Submitters, For
  <2>6. journal[i].result = "refused" => \A s \in For(i) : worker[s] \in {"none", "refused", "dead"}
    BY <2>1 DEF RowTrue, Never, For
  <2> QED
    BY <2>3, <2>4, <2>5, <2>6
<1> QED
  BY <1>1, Invariance, PTL

(* A not_found that is answered after a request's lifetime is final.       *)
THEOREM NotFoundIsFinal == Spec => []NotFoundSettles
<1>1. IInv => NotFoundSettles
  BY DEF IInv, TypeOK, ClosedInv, NotFoundSettles, Holder, Active, Task
<1> QED
  BY <1>1, Invariance, PTL

(* At most one request of a revoked peer is accepted after its revocation. *)
THEOREM RevocationHolds == Spec => []RevocationOvertakenOnce
<1>1. IInv => RevocationOvertakenOnce
  <2> SUFFICES ASSUME IInv PROVE Cardinality(late) <= 1
    BY DEF RevocationOvertakenOnce
  <2>1. CASE late = {}
    BY <2>1, FS_EmptySet
  <2>2. ASSUME NEW c \in Calls, late = {c} PROVE Cardinality(late) <= 1
    <3>1. Cardinality({c}) = 1
      BY FS_Singleton
    <3> QED
      BY <2>2, <3>1
  <2> QED
    BY <2>1, <2>2 DEF IInv, LateInv
<1> QED
  BY <1>1, Invariance, PTL

(* An archive accepts nothing new: none of its rows has a handler that     *)
(* could still settle it.                                                  *)
Settled == recovery => \A c \in Calls : ~Active(c)

LEMMA ArchiveSettled == Spec => []Settled
<1>1. Init => Settled
  BY DEF Init, Settled
<1>2. IInv /\ Settled /\ [Next]_vars => Settled'
  <2> SUFFICES ASSUME IInv, Settled, [Next]_vars, recovery', NEW c \in Calls, Active(c)' PROVE FALSE
    BY DEF Settled
  <2>1. CASE Restore
    <3>1. task[c] = NoTask
      BY <2>1 DEF Restore, IInv, OnceInv
    <3> QED
      BY <2>1, <3>1 DEF Restore, Operator, receiver, Active, NoTask
  <2>2. ASSUME NEW d \in Calls, Begin(d) PROVE FALSE
    <3>1. recovery /\ ~Active(c)
      BY <2>2 DEF Begin, Settled
    <3>2. c = d /\ task' = [task EXCEPT ![d].pc = "waiting"] /\ ~RefusedNew
      BY <2>2, <3>1 DEF Begin, Reply, Active, IInv, TypeOK, Task
    <3> QED
      BY <3>1, <3>2 DEF RefusedNew
  <2>3. ASSUME NEW d \in Calls, SenderStep(d) \/ Dispatch(d) \/ Spawn(d) \/ SpawnFails(d) \/ Answer(d)
                                 \/ (\E result \in Results : Finish(d, result))
                                 \/ (\E end \in WorkerEndings : WorkerEnds(d, end))
        PROVE  FALSE
    <3>1. recovery /\ \A x \in Calls : ~Active(x)
      BY <2>3 DEF SenderStep, StartCall, NoRoute, Submit, GiveUp, Expire, LoseFrame, Sender, Dispatch, Spawn,
         SpawnFails, Answer, Finish, WorkerEnds, store, Settled
    <3> QED
      BY <2>3, <3>1 DEF SenderStep, StartCall, NoRoute, Submit, GiveUp, Expire, LoseFrame, Sender, receiver, Dispatch,
         OnStatus, OnSend, Spawn, SpawnFails, Answer, Finish, WorkerEnds, Reply, Active, NoTask, IInv, TypeOK, Task
  <2>4. CASE (\E b \in Bindings : ReceiverStarts(b)) \/ ReceiverGone \/ Revoke \/ Backup \/ UNCHANGED vars
    <3>1. recovery /\ ~Active(c)
      BY <2>4 DEF ReceiverStarts, ReceiverGone, Revoke, Backup, Operator, store, vars, Settled
    <3> QED
      BY <2>4, <3>1 DEF ReceiverStarts, ReceiverGone, Revoke, Backup, Operator, receiver, vars, Active, NoTask
  <2> QED
    BY <2>1, <2>2, <2>3, <2>4 DEF Next, ReceiverStep
<1> QED
  BY <1>1, <1>2, Invariance, PTL DEF Spec

(* Recorded outcomes and the rows of an archive are rewritten by no step   *)
(* but one that puts an archive in the state's place.                      *)
THEOREM OutcomesFinal == Spec => ReceiptsFinal
<1>1. IInv /\ Settled /\ [Next]_vars =>
        [(\A i \in Ids : recovery \/ journal[i].state = "done" => journal'[i] = journal[i]) \/ Restore]_vars
  <2> SUFFICES ASSUME IInv, Settled, Next, ~Restore, NEW i \in Ids, recovery \/ journal[i].state = "done"
               PROVE  journal'[i] = journal[i]
    OBVIOUS
  <2>1. ASSUME NEW c \in Calls, Begin(c) PROVE journal'[i] = journal[i]
    <3>1. TypeOK /\ call[c].id \in Ids
      BY <2>1, Submitted DEF Begin, IInv
    <3> QED
      BY <2>1, <3>1 DEF Begin, Unseen, RefusedNew, TypeOK
  <2>2. ASSUME NEW c \in Calls, NEW result \in Results, Finish(c, result) PROVE journal'[i] = journal[i]
    <3>1. TypeOK /\ call[c].id # i
      BY <2>2 DEF Finish, IInv, OwnerInv, Active, Settled
    <3> QED
      BY <2>2, <3>1 DEF Finish, TypeOK
  <2>3. CASE UNCHANGED journal
    BY <2>3
  <2> QED
    BY <2>1, <2>2, <2>3 DEF Next, SenderStep, ReceiverStep, StartCall, NoRoute, Submit, GiveUp, Expire,
       LoseFrame, Sender, Dispatch, Spawn, SpawnFails, Answer, WorkerEnds, ReceiverStarts, ReceiverGone,
       Revoke, Backup, Operator, store
<1> QED
  BY <1>1, Invariance, ArchiveSettled, PTL DEF Spec, ReceiptsFinal

(* An archive's receipts are true, and no step but putting an archive in   *)
(* the place of the state rewrites the rows they are taken from.           *)
THEOREM ReceiptsStand == Spec => ReceiptsKept
  BY ReceiptsHold, OutcomesFinal DEF ReceiptsKept

----------------------------------------------------------------------------
(* The journal keeps the promise: one licence per id.                      *)

(* Whoever holds an id's licence is its one holder.                        *)
Keeper(i) == \E c \in For(i) : task[c].pc = "waiting" \/ worker[c] = "live"

LEMMA LicenceFacts ==
  ASSUME IInv, NEW i \in Ids
  PROVE  /\ Licence(i) = "held" <=> Keeper(i)
         /\ Licence(i) = "open" <=> journal[i].state = "absent" /\ ~recovery
         /\ Licence(i) \in {"open", "held", "spent"}
<1>1. Keeper(i) => journal[i].state # "absent" \/ recovery
  BY DEF Keeper, For, IInv, OwnerInv, Holder, Active
<1> QED
  BY <1>1 DEF Licence, Keeper

LEMMA SubmitterFacts ==
  ASSUME IInv, NEW i \in Ids
  PROVE  /\ \A s \in Submitters(i) : Submitters(i) = {s} /\ Cardinality(Submitters(i)) = 1
         /\ Submitters(i) = {} => Cardinality(Submitters(i)) = 0
         /\ Keeper(i) => Submitters(i) = {}
         /\ \A s \in Submitters(i) : Licence(i) = "spent"
<1>1. \A s \in Submitters(i) : s \in Calls /\ Holder(s) /\ call[s].id = i /\ worker[s] = "submitted"
  BY DEF Submitters, For, Holder
<1>2. \A s, d \in Submitters(i) : s = d
  BY <1>1 DEF IInv, OwnerInv
<1>3. \A s \in Submitters(i) : Submitters(i) = {s}
  BY <1>2
<1>4. \A s \in Submitters(i) : Cardinality(Submitters(i)) = 1
  <2> TAKE s \in Submitters(i)
  <2>1. Cardinality({s}) = 1
    BY FS_Singleton
  <2> QED
    BY <1>3, <2>1
<1>5. Keeper(i) => Submitters(i) = {}
  <2> SUFFICES ASSUME NEW c \in For(i), task[c].pc = "waiting" \/ worker[c] = "live", NEW s \in Submitters(i)
               PROVE  FALSE
    BY DEF Keeper
  <2>1. c \in Calls /\ Holder(c) /\ call[c].id = i
    BY DEF For, Holder, Active
  <2>2. s = c
    BY <1>1, <2>1 DEF IInv, OwnerInv
  <2> QED
    BY <1>1, <2>1, <2>2 DEF IInv, OwnerInv
<1>6. \A s \in Submitters(i) : Licence(i) = "spent"
  <2> SUFFICES ASSUME NEW s \in Submitters(i) PROVE Licence(i) = "spent"
    OBVIOUS
  <2>1. journal[i].state # "absent" \/ recovery
    BY <1>1 DEF IInv, OwnerInv
  <2> QED
    BY <1>5, <2>1, LicenceFacts
<1> QED
  BY <1>3, <1>4, <1>5, <1>6, FS_EmptySet

(* The same two facts of the state after a step.                           *)
LEMMA LicenceNext ==
  ASSUME IInv', NEW i \in Ids
  PROVE  /\ Licence(i)' = "held" <=> Keeper(i)'
         /\ Licence(i)' = "open" <=> journal'[i].state = "absent" /\ ~recovery'
         /\ Licence(i)' \in {"open", "held", "spent"}
<1>1. Keeper(i)' => journal'[i].state # "absent" \/ recovery'
  BY DEF Keeper, For, IInv, OwnerInv, Holder, Active
<1> QED
  BY <1>1 DEF Licence, Keeper

(* A step in which calls keep their names and workers what they did.       *)
Named ==
  /\ \A c \in Calls : Holder(c) \/ Holder(c)' => SameName(c)
  /\ \A c \in Calls : worker[c] = "submitted" <=> worker'[c] = "submitted"

LEMMA NamedSubmitters == ASSUME IInv, Named, NEW i \in Ids PROVE Submitters(i)' = Submitters(i)
<1>1. \A c \in Calls : worker[c] = "submitted" => SameName(c)
  BY DEF Named, Holder
<1> QED
  BY <1>1 DEF Named, Submitters, For, SameName

(* No new holder, and no row written: some licences may be given up.       *)
Slack ==
  /\ UNCHANGED <<worker, journal, recovery>>
  /\ \A c \in Calls : Active(c)' => Active(c)
  /\ \A c \in Calls : task'[c].pc = "waiting" => task[c].pc = "waiting"
  /\ \A c \in Calls : call[c].pc # "idle" => SameName(c)

LEMMA SlackPromise == ASSUME IInv, IInv', Slack PROVE Promise!Next
<1> SUFFICES ASSUME NEW i \in Ids PROVE Promise!Stay(i) \/ Promise!Use(i)
  BY DEF Promise!Next
<1>1. \A c \in Calls : Holder(c) \/ Holder(c)' => SameName(c)
  BY DEF Slack, Holder, IInv, OnceInv
<1>2. Submitters(i)' = Submitters(i) /\ Fact(i)' = Fact(i)
  BY <1>1, NamedSubmitters DEF Slack, Named, Fact
<1>3. Keeper(i)' => Keeper(i)
  BY <1>1 DEF Keeper, For, Slack, SameName, Holder, Active
<1>4. CASE Keeper(i) <=> Keeper(i)'
  BY <1>2, <1>4, LicenceFacts, LicenceNext DEF Slack, Promise!Stay
<1>5. CASE Keeper(i) /\ ~Keeper(i)'
  <2>1. Licence(i) = "held"
    BY <1>5, LicenceFacts
  <2>2. Licence(i)' = "spent"
    BY <1>5, LicenceFacts, LicenceNext DEF Slack
  <2> QED
    BY <1>2, <2>1, <2>2 DEF Promise!Use
<1> QED
  BY <1>3, <1>4, <1>5

(* A step that leaves an id's licence, submissions and row's result alone. *)
LEMMA StaysAt ==
  ASSUME IInv, IInv', NEW i \in Ids, Keeper(i)' <=> Keeper(i), Submitters(i)' = Submitters(i),
         journal'[i].result = journal[i].result, recovery' = recovery,
         journal'[i].state = "absent" <=> journal[i].state = "absent"
  PROVE  Promise!Stay(i)
<1>1. Licence(i)' = Licence(i)
  BY LicenceFacts, LicenceNext
<1> QED
  BY <1>1 DEF Promise!Stay, Fact

LEMMA AcceptsPromise == ASSUME IInv, IInv', NEW c \in Calls, Accepts(c) PROVE Promise!Next
<1>1. PICK i \in Ids : i = call[c].id
  BY Submitted DEF Accepts
<1>2. /\ journal \in [Ids -> Row] /\ task \in [Calls -> Task] /\ call[c].op = "send" /\ ~Holder(c)
      /\ UNCHANGED <<call, worker, recovery>> /\ ~recovery /\ journal[i].state = "absent"
  BY <1>1, Submitted DEF Accepts, IInv, TypeOK, Unseen
<1>3. /\ journal'[i].state = "pending" /\ journal'[i].result = None /\ task'[c].pc = "waiting"
      /\ \A j \in Ids \ {i} : journal'[j] = journal[j]
      /\ \A d \in Calls \ {c} : task'[d] = task[d]
  BY <1>1, <1>2 DEF Accepts
<1>4. \A j \in Ids : Submitters(j)' = Submitters(j)
  BY <1>2 DEF Submitters, For
<1>5. ASSUME NEW j \in Ids, j # i PROVE Promise!Stay(j)
  <2>1. Keeper(j)' <=> Keeper(j)
    BY <1>1, <1>2, <1>3, <1>5 DEF Keeper, For
  <2> QED
    BY <1>2, <1>3, <1>4, <1>5, <2>1, StaysAt
<1>6. Promise!Take(i)
  <2>1. Licence(i) = "open"
    BY <1>2, LicenceFacts
  <2>2. Keeper(i)'
    BY <1>1, <1>2, <1>3 DEF Keeper, For
  <2>3. Licence(i)' = "held"
    BY <2>2, LicenceNext
  <2>4. journal[i].result = None
    BY <1>2 DEF Row, NoRow
  <2>5. Fact(i)' = Fact(i)
    BY <1>3, <2>4 DEF Fact
  <2> QED
    BY <1>4, <2>1, <2>3, <2>5 DEF Promise!Take
<1> QED
  BY <1>5, <1>6 DEF Promise!Next

LEMMA SpawnPromise == ASSUME IInv, IInv', NEW c \in Calls, Spawn(c) PROVE Promise!Next
<1>1. /\ task \in [Calls -> Task] /\ worker \in [Calls -> {"none", "live"} \cup WorkerEndings]
      /\ task[c].pc = "waiting" /\ worker[c] = "none"
      /\ task' = [task EXCEPT ![c].pc = "running"] /\ worker' = [worker EXCEPT ![c] = "live"]
      /\ UNCHANGED <<call, journal, recovery>>
  BY DEF Spawn, IInv, TypeOK, OwnerInv, store
<1>2. /\ task'[c].pc = "running" /\ worker'[c] = "live"
      /\ \A d \in Calls \ {c} : task'[d] = task[d] /\ worker'[d] = worker[d]
  BY <1>1
<1>3. ASSUME NEW j \in Ids PROVE Promise!Stay(j)
  <2>1. For(j)' = For(j)
    BY <1>1 DEF For
  <2>2. Keeper(j)' <=> Keeper(j)
    BY <1>1, <1>2, <2>1 DEF Keeper, For
  <2>3. Submitters(j)' = Submitters(j)
    BY <1>1, <1>2, <2>1 DEF Submitters, For
  <2> QED
    BY <1>1, <2>2, <2>3, StaysAt
<1> QED
  BY <1>3 DEF Promise!Next

LEMMA WorkerPromise ==
  ASSUME IInv, IInv', NEW c \in Calls, NEW end \in WorkerEndings, WorkerEnds(c, end)
  PROVE  Promise!Next
<1>1. PICK i \in Ids : i = call[c].id
  BY DEF WorkerEnds, IInv, OwnerInv, Holder
<1>2. /\ worker \in [Calls -> {"none", "live"} \cup WorkerEndings] /\ worker[c] = "live"
      /\ call[c].op = "send" /\ task[c].pc # "waiting" /\ worker' = [worker EXCEPT ![c] = end]
      /\ UNCHANGED <<call, task, journal, recovery>>
  BY DEF WorkerEnds, IInv, TypeOK, OwnerInv, Holder, store, receiver
<1>3. worker'[c] = end /\ \A d \in Calls \ {c} : worker'[d] = worker[d]
  BY <1>2
<1>4. ASSUME NEW j \in Ids, j # i PROVE Promise!Stay(j)
  <2>1. (Keeper(j)' <=> Keeper(j)) /\ Submitters(j)' = Submitters(j)
    BY <1>1, <1>2, <1>3, <1>4 DEF Keeper, Submitters, For
  <2> QED
    BY <1>2, <2>1, StaysAt
<1>5. Promise!Use(i)
  <2>1. Keeper(i) /\ Licence(i) = "held"
    BY <1>1, <1>2, LicenceFacts DEF Keeper, For
  <2>2. ~Keeper(i)'
    <3>1. \A d \in For(i) : Holder(d) => d = c
      BY <1>1, <1>2 DEF For, IInv, OwnerInv, Holder
    <3> QED
      BY <1>2, <1>3, <3>1 DEF Keeper, For, Holder, Active, WorkerEndings
  <2>3. Licence(i)' = "spent"
    BY <1>2, <2>1, <2>2, LicenceFacts, LicenceNext
  <2>4. Submitters(i) = {} /\ Cardinality(Submitters(i)) = 0
    BY <2>1, SubmitterFacts
  <2>5. Submitters(i)' \in {{}, {c}}
    BY <1>2, <1>3, <2>4 DEF Submitters, For
  <2>6. Cardinality(Submitters(i)') \in {0, 1}
    BY <2>5, FS_EmptySet, FS_Singleton
  <2> QED
    BY <1>2, <2>1, <2>3, <2>4, <2>6 DEF Promise!Use, Fact
<1> QED
  BY <1>4, <1>5 DEF Promise!Next

LEMMA RecordsPromise ==
  ASSUME IInv, IInv', NEW c \in Calls, NEW result \in Results, Finish(c, result),
         journal' = [journal EXCEPT ![call[c].id] = Recorded(@, result)], Reply(c, result)
  PROVE  Promise!Next
<1>1. PICK i \in Ids : i = call[c].id
  BY DEF Finish, IInv, OwnerInv, Holder, Active
<1>2. /\ journal \in [Ids -> Row] /\ task \in [Calls -> Task] /\ task[c].pc = "running" /\ Holder(c)
      /\ call[c].op = "send" /\ journal[i].state = "pending" /\ Outcome(c, result)
      /\ UNCHANGED <<call, worker, recovery>>
  BY <1>1 DEF Finish, IInv, TypeOK, OwnerInv, Holder, Active
<1>3. /\ journal'[i].state = "done" /\ journal'[i].result = result /\ journal[i].result = None
      /\ \A j \in Ids \ {i} : journal'[j] = journal[j]
  BY <1>1, <1>2 DEF Recorded, Row, NoRow
<1>4. /\ task'[c].pc = "replying" /\ \A d \in Calls \ {c} : task'[d] = task[d]
  BY <1>2 DEF Reply
<1>5. \A j \in Ids : (Keeper(j)' <=> Keeper(j)) /\ Submitters(j)' = Submitters(j)
  BY <1>2, <1>4 DEF Keeper, Submitters, For
<1>6. ASSUME NEW j \in Ids, j # i PROVE Promise!Stay(j)
  BY <1>2, <1>3, <1>5, <1>6, StaysAt
<1>7. Fact(i) = "none" /\ Licence(i)' = Licence(i)
  BY <1>2, <1>3, <1>5, NoneAssumption, LicenceFacts, LicenceNext DEF Fact, Answers, Results
<1>8. CASE result = "unknown"
  <2>1. Promise!Stay(i)
    BY <1>3, <1>5, <1>7, <1>8 DEF Promise!Stay, Fact
  <2> QED
    BY <1>6, <2>1 DEF Promise!Next
<1>9. CASE result = "submitted"
  <2>1. c \in Submitters(i)
    BY <1>1, <1>2, <1>9 DEF Outcome, Submitters, For
  <2>2. Cardinality(Submitters(i)) = 1 /\ Licence(i) = "spent"
    BY <2>1, SubmitterFacts
  <2>3. Fact(i)' = "submitted"
    BY <1>3, <1>9 DEF Fact
  <2>4. Promise!Learn(i)
    BY <1>5, <1>7, <2>2, <2>3 DEF Promise!Learn
  <2> QED
    BY <1>6, <2>4 DEF Promise!Next
<1>10. CASE result = "refused"
  <2>1. worker[c] = "refused"
    BY <1>2, <1>10 DEF Outcome
  <2>2. \A d \in For(i) : Holder(d) => d = c
    BY <1>1, <1>2 DEF For, IInv, OwnerInv
  <2>3. Submitters(i) = {} /\ ~Keeper(i)
    BY <1>2, <2>1, <2>2 DEF Submitters, Keeper, For, Holder, Active
  <2>4. Cardinality(Submitters(i)) = 0 /\ Licence(i) = "spent"
    BY <1>2, <2>3, SubmitterFacts, LicenceFacts
  <2>5. Fact(i)' = "refused"
    BY <1>3, <1>10 DEF Fact
  <2>6. Promise!Learn(i)
    BY <1>5, <1>7, <2>4, <2>5 DEF Promise!Learn
  <2> QED
    BY <1>6, <2>6 DEF Promise!Next
<1> QED
  BY <1>8, <1>9, <1>10 DEF Results

(* An archive's rows are true, so what they claim is learned, and what     *)
(* they do not know of is forgotten together with the right to send it.    *)
LEMMA RestorePromise == ASSUME IInv, IInv', Restore PROVE Promise!Next
<1>1. /\ UNCHANGED <<call, worker, task>> /\ journal' = backup.journal /\ recovery' = TRUE
  BY DEF Restore, Operator, receiver
<1>2. \A j \in Ids : (Keeper(j)' <=> Keeper(j)) /\ Submitters(j)' = Submitters(j)
  BY <1>1 DEF Keeper, Submitters, For
<1> SUFFICES ASSUME NEW i \in Ids PROVE Promise!Learn(i) \/ Promise!Forget(i)
  BY DEF Promise!Next
<1>3. RowTrue(i, backup.journal[i])
  BY DEF IInv, RowsInv
<1>4. CASE backup.journal[i].result = "submitted"
  <2>1. PICK s \in Submitters(i) : TRUE
    BY <1>3, <1>4 DEF RowTrue, Got, Submitters, For
  <2>2. Cardinality(Submitters(i)) = 1 /\ Licence(i) = "spent" /\ ~Keeper(i)
    BY <2>1, SubmitterFacts
  <2>3. Licence(i)' = "spent" /\ Fact(i)' = "submitted"
    BY <1>1, <1>2, <1>4, <2>2, LicenceNext DEF Fact
  <2> QED
    BY <1>2, <2>2, <2>3 DEF Promise!Learn
<1>5. CASE backup.journal[i].result = "refused"
  <2>1. Never(i)
    BY <1>3, <1>5 DEF RowTrue
  <2>2. Submitters(i) = {} /\ ~Keeper(i)
    BY <2>1 DEF Never, Submitters, Keeper, For, Active
  <2>3. Cardinality(Submitters(i)) = 0 /\ Licence(i) = "spent"
    BY <2>1, <2>2, SubmitterFacts, LicenceFacts DEF Never
  <2>4. Licence(i)' = "spent" /\ Fact(i)' = "refused"
    BY <1>1, <1>2, <1>5, <2>2, LicenceNext DEF Fact
  <2> QED
    BY <1>2, <2>3, <2>4 DEF Promise!Learn
<1>6. CASE backup.journal[i].result \notin {"submitted", "refused"}
  <2>1. Licence(i)' = IF Licence(i) = "open" THEN "spent" ELSE Licence(i)
    BY <1>1, <1>2, LicenceFacts, LicenceNext
  <2>2. Fact(i)' = "none"
    BY <1>1, <1>6 DEF Fact
  <2> QED
    BY <1>2, <2>1, <2>2 DEF Promise!Forget
<1> QED
  BY <1>4, <1>5, <1>6

(* What becomes of the tasks and of the calls when nothing is started.     *)
Eased ==
  \/ task' = task \/ task' = [c \in Calls |-> NoTask]
  \/ \E d \in Calls : task' = [task EXCEPT ![d] = NoTask] \/ \E a \in Answers \cup {None} : Reply(d, a)
Called ==
  \/ call' = call
  \/ \E d \in Calls :
       \/ call[d].pc = "idle" /\ (\A e \in Calls \ {d} : call'[e] = call[e])
       \/ call' = [call EXCEPT ![d].pc = "sent"]
       \/ \E a \in Answers \cup {None} : Ends(d, a)

LEMMA EasedPromise ==
  ASSUME IInv, IInv', UNCHANGED <<worker, journal, recovery>>, Eased, Called PROVE Promise!Next
<1>1. task \in [Calls -> Task] /\ call \in [Calls -> Call]
  BY DEF IInv, TypeOK
<1>2. \A c \in Calls : task'[c] = task[c] \/ task'[c].pc \in {"none", "replying"}
  <2> HIDE DEF Task
  <2> QED
    BY <1>1 DEF Eased, Reply, NoTask
<1>3. \A c \in Calls : call[c].pc # "idle" => SameName(c)
  <2>1. ASSUME NEW d \in Calls, call' = [call EXCEPT ![d].pc = "sent"] PROVE \A c \in Calls : SameName(c)
    BY <1>1, <2>1 DEF Call, SameName
  <2>2. ASSUME NEW d \in Calls, NEW a, Ends(d, a) PROVE \A c \in Calls : SameName(c)
    BY <1>1, <2>2 DEF Ends, Call, SameName
  <2> QED
    BY <2>1, <2>2 DEF Called, SameName
<1>4. Slack
  BY <1>2, <1>3 DEF Slack, Active
<1> QED
  BY <1>4, SlackPromise

LEMMA CallPromise == ASSUME IInv, IInv', NEW c \in Calls, SenderStep(c) PROVE Promise!Next
<1>1. UNCHANGED <<worker, task, journal, recovery>>
  BY DEF SenderStep, StartCall, NoRoute, Submit, GiveUp, Expire, LoseFrame, Sender, receiver, store
<1>2. Called
  <2>1. ASSUME NEW op \in {"send", "status"}, NEW i \in Ids, NEW text \in Texts, StartCall(c, op, i, text)
        PROVE  Called
    <3>1. \A e \in Calls \ {c} : call'[e] = call[e]
      BY <2>1 DEF StartCall, IInv, TypeOK
    <3>2. call[c].pc = "idle"
      BY <2>1 DEF StartCall
    <3> QED
      BY <3>1, <3>2 DEF Called
  <2>2. CASE NoRoute(c) \/ GiveUp(c)
    <3>1. "no_route" \in Answers \cup {None} /\ "unknown" \in Answers \cup {None}
      BY DEF Answers, Results
    <3>2. Ends(c, "no_route") \/ Ends(c, "unknown")
      BY <2>2 DEF NoRoute, GiveUp
    <3> QED
      BY <3>1, <3>2, Zenon DEF Called
  <2>3. CASE Submit(c) \/ Expire(c) \/ LoseFrame(c)
    BY <2>3 DEF Submit, Expire, LoseFrame, Called
  <2> QED
    BY <2>1, <2>2, <2>3 DEF SenderStep
<1> QED
  BY <1>1, <1>2, EasedPromise DEF Eased

LEMMA HandlerPromise == ASSUME IInv, IInv', NEW c \in Calls, ReceiverStep(c) PROVE Promise!Next
<1>1. Answers \cup {None} = Answers \cup {None} /\ \A i \in Ids : Status(i) \in Answers
  <2>1. \A i \in Ids : journal[i].state = "done" => journal[i].result \in Results
    BY DEF IInv, TypeOK, Row, NoRow
  <2> QED
    BY <2>1 DEF Status, Answers, Results
<1>2. CASE Dispatch(c)
  <2>1. UNCHANGED <<worker, call, journal, recovery>>
    BY <1>2 DEF Dispatch, store
  <2>2. call[c].id \in Ids
    BY <1>2 DEF Dispatch, IInv, OnceInv, TypeOK, Call
  <2>3. Eased
    BY <1>1, <1>2, <2>2 DEF Dispatch, OnStatus, OnSend, Eased, Answers
  <2> QED
    BY <2>1, <2>3, EasedPromise DEF Called
<1>3. CASE Begin(c)
  <2>1. call[c].id \in Ids
    BY <1>3, Submitted DEF Begin
  <2>2. CASE Unseen(call[c].id) /\ ~RefusedNew /\ Accepts(c)
    BY <2>2, AcceptsPromise
  <2>3. CASE UNCHANGED journal /\ \E a \in Answers : Reply(c, a)
    <3>1. UNCHANGED <<worker, journal, recovery, call>>
      BY <1>3, <2>3 DEF Begin
    <3>2. Eased
      BY <2>3 DEF Eased
    <3> QED
      BY <3>1, <3>2, EasedPromise DEF Called
  <2> QED
    BY <1>1, <1>3, <2>1, <2>2, <2>3 DEF Begin, Accepts, RefusedNew, Answers, Results
<1>4. CASE Spawn(c)
  BY <1>4, SpawnPromise
<1>5. CASE SpawnFails(c)
  BY <1>5, EasedPromise DEF SpawnFails, Eased, Called, Answers, Results, store
<1>6. CASE Answer(c)
  <2>1. task[c].reply \in Answers \cup {None}
    BY DEF IInv, TypeOK, Task
  <2> QED
    BY <1>6, <2>1, EasedPromise DEF Answer, Eased, Called, store
<1>7. ASSUME NEW result \in Results, Finish(c, result) PROVE Promise!Next
  <2>1. CASE journal' = [journal EXCEPT ![call[c].id] = Recorded(@, result)] /\ Reply(c, result)
    BY <1>7, <2>1, RecordsPromise
  <2>2. CASE UNCHANGED journal /\ Reply(c, "unknown")
    BY <1>7, <2>2, EasedPromise DEF Finish, Eased, Called, Answers, Results
  <2> QED
    BY <1>7, <2>1, <2>2 DEF Finish
<1> QED
  BY <1>2, <1>3, <1>4, <1>5, <1>6, <1>7 DEF ReceiverStep

LEMMA StepPromise == IInv /\ IInv' /\ [Next]_vars => [Promise!Next]_(Promise!promise)
<1> SUFFICES ASSUME IInv, IInv', [Next]_vars PROVE Promise!Next
  OBVIOUS
<1>1. CASE UNCHANGED vars
  BY <1>1, EasedPromise DEF vars, receiver, store, Eased, Called
<1>2. ASSUME NEW c \in Calls, NEW end \in WorkerEndings, WorkerEnds(c, end) PROVE Promise!Next
  BY <1>2, WorkerPromise
<1>3. ASSUME NEW b \in Bindings, ReceiverStarts(b) PROVE Promise!Next
  BY <1>3, EasedPromise DEF ReceiverStarts, Eased, Called, store
<1>4. CASE ReceiverGone
  BY <1>4, EasedPromise DEF ReceiverGone, Eased, Called, store
<1>5. CASE Revoke \/ Backup
  BY <1>5, EasedPromise DEF Revoke, Backup, Operator, receiver, Eased, Called
<1>6. CASE Restore
  BY <1>6, RestorePromise
<1> QED
  BY <1>1, <1>2, <1>3, <1>4, <1>5, <1>6, CallPromise, HandlerPromise DEF Next

(* Deliveries between paired devices keep the handoff ledger's promise:    *)
(* whatever is lost, killed, revoked or restored, an id is a licence for   *)
(* at most one submission, one that is spent or that an archive no longer  *)
(* knows never opens again, and every recorded outcome is true.            *)
THEOREM PromiseKept == Spec => KeepsPromise
<1>1. Init => Promise!Init
  <2> SUFFICES ASSUME Init PROVE Promise!Init
    OBVIOUS
  <2>1. IInv
    BY InitInv
  <2>2. ASSUME NEW i \in Ids PROVE Licence(i) = "open" /\ Cardinality(Submitters(i)) = 0 /\ Fact(i) = "none"
    <3>1. journal[i] = NoRow /\ ~recovery /\ \A c \in Calls : worker[c] = "none"
      BY DEF Init
    <3>2. Submitters(i) = {}
      BY <3>1 DEF Submitters, For
    <3> QED
      BY <2>1, <3>1, <3>2, NoneAssumption, LicenceFacts, SubmitterFacts DEF NoRow, Fact, Answers, Results
  <2> QED
    BY <2>2 DEF Promise!Init
<1> QED
  BY <1>1, StepPromise, Invariance, PTL DEF Spec, KeepsPromise, Promise!Spec
=============================================================================
