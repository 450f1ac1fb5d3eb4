------------------------- MODULE SubmissionPromise -------------------------
(***************************************************************************)
(* What a correlated handoff promises, with no ledger, collector or        *)
(* processes: each correlation id is a licence for at most one native      *)
(* submission, a spent licence never reopens, and the only facts ever      *)
(* claimed about a submission are true ones.  One step may concern several *)
(* ids (retention or a quarantine touches the whole ledger), so a step is  *)
(* a choice for every id at once.                                          *)
(***************************************************************************)
EXTENDS Naturals

CONSTANT Ids

VARIABLES
  licence,   \* "open": may still be sent; "held": someone may be sending; "spent"
  sent,      \* submissions the receiving session got
  fact       \* what is claimed: "submitted", "refused", or nothing

promise == <<licence, sent, fact>>

Init ==
  /\ licence = [i \in Ids |-> "open"]
  /\ sent = [i \in Ids |-> 0]
  /\ fact = [i \in Ids |-> "none"]

Stay(i) == licence'[i] = licence[i] /\ sent'[i] = sent[i] /\ fact'[i] = fact[i]

Take(i) ==
  /\ licence[i] = "open" /\ licence'[i] = "held"
  /\ sent'[i] = sent[i] /\ fact'[i] = fact[i]

Use(i) ==
  /\ licence[i] = "held" /\ licence'[i] = "spent"
  /\ sent'[i] \in {sent[i], sent[i] + 1} /\ fact'[i] = fact[i]

(* Refused before any native call.                                         *)
Refuse(i) ==
  /\ licence[i] = "open" /\ licence'[i] = "spent"
  /\ sent'[i] = sent[i] /\ fact'[i] = "refused"

Learn(i) ==
  /\ licence[i] = "spent" /\ licence'[i] = "spent" /\ sent'[i] = sent[i]
  /\ \/ sent[i] = 1 /\ fact'[i] = "submitted"
     \/ sent[i] = 0 /\ fact'[i] = "refused"

(* History is lost, and with it the right to send.                         *)
Forget(i) ==
  /\ licence'[i] = IF licence[i] = "open" THEN "spent" ELSE licence[i]
  /\ sent'[i] = sent[i] /\ fact'[i] = "none"

Next == \A i \in Ids : Stay(i) \/ Take(i) \/ Use(i) \/ Refuse(i) \/ Learn(i) \/ Forget(i)

Spec == Init /\ [][Next]_promise
=============================================================================
