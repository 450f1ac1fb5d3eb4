---------------------------- MODULE AccountGate ----------------------------
(***************************************************************************)
(* Who may sign in to the control server and act through it                *)
(* (control/src/server/auth.ts, app.ts): provider identities on an         *)
(* allowlist or with a reservation of their own, the sessions made for     *)
(* them, and the codes that let a command-line client sign in.             *)
(*                                                                         *)
(* Requests are served concurrently: each of the awaits in a handler lets  *)
(* others run, and every database statement or transaction is one step.    *)
(* Better Auth, which creates users, accounts, sessions and codes, is      *)
(* external: it calls the hooks and may stop between any two of its steps. *)
(***************************************************************************)
EXTENDS Integers, FiniteSets

CONSTANTS
  Identities,   \* provider accounts; each is a user of its own
  Allowlisted,  \* those the configuration names
  Legacy,       \* those whose account is older than reservations
  Callbacks,    \* sign-ins of a provider, running or done
  SessionIds,   \* sessions ever made, numbered
  Codes,        \* device codes ever asked for
  CodeLimit,    \* MAX_PENDING_DEVICE_CODES
  MaxAsked,     \* approvals of a code ever asked for
  Nobody

ASSUME AccountAssumption == /\ Allowlisted \subseteq Identities /\ Legacy \subseteq Identities
                            /\ Nobody \notin Identities /\ SessionIds \subseteq Nat \ {0}
                            /\ CodeLimit \in Nat /\ MaxAsked \in Nat

VARIABLES
  open,         \* public signup is enabled
  slot,         \* relay_public_signups: the reservation of each identity
  overdue,      \* pending reservations whose ten minutes are over
  account,      \* identities with an account
  callback,     \* each sign-in: its identity and how far it is
  session,      \* each session: its user, or Nobody
  madeFor,      \* ghost: the user each session was made for
  orphans,      \* ghost: accounts that were created after their reservation had gone
  code,         \* each device code: its state and its user
  claim,        \* relay_device_claims: the session that opened a code
  asking,       \* requests for a code between their reservation and their end
  approval,     \* approvals between their checks and the handler
  asked         \* approvals so far

accountVars == <<open, slot, overdue, account, callback, session, madeFor, orphans, code, claim, asking, approval, asked>>
signinVars == <<open, slot, overdue, account, orphans, callback>>
codeVars == <<code, claim, asking, approval, asked>>

NoCode == [state |-> "none", user |-> Nobody]
NoApproval == [session |-> 0, user |-> Nobody, code |-> Nobody]
AccountInit ==
  /\ open \in BOOLEAN /\ slot = [i \in Identities |-> "none"] /\ overdue = {}
  /\ account = Legacy /\ callback = [k \in Callbacks |-> [who |-> Nobody, pc |-> "idle"]]
  /\ session = [s \in SessionIds |-> Nobody] /\ madeFor = [s \in SessionIds |-> Nobody] /\ orphans = {}
  /\ code = [c \in Codes |-> NoCode] /\ claim = [c \in Codes |-> 0]
  /\ asking = {} /\ approval = NoApproval /\ asked = 0

-----------------------------------------------------------------------------
(* authorizeAccount, in one immediate transaction: overdue reservations     *)
(* without an account go; then an account needs its reservation, a          *)
(* reservation is enough, and only an open signup makes a new one.          *)
KeptSlot(i) == ~(slot[i] = "pending" /\ i \in overdue /\ i \notin account)
Pruned == [i \in Identities |-> IF KeptSlot(i) THEN slot[i] ELSE "none"]
Adopts(i) == i \in account /\ Pruned[i] # "none"
Authorizes(k, i) ==
  /\ callback[k].pc = "idle"
  /\ LET reserves == i \notin account /\ Pruned[i] = "none" /\ open
         passes == i \in Allowlisted \/ Adopts(i) \/ (i \notin account /\ Pruned[i] # "none") \/ reserves
     IN /\ slot' = IF i \in Allowlisted THEN slot
                   ELSE [Pruned EXCEPT ![i] = IF Adopts(i) THEN "active" ELSE IF reserves THEN "pending" ELSE @]
        /\ overdue' = {j \in overdue : slot'[j] = "pending"}
        /\ callback' = [callback EXCEPT ![k] = [who |-> i, pc |-> IF passes THEN "passed" ELSE "over"]]
  /\ UNCHANGED <<open, account, orphans, session, madeFor, codeVars>>

CallbackGoes(k, pc) == callback' = [callback EXCEPT ![k].pc = pc]
(* The hook before an account is created; the account itself comes later.   *)
Reserved(i) == slot[i] = "active" \/ (slot[i] = "pending" /\ i \notin overdue)
ChecksAccount(k) ==
  /\ callback[k].pc = "passed"
  /\ CallbackGoes(k, IF callback[k].who \in account THEN "known"
                     ELSE IF callback[k].who \in Allowlisted \/ Reserved(callback[k].who) THEN "checked" ELSE "over")
  /\ UNCHANGED <<open, slot, overdue, account, orphans, session, madeFor, codeVars>>
CreatesAccount(k) ==
  /\ callback[k].pc = "checked" /\ account' = account \cup {callback[k].who} /\ CallbackGoes(k, "known")
  /\ orphans' = IF slot[callback[k].who] = "none" THEN orphans \cup {callback[k].who} ELSE orphans
  /\ UNCHANGED <<open, slot, overdue, session, madeFor, codeVars>>

(* allowedUser: the account's reservation becomes active when it is used.   *)
PublicAllowed(i) == i \in account /\ slot[i] # "none"
Allowed(i) == i \in account /\ (i \in Allowlisted \/ PublicAllowed(i))
Confirmed(i) == IF i \notin Allowlisted /\ PublicAllowed(i) THEN [slot EXCEPT ![i] = "active"] ELSE slot
OverdueAfter(i) == IF i \in Allowlisted THEN overdue ELSE overdue \ {i}
(* Every session is made with this hook, whoever asks for it.               *)
MakesSession(s, i) ==
  /\ madeFor[s] = Nobody /\ \A t \in SessionIds : t < s => madeFor[t] # Nobody
  /\ slot' = Confirmed(i) /\ overdue' = OverdueAfter(i)
  /\ IF Allowed(i)
     THEN session' = [session EXCEPT ![s] = i] /\ madeFor' = [madeFor EXCEPT ![s] = i]
     ELSE UNCHANGED <<session, madeFor>>
SignsIn(k, s) ==
  /\ callback[k].pc = "known" /\ MakesSession(s, callback[k].who) /\ CallbackGoes(k, "over")
  /\ UNCHANGED <<open, account, orphans, codeVars>>
CallbackStops(k) ==
  /\ callback[k].pc \in {"passed", "checked", "known"} /\ CallbackGoes(k, "over")
  /\ UNCHANGED <<open, slot, overdue, account, orphans, session, madeFor, codeVars>>
ReservationOverdue(i) ==
  /\ slot[i] = "pending" /\ i \notin overdue /\ overdue' = overdue \cup {i}
  /\ UNCHANGED <<open, slot, account, orphans, callback, session, madeFor, codeVars>>
(* The server is started again with public signup closed.                   *)
SignupCloses ==
  /\ open /\ open' = FALSE /\ callback' = [k \in Callbacks |-> [callback[k] EXCEPT !.pc = IF @ = "idle" THEN @ ELSE "over"]]
  /\ asking' = {} /\ approval' = NoApproval
  /\ UNCHANGED <<slot, overdue, account, orphans, session, madeFor, code, claim, asked>>

(* Sessions end by themselves, by sign-out or by the user's revocations;    *)
(* a revocation may be admitted before its own session ends, and act after. *)
Revoked(ends) == session' = [s \in SessionIds |-> IF s \in ends THEN Nobody ELSE session[s]]
SessionsEnd(s, which) ==
  /\ madeFor[s] # Nobody
  /\ LET users == {t \in SessionIds : session[t] = madeFor[s]}
         ends == CASE which = "this" -> {s} [] which = "others" -> users \ {s} [] which = "all" -> users
     IN Revoked(ends)
  /\ session' # session
  /\ UNCHANGED <<signinVars, madeFor, codeVars>>

-----------------------------------------------------------------------------
(* A code is asked for: DeviceCodeGate counts the stored and the reserved   *)
(* ones; Better Auth stores it, or not; then the reservation goes.          *)
PendingCodes == {c \in Codes : code[c].state \in {"pending", "approved", "denied"}}
GateOpen == Cardinality(PendingCodes) + Cardinality(asking) < CodeLimit
AsksCode(c) ==
  /\ code[c].state = "none" /\ c \notin asking /\ GateOpen /\ asking' = asking \cup {c}
  /\ UNCHANGED <<signinVars, session, madeFor, code, claim, approval, asked>>
StoresCode(c) ==
  /\ c \in asking /\ code[c].state = "none" /\ code' = [code EXCEPT ![c].state = "pending"]
  /\ UNCHANGED <<signinVars, session, madeFor, claim, asking, approval, asked>>
EndsAsking(c) ==
  /\ c \in asking /\ asking' = asking \ {c}
  /\ code' = [code EXCEPT ![c].state = IF @ = "none" THEN "gone" ELSE @]
  /\ UNCHANGED <<signinVars, session, madeFor, claim, approval, asked>>
CodeExpires(c) ==
  /\ c \in PendingCodes \ asking /\ code' = [code EXCEPT ![c] = [NoCode EXCEPT !.state = "gone"]]
  /\ claim' = [claim EXCEPT ![c] = 0]
  /\ UNCHANGED <<signinVars, session, madeFor, asking, approval, asked>>

(* The page of a code: the first session of an allowed user that opens it   *)
(* claims it.  To approve needs the claim; the handler comes after it.      *)
Acts(s, c) == session[s] # Nobody /\ Allowed(session[s]) /\ code[c].state \in {"pending", "approved", "denied"}
              /\ code[c].user \in {Nobody, session[s]}
OpensCode(s, c) ==
  /\ Acts(s, c) /\ claim[c] = 0 /\ claim' = [claim EXCEPT ![c] = s]
  /\ slot' = Confirmed(session[s]) /\ overdue' = OverdueAfter(session[s])
  /\ UNCHANGED <<open, account, orphans, callback, session, madeFor, code, asking, approval, asked>>
MayApproveMutant(s, c) == TRUE
MayApprove(s, c) == claim[c] = s
ApprovalChecked(s, c) ==
  /\ asked < MaxAsked /\ approval = NoApproval /\ Acts(s, c) /\ MayApprove(s, c) /\ code[c].state = "pending"
  /\ approval' = [session |-> s, user |-> session[s], code |-> c] /\ asked' = asked + 1
  /\ slot' = Confirmed(session[s]) /\ overdue' = OverdueAfter(session[s])
  /\ UNCHANGED <<open, account, orphans, callback, session, madeFor, code, claim, asking>>
(* Better Auth looks at the session and the code again.                     *)
Decides(state) ==
  /\ approval # NoApproval /\ approval' = NoApproval
  /\ IF session[approval.session] = approval.user /\ code[approval.code].state = "pending"
     THEN code' = [code EXCEPT ![approval.code] = [state |-> state, user |-> approval.user]] ELSE UNCHANGED code
  /\ UNCHANGED <<signinVars, session, madeFor, claim, asking, asked>>
(* The client's poll turns an approved code into a session, once.           *)
Redeems(c, s) ==
  /\ code[c].state = "approved" /\ MakesSession(s, code[c].user)
  /\ code' = [code EXCEPT ![c] = [state |-> "gone", user |-> code[c].user]]
  /\ UNCHANGED <<open, account, orphans, callback, claim, asking, approval, asked>>

AccountNext ==
  \/ \E k \in Callbacks : \/ \E i \in Identities : Authorizes(k, i)
                          \/ ChecksAccount(k) \/ CreatesAccount(k) \/ CallbackStops(k)
                          \/ \E s \in SessionIds : SignsIn(k, s)
  \/ \E i \in Identities : ReservationOverdue(i)
  \/ SignupCloses
  \/ \E s \in SessionIds, which \in {"this", "others", "all"} : SessionsEnd(s, which)
  \/ \E c \in Codes : AsksCode(c) \/ StoresCode(c) \/ EndsAsking(c) \/ CodeExpires(c)
  \/ \E s \in SessionIds, c \in Codes : OpensCode(s, c) \/ ApprovalChecked(s, c) \/ Redeems(c, s)
  \/ \E state \in {"approved", "denied"} : Decides(state)
AccountSpec == AccountInit /\ [][AccountNext]_accountVars

-----------------------------------------------------------------------------
(* An account older than reservations is never adopted by an open signup,   *)
(* and whoever else is signed in holds a reservation that was confirmed.    *)
NobodyAdopted ==
  \A s \in SessionIds :
    session[s] # Nobody /\ session[s] \notin Allowlisted => session[s] \notin Legacy /\ slot[session[s]] = "active"
(* A reservation that an account rests on does not expire under it.         *)
ReservationsKept == \A i \in account \ (Allowlisted \cup Legacy \cup orphans) : slot[i] # "none"
(* However many requests run at once, no more codes than the limit are      *)
(* waiting; and a code is approved only for the user, and through the       *)
(* session, that opened it first.                                           *)
CodesBounded == Cardinality(PendingCodes) <= CodeLimit
ApprovedByClaimer ==
  \A c \in Codes : code[c].state = "approved" => claim[c] # 0 /\ madeFor[claim[c]] = code[c].user
(* A decision is only ever under way for the session that holds the claim.  *)
AskedByClaimer == approval # NoApproval => claim[approval.code] \in {approval.session, 0}

(* Concurrent sign-ins, expiries, revocations and approvals let nobody in   *)
(* whom neither the allowlist nor a reservation of his own admits.          *)
AccountsSafe == NobodyAdopted /\ ReservationsKept /\ CodesBounded /\ ApprovedByClaimer /\ AskedByClaimer
=============================================================================
