------------------------------ MODULE ProgramProofs ------------------------------
(***************************************************************************)
(* Proofs about what runs in, or beside, one program: the accounts of the  *)
(* control server (AccountGate), the watch of a handoff (HandoffWatch),    *)
(* the Antigravity bridge (AntigravityBridge), the tool server (McpServer),*)
(* posting to Claude sessions (ClaudeInbox) and the relay's rooms          *)
(* (RelayRooms).                                                           *)
(***************************************************************************)
EXTENDS AccountGate, HandoffWatch, AntigravityBridge, McpServer, ClaudeInbox, RelayRooms,
        FiniteSetTheorems, SequenceTheorems, WellFoundedInduction, TLAPS

-----------------------------------------------------------------------------
(* The accounts of the control server.                                     *)

Users == Identities \cup {Nobody}
Waits == {"pending", "approved", "denied"}

AccountTypeOK ==
  /\ open \in BOOLEAN /\ slot \in [Identities -> {"none", "pending", "active"}]
  /\ overdue \subseteq {i \in Identities : slot[i] = "pending"}
  /\ account \subseteq Identities /\ orphans \subseteq Identities
  /\ callback \in [Callbacks -> [who : Users, pc : {"idle", "passed", "checked", "known", "over"}]]
  /\ session \in [SessionIds -> Users] /\ madeFor \in [SessionIds -> Users]
  /\ code \in [Codes -> [state : {"none", "gone"} \cup Waits, user : Users]]
  /\ claim \in [Codes -> SessionIds \cup {0}] /\ asking \in SUBSET Codes /\ asked \in Nat
  /\ approval = NoApproval \/ approval \in [session : SessionIds, user : Identities, code : Codes]

(* A sign-in past its first check is for an identity; a session is its     *)
(* user's or ended.                                                        *)
SigningIn == \A k \in Callbacks : callback[k].pc \in {"passed", "checked", "known"} => callback[k].who \in Identities
SessionsOwned == \A s \in SessionIds : session[s] \in {Nobody, madeFor[s]}
(* Nobody on the allowlist and nobody older than reservations ever has one. *)
LegacyBare == Legacy \subseteq account /\ \A i \in Allowlisted \cup Legacy : slot[i] = "none"

(* The codes that wait and those being asked for fit the limit together.   *)
GateHolds ==
  IsFiniteSet(PendingCodes) /\ IsFiniteSet(asking) /\ Cardinality(PendingCodes \cup asking) <= CodeLimit
(* What is being approved was opened by this session, unless it is over.   *)
UnderWay ==
  approval # NoApproval =>
    /\ code[approval.code].state # "none"
    /\ code[approval.code].state \in Waits => claim[approval.code] = approval.session
    /\ code[approval.code].state = "gone" => claim[approval.code] \in {approval.session, 0}
ApprovedFor == \A c \in Codes : code[c].state = "approved" => code[c].user \in Identities

AccountInv ==
  /\ AccountTypeOK /\ SigningIn /\ SessionsOwned /\ LegacyBare /\ GateHolds /\ UnderWay /\ ApprovedFor
  /\ NobodyAdopted /\ ReservationsKept /\ ApprovedByClaimer

LEMMA AccountInitially == AccountInit => AccountInv
<1> SUFFICES ASSUME AccountInit PROVE AccountInv
  OBVIOUS
<1>1. AccountTypeOK
  BY AccountAssumption DEF AccountInit, AccountTypeOK, Users, Waits, NoCode
<1>2. SigningIn /\ SessionsOwned /\ LegacyBare /\ UnderWay /\ ApprovedFor
  BY AccountAssumption DEF AccountInit, SigningIn, SessionsOwned, LegacyBare, UnderWay, ApprovedFor, NoCode
<1>3. GateHolds
  <2>1. PendingCodes = {} /\ asking = {} BY DEF AccountInit, PendingCodes, NoCode
  <2> QED BY <2>1, FS_EmptySet, AccountAssumption DEF GateHolds
<1>4. NobodyAdopted /\ ReservationsKept /\ ApprovedByClaimer
  BY DEF AccountInit, NobodyAdopted, ReservationsKept, ApprovedByClaimer, NoCode
<1> QED BY <1>1, <1>2, <1>3, <1>4 DEF AccountInv

(* What the steps of sign-ins keep: reservations change only so that a      *)
(* legacy account gets none, what is active stays so, and what an account   *)
(* rests on is not lost; sessions end, or begin for an active reservation.  *)
LEMMA SignInKeeps ==
  ASSUME AccountInv, AccountTypeOK', SigningIn', SessionsOwned', LegacyBare',
         UNCHANGED <<code, claim, asking, approval>>,
         \A i \in Identities : slot[i] = "active" => slot'[i] = "active",
         \A s \in SessionIds : session'[s] # Nobody /\ session'[s] \notin Allowlisted /\ session'[s] # session[s]
           => session'[s] \notin Legacy /\ slot'[session'[s]] = "active",
         \A s \in SessionIds : madeFor[s] # Nobody => madeFor'[s] = madeFor[s],
         ReservationsKept'
  PROVE  AccountInv'
<1>1. GateHolds' BY DEF AccountInv, GateHolds, PendingCodes
<1>2. UnderWay' /\ ApprovedFor' BY DEF AccountInv, UnderWay, ApprovedFor
<1>3. NobodyAdopted'
  <2> SUFFICES ASSUME NEW s \in SessionIds, session'[s] # Nobody, session'[s] \notin Allowlisted
               PROVE  session'[s] \notin Legacy /\ slot'[session'[s]] = "active"
    BY DEF NobodyAdopted
  <2>1. CASE session'[s] = session[s]
    <3>1. session[s] \notin Legacy /\ slot[session[s]] = "active"
      BY <2>1 DEF AccountInv, NobodyAdopted
    <3>2. session[s] \in Identities BY <2>1 DEF AccountInv, AccountTypeOK, Users
    <3> QED BY <2>1, <3>1, <3>2
  <2> QED BY <2>1
<1>4. ApprovedByClaimer'
  <2> SUFFICES ASSUME NEW c \in Codes, code[c].state = "approved"
               PROVE  claim[c] # 0 /\ madeFor'[claim[c]] = code[c].user
    BY DEF ApprovedByClaimer
  <2>1. claim[c] # 0 /\ madeFor[claim[c]] = code[c].user /\ code[c].user \in Identities
    BY DEF AccountInv, ApprovedByClaimer, ApprovedFor
  <2>2. claim[c] \in SessionIds BY <2>1 DEF AccountInv, AccountTypeOK
  <2> QED BY <2>1, <2>2, AccountAssumption
<1> QED BY <1>1, <1>2, <1>3, <1>4 DEF AccountInv

(* The reservations after somebody's are looked at.                        *)
LEMMA ConfirmedSlots ==
  ASSUME AccountInv, NEW i \in Identities, slot' = Confirmed(i), overdue' = OverdueAfter(i), UNCHANGED <<account, orphans>>
  PROVE  /\ slot' \in [Identities -> {"none", "pending", "active"}]
         /\ overdue' \subseteq {j \in Identities : slot'[j] = "pending"}
         /\ \A j \in Identities : slot[j] = "active" => slot'[j] = "active"
         /\ LegacyBare' /\ ReservationsKept'
         /\ Allowed(i) /\ i \notin Allowlisted => i \notin Legacy /\ slot'[i] = "active"
<1>1. CASE i \notin Allowlisted /\ PublicAllowed(i)
  <2>1. slot' = [slot EXCEPT ![i] = "active"] /\ overdue' = overdue \ {i}
    BY <1>1 DEF Confirmed, OverdueAfter
  <2>2. slot \in [Identities -> {"none", "pending", "active"}] /\ overdue \subseteq {j \in Identities : slot[j] = "pending"}
    BY DEF AccountInv, AccountTypeOK
  <2>3. slot'[i] = "active" /\ \A j \in Identities : j # i => slot'[j] = slot[j]
    BY <2>1, <2>2
  <2>4. slot[i] # "none" /\ i \notin Legacy
    BY <1>1 DEF PublicAllowed, AccountInv, LegacyBare
  <2>5. LegacyBare' BY <1>1, <2>3, <2>4, AccountAssumption DEF AccountInv, LegacyBare
  <2>6. ReservationsKept' BY <2>3 DEF AccountInv, ReservationsKept, AccountTypeOK
  <2> QED BY <2>1, <2>2, <2>3, <2>4, <2>5, <2>6
<1>2. CASE ~(i \notin Allowlisted /\ PublicAllowed(i))
  <2>1. slot' = slot /\ overdue' \subseteq overdue BY <1>2 DEF Confirmed, OverdueAfter
  <2>2. ~(Allowed(i) /\ i \notin Allowlisted) BY <1>2 DEF Allowed
  <2> QED BY <2>1, <2>2 DEF AccountInv, AccountTypeOK, LegacyBare, ReservationsKept
<1> QED BY <1>1, <1>2

LEMMA SessionMade ==
  ASSUME AccountInv, NEW s \in SessionIds, NEW i \in Identities, MakesSession(s, i), UNCHANGED <<account, orphans>>
  PROVE  /\ session' \in [SessionIds -> Users] /\ madeFor' \in [SessionIds -> Users]
         /\ SessionsOwned'
         /\ \A t \in SessionIds : session'[t] # Nobody /\ session'[t] \notin Allowlisted /\ session'[t] # session[t]
              => session'[t] \notin Legacy /\ slot'[session'[t]] = "active"
         /\ \A t \in SessionIds : madeFor[t] # Nobody => madeFor'[t] = madeFor[t]
<1>1. session \in [SessionIds -> Users] /\ madeFor \in [SessionIds -> Users] /\ SessionsOwned /\ madeFor[s] = Nobody
  BY DEF AccountInv, AccountTypeOK, MakesSession
<1>2. slot' = Confirmed(i) /\ overdue' = OverdueAfter(i) BY DEF MakesSession
<1>3. CASE Allowed(i)
  <2>1. session' = [session EXCEPT ![s] = i] /\ madeFor' = [madeFor EXCEPT ![s] = i]
    BY <1>3 DEF MakesSession
  <2>2. session'[s] = i /\ madeFor'[s] = i /\ \A t \in SessionIds : t # s => session'[t] = session[t] /\ madeFor'[t] = madeFor[t]
    BY <1>1, <2>1
  <2>3. i \notin Allowlisted => i \notin Legacy /\ slot'[i] = "active"
    BY <1>2, <1>3, ConfirmedSlots
  <2>4. SessionsOwned' BY <1>1, <2>2 DEF SessionsOwned
  <2> QED BY <1>1, <2>1, <2>2, <2>3, <2>4 DEF Users
<1>4. CASE ~Allowed(i) BY <1>1, <1>4 DEF MakesSession, SessionsOwned
<1> QED BY <1>3, <1>4

LEMMA CallbackMoves ==
  ASSUME AccountInv, NEW k \in Callbacks, NEW pc \in {"known", "checked", "over"}, CallbackGoes(k, pc),
         callback[k].pc \in {"passed", "checked", "known"}
  PROVE  /\ callback' \in [Callbacks -> [who : Users, pc : {"idle", "passed", "checked", "known", "over"}]]
         /\ SigningIn' /\ callback[k].who \in Identities
<1>1. callback \in [Callbacks -> [who : Users, pc : {"idle", "passed", "checked", "known", "over"}]] /\ SigningIn
  BY DEF AccountInv, AccountTypeOK
<1>2. /\ callback'[k].who = callback[k].who /\ \A l \in Callbacks : l # k => callback'[l] = callback[l]
      /\ callback' \in [Callbacks -> [who : Users, pc : {"idle", "passed", "checked", "known", "over"}]]
  BY <1>1 DEF CallbackGoes
<1> QED BY <1>1, <1>2 DEF SigningIn

LEMMA SignsInKeeps == ASSUME AccountInv, NEW k \in Callbacks, NEW s \in SessionIds, SignsIn(k, s) PROVE AccountInv'
<1>1. callback[k].pc = "known" /\ MakesSession(s, callback[k].who) /\ CallbackGoes(k, "over")
      /\ UNCHANGED <<open, account, orphans, code, claim, asking, approval, asked>>
  BY DEF SignsIn, codeVars
<1>2. PICK i \in Identities : i = callback[k].who BY <1>1, CallbackMoves
<1>3. slot' = Confirmed(i) /\ overdue' = OverdueAfter(i) /\ MakesSession(s, i)
  BY <1>1, <1>2 DEF MakesSession
<1>4. AccountTypeOK'
  BY <1>1, <1>3, CallbackMoves, ConfirmedSlots, SessionMade DEF AccountInv, AccountTypeOK
<1>5. SigningIn' /\ SessionsOwned' /\ LegacyBare' /\ ReservationsKept'
  BY <1>1, <1>3, CallbackMoves, ConfirmedSlots, SessionMade
<1>6. \A j \in Identities : slot[j] = "active" => slot'[j] = "active"
  BY <1>1, <1>3, ConfirmedSlots
<1>7. \A t \in SessionIds : /\ session'[t] # Nobody /\ session'[t] \notin Allowlisted /\ session'[t] # session[t]
                               => session'[t] \notin Legacy /\ slot'[session'[t]] = "active"
                            /\ madeFor[t] # Nobody => madeFor'[t] = madeFor[t]
  BY <1>1, <1>3, SessionMade
<1> QED BY <1>1, <1>4, <1>5, <1>6, <1>7, SignInKeeps

LEMMA OtherSignIns ==
  ASSUME AccountInv, NEW k \in Callbacks, ChecksAccount(k) \/ CreatesAccount(k) \/ CallbackStops(k) PROVE AccountInv'
<1>1. PICK pc \in {"known", "checked", "over"} : CallbackGoes(k, pc) /\ callback[k].pc \in {"passed", "checked", "known"}
  BY DEF ChecksAccount, CreatesAccount, CallbackStops
<1>2. /\ UNCHANGED <<open, slot, overdue, session, madeFor, code, claim, asking, approval, asked>>
      /\ account \subseteq account' /\ account' \subseteq account \cup {callback[k].who}
      /\ orphans \subseteq orphans' /\ orphans' \subseteq orphans \cup {callback[k].who}
  BY DEF ChecksAccount, CreatesAccount, CallbackStops, codeVars
<1>3. AccountTypeOK' BY <1>1, <1>2, CallbackMoves DEF AccountInv, AccountTypeOK
<1>4. SessionsOwned' /\ LegacyBare' /\ SigningIn'
  BY <1>1, <1>2, CallbackMoves DEF AccountInv, SessionsOwned, LegacyBare
<1>5. ReservationsKept'
  BY <1>2 DEF AccountInv, ReservationsKept, ChecksAccount, CreatesAccount, CallbackStops
<1> QED BY <1>2, <1>3, <1>4, <1>5, SignInKeeps

LEMMA AuthorizesKeeps == ASSUME AccountInv, NEW k \in Callbacks, NEW i \in Identities, Authorizes(k, i) PROVE AccountInv'
<1>1. /\ overdue' = {j \in overdue : slot'[j] = "pending"}
      /\ UNCHANGED <<open, account, orphans, session, madeFor, code, claim, asking, approval, asked>>
  BY DEF Authorizes, codeVars
<1>2. AccountTypeOK /\ SigningIn /\ LegacyBare /\ SessionsOwned /\ ReservationsKept
  BY DEF AccountInv
<1>3. /\ callback' \in [Callbacks -> [who : Users, pc : {"idle", "passed", "checked", "known", "over"}]]
      /\ SigningIn'
  <2>1. PICK pc \in {"passed", "over"} : callback' = [callback EXCEPT ![k] = [who |-> i, pc |-> pc]]
    BY DEF Authorizes
  <2>2. callback \in [Callbacks -> [who : Users, pc : {"idle", "passed", "checked", "known", "over"}]]
    BY <1>2 DEF AccountTypeOK
  <2> QED BY <1>2, <2>1, <2>2 DEF SigningIn, Users
<1>4. /\ slot' \in [Identities -> {"none", "pending", "active"}]
      /\ \A j \in Identities : slot[j] = "active" => slot'[j] = "active"
      /\ \A j \in Identities : j \in account /\ slot[j] # "none" => slot'[j] # "none"
      /\ \A j \in Allowlisted \cup Legacy : slot'[j] = "none"
  <2>1. slot \in [Identities -> {"none", "pending", "active"}] BY <1>2 DEF AccountTypeOK
  <2>2. Allowlisted \cup Legacy \subseteq Identities BY AccountAssumption
  <2>3. CASE i \in Allowlisted BY <1>2, <2>1, <2>3 DEF Authorizes, LegacyBare
  <2>4. CASE i \notin Allowlisted
    <3>1. /\ Pruned \in [Identities -> {"none", "pending", "active"}]
          /\ \A j \in Identities : slot[j] = "active" \/ (j \in account /\ slot[j] # "none") => Pruned[j] = slot[j]
          /\ \A j \in Identities : Pruned[j] \in {slot[j], "none"}
      BY <2>1 DEF Pruned, KeptSlot
    <3>2. PICK v : slot' = [Pruned EXCEPT ![i] = v] /\
                   \/ v = "active" /\ Adopts(i)
                   \/ v = "pending" /\ i \notin account /\ Pruned[i] = "none" /\ ~Adopts(i)
                   \/ v = Pruned[i] /\ ~Adopts(i)
      BY <2>4 DEF Authorizes
    <3>3. v \in {"none", "pending", "active"} /\ (slot[i] = "active" => v = "active")
          /\ (i \in account /\ slot[i] # "none" => v # "none")
      BY <3>1, <3>2
    <3>4. i \in Legacy => v = "none"
      BY <1>2, <2>1, <2>2, <3>1, <3>2 DEF LegacyBare, Adopts
    <3>5. slot'[i] = v /\ \A j \in Identities : j # i => slot'[j] = Pruned[j]
      BY <3>1, <3>2
    <3>6. slot' \in [Identities -> {"none", "pending", "active"}] BY <3>1, <3>2, <3>3
    <3>7. \A j \in Allowlisted \cup Legacy : slot'[j] = "none"
      BY <1>2, <2>2, <2>4, <3>1, <3>4, <3>5 DEF LegacyBare
    <3> QED BY <3>1, <3>3, <3>5, <3>6, <3>7
  <2> QED BY <2>3, <2>4
<1>5. AccountTypeOK' BY <1>1, <1>2, <1>3, <1>4 DEF AccountTypeOK
<1>6. SessionsOwned' /\ LegacyBare' /\ ReservationsKept'
  BY <1>1, <1>2, <1>4 DEF SessionsOwned, LegacyBare, ReservationsKept, AccountTypeOK
<1> QED BY <1>1, <1>3, <1>4, <1>5, <1>6, SignInKeeps

LEMMA SessionsEndKeeps ==
  ASSUME AccountInv, NEW s \in SessionIds, NEW which \in {"this", "others", "all"}, SessionsEnd(s, which) PROVE AccountInv'
<1>1. /\ UNCHANGED <<open, slot, overdue, account, orphans, callback, madeFor, code, claim, asking, approval, asked>>
      /\ \E ends : session' = [t \in SessionIds |-> IF t \in ends THEN Nobody ELSE session[t]]
  BY DEF SessionsEnd, Revoked, signinVars, codeVars
<1>2. session' \in [SessionIds -> Users] /\ \A t \in SessionIds : session'[t] \in {Nobody, session[t]}
  BY <1>1 DEF AccountInv, AccountTypeOK, Users
<1>3. AccountTypeOK' BY <1>1, <1>2 DEF AccountInv, AccountTypeOK
<1>4. SigningIn' /\ SessionsOwned' /\ LegacyBare' /\ ReservationsKept'
  BY <1>1, <1>2 DEF AccountInv, SigningIn, SessionsOwned, LegacyBare, ReservationsKept
<1> QED BY <1>1, <1>2, <1>3, <1>4, SignInKeeps

LEMMA ReservationOverdueKeeps == ASSUME AccountInv, NEW i \in Identities, ReservationOverdue(i) PROVE AccountInv'
<1>1. UNCHANGED <<open, slot, account, orphans, callback, session, madeFor, code, claim, asking, approval, asked>>
  BY DEF ReservationOverdue, codeVars
<1>2. AccountTypeOK' BY <1>1 DEF AccountInv, AccountTypeOK, ReservationOverdue
<1>3. SigningIn' /\ SessionsOwned' /\ LegacyBare' /\ ReservationsKept'
  BY <1>1 DEF AccountInv, SigningIn, SessionsOwned, LegacyBare, ReservationsKept
<1> QED BY <1>1, <1>2, <1>3, SignInKeeps

LEMMA SignupClosesKeeps == ASSUME AccountInv, SignupCloses PROVE AccountInv'
<1>1. /\ UNCHANGED <<slot, overdue, account, orphans, session, madeFor, code, claim, asked>>
      /\ open' = FALSE /\ asking' = {} /\ approval' = NoApproval
      /\ callback' = [k \in Callbacks |-> [callback[k] EXCEPT !.pc = IF @ = "idle" THEN @ ELSE "over"]]
  BY DEF SignupCloses
<1>2. /\ callback' \in [Callbacks -> [who : Users, pc : {"idle", "passed", "checked", "known", "over"}]]
      /\ \A k \in Callbacks : callback'[k].pc \in {"idle", "over"}
  <2> SUFFICES ASSUME NEW k \in Callbacks
               PROVE  /\ [callback[k] EXCEPT !.pc = IF @ = "idle" THEN @ ELSE "over"]
                           \in [who : Users, pc : {"idle", "passed", "checked", "known", "over"}]
                      /\ [callback[k] EXCEPT !.pc = IF @ = "idle" THEN @ ELSE "over"].pc \in {"idle", "over"}
    BY <1>1
  <2>1. callback[k] \in [who : Users, pc : {"idle", "passed", "checked", "known", "over"}]
    BY DEF AccountInv, AccountTypeOK
  <2> QED BY <2>1
<1>3. AccountTypeOK' BY <1>1, <1>2 DEF AccountInv, AccountTypeOK
<1>4. SigningIn' /\ UnderWay' BY <1>1, <1>2 DEF SigningIn, UnderWay
<1>5. GateHolds'
  <2>1. PendingCodes' = PendingCodes BY <1>1 DEF PendingCodes
  <2>2. IsFiniteSet(PendingCodes \cup asking) /\ PendingCodes \subseteq PendingCodes \cup asking
    BY FS_Union DEF AccountInv, GateHolds
  <2>3. Cardinality(PendingCodes) <= Cardinality(PendingCodes \cup asking)
        /\ Cardinality(PendingCodes) \in Nat /\ Cardinality(PendingCodes \cup asking) \in Nat
    BY <2>2, FS_Subset, FS_CardinalityType
  <2>4. Cardinality(PendingCodes) <= CodeLimit
    BY <2>3, AccountAssumption DEF AccountInv, GateHolds
  <2>5. PendingCodes' \cup asking' = PendingCodes BY <1>1, <2>1
  <2>6. IsFiniteSet(PendingCodes') /\ IsFiniteSet(asking')
    BY <1>1, <2>1, FS_EmptySet DEF AccountInv, GateHolds
  <2> QED BY <2>4, <2>5, <2>6 DEF GateHolds
<1>6. SessionsOwned' /\ LegacyBare' /\ ReservationsKept' /\ ApprovedFor' /\ NobodyAdopted' /\ ApprovedByClaimer'
  BY <1>1 DEF AccountInv, SessionsOwned, LegacyBare, ReservationsKept, ApprovedFor, NobodyAdopted, ApprovedByClaimer
<1> QED BY <1>3, <1>4, <1>5, <1>6 DEF AccountInv

(* A step of the codes leaves the sign-ins as they are, or only confirms a  *)
(* reservation.                                                            *)
LEMMA CodeStep ==
  ASSUME AccountInv, AccountTypeOK', GateHolds', UnderWay', ApprovedFor', ApprovedByClaimer',
         UNCHANGED <<account, orphans, callback, session, madeFor>>,
         \/ UNCHANGED <<slot, overdue>>
         \/ \E i \in Identities : slot' = Confirmed(i) /\ overdue' = OverdueAfter(i)
  PROVE  AccountInv'
<1>1. SigningIn' /\ SessionsOwned' BY DEF AccountInv, SigningIn, SessionsOwned
<1>2. LegacyBare' /\ ReservationsKept' /\ \A j \in Identities : slot[j] = "active" => slot'[j] = "active"
  <2>1. CASE UNCHANGED <<slot, overdue>>
    BY <2>1 DEF AccountInv, LegacyBare, ReservationsKept
  <2> QED BY <2>1, ConfirmedSlots
<1>3. NobodyAdopted' BY <1>2 DEF AccountInv, NobodyAdopted, AccountTypeOK, Users
<1> QED BY <1>1, <1>2, <1>3 DEF AccountInv

(* Codes that stop waiting or being asked for make no room too little.      *)
LEMMA GateShrinks ==
  ASSUME AccountInv, PendingCodes' \subseteq PendingCodes \cup asking, asking' \subseteq asking PROVE GateHolds'
<1>1. IsFiniteSet(PendingCodes) /\ IsFiniteSet(asking) /\ Cardinality(PendingCodes \cup asking) <= CodeLimit
  BY DEF AccountInv, GateHolds
<1>2. IsFiniteSet(PendingCodes \cup asking) BY <1>1, FS_Union
<1>3. IsFiniteSet(PendingCodes') /\ IsFiniteSet(asking') BY <1>1, <1>2, FS_Subset
<1>4. /\ Cardinality(PendingCodes' \cup asking') <= Cardinality(PendingCodes \cup asking)
      /\ IsFiniteSet(PendingCodes' \cup asking')
  BY <1>2, FS_Subset
<1>5. Cardinality(PendingCodes' \cup asking') \in Nat /\ Cardinality(PendingCodes \cup asking) \in Nat
  BY <1>2, <1>4, FS_CardinalityType
<1> QED BY <1>1, <1>3, <1>4, <1>5, AccountAssumption DEF GateHolds

LEMMA AsksCodeKeeps == ASSUME AccountInv, NEW c \in Codes, AsksCode(c) PROVE AccountInv'
<1>1. /\ UNCHANGED <<open, slot, overdue, account, orphans, callback, session, madeFor, code, claim, approval, asked>>
      /\ asking' = asking \cup {c} /\ GateOpen
  BY DEF AsksCode, signinVars
<1>2. AccountTypeOK' /\ UnderWay' /\ ApprovedFor' /\ ApprovedByClaimer'
  BY <1>1 DEF AccountInv, AccountTypeOK, UnderWay, ApprovedFor, ApprovedByClaimer
<1>3. GateHolds'
  <2>1. IsFiniteSet(PendingCodes) /\ IsFiniteSet(asking) /\ PendingCodes' = PendingCodes
    BY <1>1 DEF AccountInv, GateHolds, PendingCodes
  <2>2. IsFiniteSet(asking') /\ Cardinality(asking') <= Cardinality(asking) + 1
        /\ Cardinality(asking) \in Nat /\ Cardinality(asking') \in Nat /\ Cardinality(PendingCodes) \in Nat
    <3>1. IsFiniteSet(asking \cup {c}) /\ Cardinality(asking \cup {c}) = IF c \in asking THEN Cardinality(asking) ELSE Cardinality(asking) + 1
      BY <2>1, FS_AddElement
    <3>2. Cardinality(asking) \in Nat /\ Cardinality(PendingCodes) \in Nat
      BY <2>1, FS_CardinalityType
    <3> QED BY <1>1, <3>1, <3>2
  <2>3. Cardinality(PendingCodes \cup asking') <= Cardinality(PendingCodes) + Cardinality(asking')
        /\ Cardinality(PendingCodes \cup asking') \in Nat
    <3>1. IsFiniteSet(PendingCodes \cup asking') /\ IsFiniteSet(PendingCodes \cap asking')
          /\ Cardinality(PendingCodes \cup asking') =
               Cardinality(PendingCodes) + Cardinality(asking') - Cardinality(PendingCodes \cap asking')
      BY <2>1, <2>2, FS_Union, FS_Intersection
    <3>2. Cardinality(PendingCodes \cup asking') \in Nat /\ Cardinality(PendingCodes \cap asking') \in Nat
      BY <3>1, FS_CardinalityType
    <3> QED BY <2>2, <3>1, <3>2
  <2>4. Cardinality(PendingCodes) + Cardinality(asking) < CodeLimit BY <1>1 DEF GateOpen
  <2>5. Cardinality(PendingCodes \cup asking') <= CodeLimit
    BY <2>2, <2>3, <2>4, AccountAssumption
  <2> QED BY <2>1, <2>2, <2>5 DEF GateHolds
<1> QED BY <1>1, <1>2, <1>3, CodeStep

CodeSet == [state : {"none", "gone"} \cup Waits, user : Users]

LEMMA CodeChanges ==
  ASSUME AccountInv, NEW c \in Codes, NEW r \in CodeSet, code' = [code EXCEPT ![c] = r]
  PROVE  /\ code' \in [Codes -> CodeSet] /\ code'[c] = r /\ \A d \in Codes : d # c => code'[d] = code[d]
         /\ r.state \in Waits => PendingCodes' = PendingCodes \cup {c}
         /\ r.state \notin Waits => PendingCodes' = PendingCodes \ {c}
<1>1. code \in [Codes -> CodeSet] BY DEF AccountInv, AccountTypeOK, CodeSet
<1>2. code' \in [Codes -> CodeSet] /\ code'[c] = r /\ \A d \in Codes : d # c => code'[d] = code[d]
  BY <1>1
<1> QED BY <1>2 DEF PendingCodes, Waits

LEMMA StoresKeeps == ASSUME AccountInv, NEW c \in Codes, StoresCode(c) \/ EndsAsking(c) PROVE AccountInv'
<1>1. PICK r \in CodeSet : /\ code' = [code EXCEPT ![c] = r] /\ r.user = code[c].user
                           /\ \/ r.state = code[c].state \/ (code[c].state = "none" /\ r.state \in {"pending", "gone"})
                           /\ r.state \in Waits => c \in PendingCodes \/ c \in asking
  <2>1. code[c] \in CodeSet BY DEF AccountInv, AccountTypeOK, CodeSet
  <2>2. CASE StoresCode(c)
    <3>1. [code[c] EXCEPT !.state = "pending"] \in CodeSet /\ [code[c] EXCEPT !.state = "pending"].state = "pending"
          /\ [code[c] EXCEPT !.state = "pending"].user = code[c].user
      BY <2>1 DEF CodeSet, Waits
    <3> QED BY <2>1, <2>2, <3>1 DEF StoresCode
  <2>3. CASE EndsAsking(c)
    <3> DEFINE r == [code[c] EXCEPT !.state = IF @ = "none" THEN "gone" ELSE @]
    <3>1. r \in CodeSet /\ r.user = code[c].user /\ r.state = IF code[c].state = "none" THEN "gone" ELSE code[c].state
      BY <2>1 DEF CodeSet, Waits
    <3>2. code' = [code EXCEPT ![c] = r] BY <2>3 DEF EndsAsking
    <3> HIDE DEF r
    <3> QED BY <2>1, <3>1, <3>2 DEF PendingCodes, Waits
  <2> QED BY <2>2, <2>3
<1>2. /\ UNCHANGED <<open, slot, overdue, account, orphans, callback, session, madeFor, claim, approval, asked>>
      /\ asking' \subseteq asking
  BY DEF StoresCode, EndsAsking, signinVars
<1>3. code' \in [Codes -> CodeSet] /\ code'[c] = r /\ \A d \in Codes : d # c => code'[d] = code[d]
  BY <1>1, CodeChanges
<1>4. GateHolds' BY <1>1, <1>2, CodeChanges, GateShrinks
<1>5. AccountTypeOK' BY <1>2, <1>3 DEF AccountInv, AccountTypeOK, CodeSet
<1>6. UnderWay' /\ ApprovedFor' /\ ApprovedByClaimer'
  <2>1. approval # NoApproval => approval.code \in Codes
    BY DEF AccountInv, AccountTypeOK
  <2>2. UnderWay' BY <1>1, <1>2, <1>3, <2>1 DEF AccountInv, UnderWay
  <2> QED BY <1>1, <1>2, <1>3, <2>2 DEF AccountInv, ApprovedFor, ApprovedByClaimer
<1> QED BY <1>2, <1>4, <1>5, <1>6, CodeStep

LEMMA CodeExpiresKeeps == ASSUME AccountInv, NEW c \in Codes, CodeExpires(c) PROVE AccountInv'
<1> DEFINE r == [NoCode EXCEPT !.state = "gone"]
<1>1. r \in CodeSet /\ r.state = "gone" /\ code' = [code EXCEPT ![c] = r] /\ claim' = [claim EXCEPT ![c] = 0]
      /\ UNCHANGED <<open, slot, overdue, account, orphans, callback, session, madeFor, asking, approval, asked>>
  BY DEF CodeExpires, signinVars, NoCode, CodeSet, Users
<1> HIDE DEF r
<1>2. /\ code' \in [Codes -> CodeSet] /\ code'[c] = r /\ \A d \in Codes : d # c => code'[d] = code[d]
      /\ PendingCodes' = PendingCodes \ {c}
  BY <1>1, CodeChanges DEF Waits
<1>3. /\ claim' \in [Codes -> SessionIds \cup {0}] /\ claim'[c] = 0 /\ \A d \in Codes : d # c => claim'[d] = claim[d]
  BY <1>1 DEF AccountInv, AccountTypeOK
<1>4. GateHolds' BY <1>1, <1>2, GateShrinks
<1>5. AccountTypeOK' BY <1>1, <1>2, <1>3 DEF AccountInv, AccountTypeOK, CodeSet
<1>6. UnderWay' /\ ApprovedFor' /\ ApprovedByClaimer'
  <2>1. approval # NoApproval => approval.code \in Codes
    BY DEF AccountInv, AccountTypeOK
  <2>2. UnderWay' BY <1>1, <1>2, <1>3, <2>1 DEF AccountInv, UnderWay, Waits
  <2> QED BY <1>1, <1>2, <1>3, <2>2 DEF AccountInv, ApprovedFor, ApprovedByClaimer
<1> QED BY <1>1, <1>4, <1>5, <1>6, CodeStep

LEMMA OpensCodeKeeps == ASSUME AccountInv, NEW s \in SessionIds, NEW c \in Codes, OpensCode(s, c) PROVE AccountInv'
<1>1. /\ claim[c] = 0 /\ claim' = [claim EXCEPT ![c] = s] /\ code[c].state \in Waits
      /\ slot' = Confirmed(session[s]) /\ overdue' = OverdueAfter(session[s]) /\ session[s] # Nobody
      /\ UNCHANGED <<open, account, orphans, callback, session, madeFor, code, asking, approval, asked>>
  BY DEF OpensCode, Acts, Waits
<1>2. PICK i \in Identities : i = session[s]
  BY <1>1 DEF AccountInv, AccountTypeOK, Users
<1>3. slot' = Confirmed(i) /\ overdue' = OverdueAfter(i) BY <1>1, <1>2
<1>4. /\ claim' \in [Codes -> SessionIds \cup {0}] /\ claim'[c] = s /\ \A d \in Codes : d # c => claim'[d] = claim[d]
  BY <1>1 DEF AccountInv, AccountTypeOK
<1>5. AccountTypeOK' BY <1>1, <1>3, <1>4, ConfirmedSlots DEF AccountInv, AccountTypeOK
<1>6. GateHolds' BY <1>1 DEF AccountInv, GateHolds, PendingCodes
<1>7. UnderWay' /\ ApprovedFor' /\ ApprovedByClaimer'
  <2>1. approval # NoApproval => approval.code \in Codes /\ approval.session \in SessionIds
    BY DEF AccountInv, AccountTypeOK
  <2>2. approval # NoApproval /\ approval.code = c => claim[c] \in SessionIds
    BY <1>1, <2>1 DEF AccountInv, UnderWay
  <2>3. UnderWay' BY <1>1, <1>4, <2>1, <2>2, AccountAssumption DEF AccountInv, UnderWay
  <2> QED BY <1>1, <1>4, <2>3 DEF AccountInv, ApprovedFor, ApprovedByClaimer
<1> QED BY <1>1, <1>3, <1>5, <1>6, <1>7, CodeStep

LEMMA ApprovalCheckedKeeps ==
  ASSUME AccountInv, NEW s \in SessionIds, NEW c \in Codes, ApprovalChecked(s, c) PROVE AccountInv'
<1>1. /\ claim[c] = s /\ code[c].state = "pending" /\ asked' = asked + 1
      /\ approval' = [session |-> s, user |-> session[s], code |-> c]
      /\ slot' = Confirmed(session[s]) /\ overdue' = OverdueAfter(session[s]) /\ session[s] # Nobody
      /\ UNCHANGED <<open, account, orphans, callback, session, madeFor, code, claim, asking>>
  BY DEF ApprovalChecked, Acts, MayApprove
<1>2. PICK i \in Identities : i = session[s]
  BY <1>1 DEF AccountInv, AccountTypeOK, Users
<1>3. slot' = Confirmed(i) /\ overdue' = OverdueAfter(i)
      /\ approval' \in [session : SessionIds, user : Identities, code : Codes]
  BY <1>1, <1>2
<1>4. asked' \in Nat BY <1>1 DEF AccountInv, AccountTypeOK
<1>5. AccountTypeOK' BY <1>1, <1>3, <1>4, ConfirmedSlots DEF AccountInv, AccountTypeOK
<1>6. GateHolds' /\ ApprovedFor' /\ ApprovedByClaimer'
  BY <1>1 DEF AccountInv, GateHolds, PendingCodes, ApprovedFor, ApprovedByClaimer
<1>7. UnderWay' BY <1>1 DEF UnderWay
<1> QED BY <1>1, <1>3, <1>5, <1>6, <1>7, CodeStep

LEMMA DecidesKeeps == ASSUME AccountInv, NEW state \in {"approved", "denied"}, Decides(state) PROVE AccountInv'
<1>1. /\ UNCHANGED <<open, slot, overdue, account, orphans, callback, session, madeFor, claim, asking, asked>>
      /\ approval # NoApproval /\ approval' = NoApproval
  BY DEF Decides, signinVars
<1>2. approval.session \in SessionIds /\ approval.user \in Identities /\ approval.code \in Codes
  BY <1>1 DEF AccountInv, AccountTypeOK
<1>3. UnderWay' BY <1>1 DEF UnderWay
<1>4. CASE code' = code
  <2>1. AccountTypeOK' /\ GateHolds' /\ ApprovedFor' /\ ApprovedByClaimer'
    BY <1>1, <1>4 DEF AccountInv, AccountTypeOK, GateHolds, PendingCodes, ApprovedFor, ApprovedByClaimer
  <2> QED BY <1>1, <1>3, <2>1, CodeStep
<1>5. ASSUME code' # code PROVE AccountInv'
  <2>1. PICK c \in Codes : c = approval.code BY <1>2
  <2>2. /\ session[approval.session] = approval.user /\ code[c].state = "pending"
        /\ code' = [code EXCEPT ![c] = [state |-> state, user |-> approval.user]]
    BY <1>5, <2>1 DEF Decides
  <2> DEFINE r == [state |-> state, user |-> approval.user]
  <2>3. r \in CodeSet /\ r.state = state /\ r.user = approval.user
    BY <1>2 DEF CodeSet, Users, Waits
  <2>4. code' = [code EXCEPT ![c] = r] BY <2>2
  <2> HIDE DEF r
  <2>5. /\ code' \in [Codes -> CodeSet] /\ code'[c] = r /\ \A d \in Codes : d # c => code'[d] = code[d]
        /\ PendingCodes' = PendingCodes \cup {c}
    BY <2>3, <2>4, CodeChanges DEF Waits
  <2>6. PendingCodes' \subseteq PendingCodes BY <2>2, <2>5 DEF PendingCodes
  <2>7. claim[c] = approval.session /\ madeFor[claim[c]] = approval.user
    BY <1>1, <1>2, <2>1, <2>2, AccountAssumption DEF AccountInv, UnderWay, SessionsOwned, Waits
  <2>8. GateHolds' BY <1>1, <2>6, GateShrinks
  <2>9. AccountTypeOK' /\ ApprovedFor' /\ ApprovedByClaimer'
    <3>1. claim[c] # 0 BY <1>2, <2>7, AccountAssumption
    <3> QED
      BY <1>1, <1>2, <2>3, <2>5, <2>7, <3>1 DEF AccountInv, AccountTypeOK, CodeSet, ApprovedFor, ApprovedByClaimer
  <2> QED BY <1>1, <1>3, <2>8, <2>9, CodeStep
<1> QED BY <1>4, <1>5

LEMMA RedeemsKeeps == ASSUME AccountInv, NEW c \in Codes, NEW s \in SessionIds, Redeems(c, s) PROVE AccountInv'
<1>1. /\ code[c].state = "approved" /\ MakesSession(s, code[c].user)
      /\ code' = [code EXCEPT ![c] = [state |-> "gone", user |-> code[c].user]]
      /\ UNCHANGED <<open, account, orphans, callback, claim, asking, approval, asked>>
  BY DEF Redeems
<1>2. PICK i \in Identities : i = code[c].user BY <1>1 DEF AccountInv, ApprovedFor
<1>3. slot' = Confirmed(i) /\ overdue' = OverdueAfter(i) /\ MakesSession(s, i)
  BY <1>1, <1>2 DEF MakesSession
<1> DEFINE r == [state |-> "gone", user |-> i]
<1>4. r \in CodeSet /\ r.state = "gone" /\ code' = [code EXCEPT ![c] = r]
  BY <1>1, <1>2 DEF CodeSet, Users
<1> HIDE DEF r
<1>5. /\ code' \in [Codes -> CodeSet] /\ code'[c] = r /\ \A d \in Codes : d # c => code'[d] = code[d]
      /\ PendingCodes' = PendingCodes \ {c}
  BY <1>4, CodeChanges DEF Waits
<1>6. GateHolds' BY <1>1, <1>5, GateShrinks
<1>7. AccountTypeOK'
  BY <1>1, <1>3, <1>5, ConfirmedSlots, SessionMade DEF AccountInv, AccountTypeOK, CodeSet
<1>8. LegacyBare' /\ ReservationsKept' /\ SigningIn' /\ SessionsOwned'
  BY <1>1, <1>3, ConfirmedSlots, SessionMade DEF AccountInv, SigningIn
<1>9. UnderWay' /\ ApprovedFor'
  <2>1. approval # NoApproval => approval.code \in Codes
    BY DEF AccountInv, AccountTypeOK
  <2> QED BY <1>1, <1>4, <1>5, <2>1 DEF AccountInv, UnderWay, Waits, ApprovedFor
<1>10. NobodyAdopted'
  <2> SUFFICES ASSUME NEW t \in SessionIds, session'[t] # Nobody, session'[t] \notin Allowlisted
               PROVE  session'[t] \notin Legacy /\ slot'[session'[t]] = "active"
    BY DEF NobodyAdopted
  <2>1. CASE session'[t] = session[t]
    <3>1. session[t] \notin Legacy /\ slot[session[t]] = "active" /\ session[t] \in Identities
      BY <2>1 DEF AccountInv, NobodyAdopted, AccountTypeOK, Users
    <3> QED BY <1>1, <1>3, <2>1, <3>1, ConfirmedSlots
  <2> QED BY <1>1, <1>3, <2>1, SessionMade
<1>11. ApprovedByClaimer'
  <2> SUFFICES ASSUME NEW d \in Codes, code'[d].state = "approved"
               PROVE  claim[d] # 0 /\ madeFor'[claim[d]] = code'[d].user
    BY <1>1 DEF ApprovedByClaimer
  <2>1. d # c /\ code'[d] = code[d] BY <1>4, <1>5
  <2>2. claim[d] # 0 /\ madeFor[claim[d]] = code[d].user /\ code[d].user \in Identities /\ claim[d] \in SessionIds
    BY <2>1 DEF AccountInv, ApprovedByClaimer, ApprovedFor, AccountTypeOK
  <2>3. madeFor'[claim[d]] = madeFor[claim[d]]
    BY <1>1, <1>3, <2>2, SessionMade, AccountAssumption
  <2> QED BY <2>1, <2>2, <2>3
<1> QED BY <1>6, <1>7, <1>8, <1>9, <1>10, <1>11 DEF AccountInv

LEMMA AccountStep == AccountInv /\ [AccountNext]_accountVars => AccountInv'
<1> SUFFICES ASSUME AccountInv, [AccountNext]_accountVars PROVE AccountInv'
  OBVIOUS
<1>1. ASSUME NEW k \in Callbacks, NEW i \in Identities, Authorizes(k, i) PROVE AccountInv'
  BY <1>1, AuthorizesKeeps
<1>2. ASSUME NEW k \in Callbacks, ChecksAccount(k) \/ CreatesAccount(k) \/ CallbackStops(k) PROVE AccountInv'
  BY <1>2, OtherSignIns
<1>3. ASSUME NEW k \in Callbacks, NEW s \in SessionIds, SignsIn(k, s) PROVE AccountInv'
  BY <1>3, SignsInKeeps
<1>4. ASSUME NEW i \in Identities, ReservationOverdue(i) PROVE AccountInv'
  BY <1>4, ReservationOverdueKeeps
<1>5. CASE SignupCloses BY <1>5, SignupClosesKeeps
<1>6. ASSUME NEW s \in SessionIds, NEW which \in {"this", "others", "all"}, SessionsEnd(s, which) PROVE AccountInv'
  BY <1>6, SessionsEndKeeps
<1>7. ASSUME NEW c \in Codes, AsksCode(c) PROVE AccountInv' BY <1>7, AsksCodeKeeps
<1>8. ASSUME NEW c \in Codes, StoresCode(c) \/ EndsAsking(c) PROVE AccountInv'
  BY <1>8, StoresKeeps
<1>9. ASSUME NEW c \in Codes, CodeExpires(c) PROVE AccountInv' BY <1>9, CodeExpiresKeeps
<1>10. ASSUME NEW s \in SessionIds, NEW c \in Codes, OpensCode(s, c) PROVE AccountInv'
  BY <1>10, OpensCodeKeeps
<1>11. ASSUME NEW s \in SessionIds, NEW c \in Codes, ApprovalChecked(s, c) PROVE AccountInv'
  BY <1>11, ApprovalCheckedKeeps
<1>12. ASSUME NEW s \in SessionIds, NEW c \in Codes, Redeems(c, s) PROVE AccountInv'
  BY <1>12, RedeemsKeeps
<1>13. ASSUME NEW state \in {"approved", "denied"}, Decides(state) PROVE AccountInv'
  BY <1>13, DecidesKeeps
<1>14. CASE UNCHANGED accountVars
  <2>1. AccountTypeOK' /\ GateHolds' /\ UnderWay' /\ ApprovedFor' /\ ApprovedByClaimer'
    BY <1>14 DEF accountVars, AccountInv, AccountTypeOK, GateHolds, PendingCodes, UnderWay, ApprovedFor, ApprovedByClaimer
  <2> QED BY <1>14, <2>1, CodeStep DEF accountVars
<1> QED
  BY <1>1, <1>2, <1>3, <1>4, <1>5, <1>6, <1>7, <1>8, <1>9, <1>10, <1>11, <1>12, <1>13, <1>14 DEF AccountNext

LEMMA AccountSound == AccountInv => AccountsSafe
<1> SUFFICES ASSUME AccountInv PROVE AccountsSafe
  OBVIOUS
<1>1. CodesBounded
  <2>1. IsFiniteSet(PendingCodes \cup asking) BY FS_Union DEF AccountInv, GateHolds
  <2>2. Cardinality(PendingCodes) <= Cardinality(PendingCodes \cup asking) /\ IsFiniteSet(PendingCodes)
    BY <2>1, FS_Subset
  <2>3. Cardinality(PendingCodes) \in Nat /\ Cardinality(PendingCodes \cup asking) \in Nat
    BY <2>1, <2>2, FS_CardinalityType
  <2> QED BY <2>2, <2>3, AccountAssumption DEF CodesBounded, AccountInv, GateHolds
<1>2. AskedByClaimer
  <2>1. approval # NoApproval => code[approval.code].state \in {"none", "gone"} \cup Waits
    BY DEF AccountInv, AccountTypeOK
  <2> QED BY <2>1 DEF AskedByClaimer, AccountInv, UnderWay
<1> QED BY <1>1, <1>2 DEF AccountsSafe, AccountInv

(* Any number of sign-ins, sessions, codes and approvals, with every order  *)
(* of their steps, expiries, revocations and restarts: nobody is signed in  *)
(* whom neither the allowlist nor a confirmed reservation of his own        *)
(* admits, waiting codes fit their limit, and a code is approved only for   *)
(* the session that opened it first.                                        *)
THEOREM AccountsAdmitted == AccountSpec => []AccountsSafe
  BY AccountInitially, AccountStep, AccountSound, PTL DEF AccountSpec

-----------------------------------------------------------------------------
(* A watched handoff.                                                      *)

Reasons == {"", "history_unavailable", "output_unavailable", "duration_elapsed", "history_changed", "output_limit", "interrupted"}
Frames == [kind : {"none", "snapshot", "end"}, epoch : Nat, value : Nat, reason : Reasons, count : Nat, whole : BOOLEAN]
WatcherFields == {"pc", "reason", "snapshots", "used", "damaged", "epoch", "previous", "code"}
HelperStates == {"none", "idle", "writing", "middle", "written", "dead"}

WatchTyped ==
  /\ history \in [epoch : Nat \ {0}, value : Nat] /\ interrupts \in Nat
  /\ helper \in [state : HelperStates, holds : Frames] /\ output \in Seq(Frames)
  /\ DOMAIN watcher = WatcherFields /\ watcher.reason \in Reasons /\ watcher.snapshots \in Nat
  /\ watcher.epoch \in Nat /\ watcher.previous \in Nat /\ watcher.previous <= history.value
  /\ watcher.damaged \in BOOLEAN
  /\ watcher.pc \in {"start", "sample", "pause", "frame", "await", "count", "end", "awaitEnd", "close", "over"}

(* How far the child is when the command is at each of its steps.          *)
Between == watcher.pc \in {"sample", "pause", "frame", "count"} \/ (Doing("end") /\ ~watcher.damaged)
Waiting == watcher.pc \in {"await", "awaitEnd"}
ChildWhere ==
  /\ Doing("start") => helper.state = "none" /\ watcher.snapshots = 0 /\ watcher.epoch = 0
  /\ Between => helper.state \in {"idle", "dead"}
  /\ Waiting => helper.state \in {"writing", "middle", "written", "dead"}
  /\ Doing("over") => helper.state \in {"none", "dead"}
  /\ helper.state = "none" => output = <<>> /\ watcher.pc \in {"start", "over"}

(* What is printed is whole unless the child is in the middle of a frame,  *)
(* or died there; and the frame the child holds belongs behind it.         *)
Complete == \A n \in Places : output[n].whole /\ output[n].kind = "snapshot"
CountOf(f, n) == f.count = n \/ (f.reason = "interrupted" /\ f.count + 1 = n)
Fits(f) ==
  /\ f.kind \in {"snapshot", "end"} /\ f.whole = FALSE
  /\ f.kind = "snapshot" /\ output # <<>> => LastFrame.value < f.value /\ LastFrame.epoch = f.epoch
  /\ f.kind = "end" => CountOf(f, Len(output))
Printed ==
  /\ Between /\ helper.state = "idle" => Complete
  /\ Doing("await") /\ helper.state = "written" => Complete
  /\ helper.state = "writing" => Complete /\ Fits(helper.holds)
  /\ helper.state = "middle" => output # <<>> /\ LastFrame = Holds /\ Holds.kind # "none"

(* The snapshots are those of one history, up to the value seen last.      *)
Looping == watcher.pc \in {"sample", "pause", "frame", "await", "count"}
SeenTrue ==
  /\ Looping /\ watcher.epoch = 0 => output = <<>> /\ Doing("sample")
  /\ Looping /\ output # <<>> => LastFrame.value <= watcher.previous /\ LastFrame.epoch = watcher.epoch
  /\ Doing("frame") /\ output # <<>> => LastFrame.value < watcher.previous
  /\ Doing("await") /\ helper.state \in {"writing", "middle"} =>
       helper.holds.kind = "snapshot" /\ helper.holds.value = watcher.previous /\ helper.holds.epoch = watcher.epoch

(* Every printed snapshot is counted, but for the one in hand.             *)
Counted ==
  /\ watcher.pc \in {"sample", "pause", "frame"} /\ helper.state = "idle" => watcher.snapshots = Len(output)
  /\ Doing("count") /\ helper.state = "idle" => watcher.snapshots + 1 = Len(output)
  /\ Doing("await") /\ helper.state = "writing" => watcher.snapshots = Len(output)
  /\ Doing("await") /\ helper.state \in {"middle", "written"} => watcher.snapshots + 1 = Len(output)
  /\ Doing("end") /\ ~watcher.damaged /\ helper.state = "idle" =>
       \/ watcher.snapshots = Len(output)
       \/ watcher.reason = "interrupted" /\ watcher.snapshots + 1 = Len(output)

(* The end frame says why the loop ended; only a whole one that was         *)
(* acknowledged lets the time's end be told.                               *)
EndPrinted(reason) == output # <<>> /\ LastFrame.kind = "end" /\ LastFrame.whole /\ LastFrame.reason = reason
Ending ==
  /\ Doing("awaitEnd") /\ helper.state \in {"writing", "middle"} =>
       helper.holds.kind = "end" /\ helper.holds.reason = watcher.reason
  /\ Doing("awaitEnd") /\ helper.state = "written" => EndPrinted(watcher.reason)
  /\ Doing("close") /\ watcher.reason = "duration_elapsed" => helper.state \in {"idle", "dead"} /\ EndPrinted("duration_elapsed")
  /\ Doing("over") /\ watcher.code = 0 => EndPrinted("duration_elapsed")
  /\ interrupts > 0 => \/ watcher.pc \in {"end", "awaitEnd", "close"} /\ watcher.reason = "interrupted"
                       \/ Doing("over") /\ watcher.code = 130

WatchInv == WatchTyped /\ ChildWhere /\ Printed /\ SeenTrue /\ Counted /\ Ending /\ StreamSound /\ EndTrue

LEMMA WatchInitially == WatchInit => WatchInv
<1> SUFFICES ASSUME WatchInit PROVE WatchInv
  OBVIOUS
<1>1. NoFrame \in Frames BY DEF NoFrame, Frames, Reasons
<1>2. output = <<>> /\ Len(output) = 0 /\ output \in Seq(Frames)
  BY EmptySeq DEF WatchInit
<1>3. WatchTyped
  BY <1>1, <1>2 DEF WatchInit, WatchTyped, WatcherFields, HelperStates, Reasons
<1>4. StreamSound /\ EndTrue /\ ChildWhere
  BY <1>2 DEF WatchInit, StreamSound, EndTrue, Places, ChildWhere, Between, Waiting, Doing
<1>5. Printed /\ SeenTrue /\ Counted /\ Ending
  BY <1>2 DEF WatchInit, Printed, Between, SeenTrue, Looping, Counted, Ending, Doing
<1> QED BY <1>3, <1>4, <1>5 DEF WatchInv

LEMMA LastTyped ==
  ASSUME WatchTyped, output # <<>> PROVE Len(output) \in Nat \ {0} /\ LastFrame \in Frames
<1>1. output \in Seq(Frames) BY DEF WatchTyped
<1>2. Len(output) \in Nat /\ Len(output) # 0 BY <1>1, EmptySeq, LenProperties
<1>3. output[Len(output)] \in Frames BY <1>1, <1>2, ElementOfSeq
<1> QED BY <1>2, <1>3 DEF LastFrame

LEMMA OutputStays ==
  ASSUME WatchInv, output' = output
  PROVE  /\ StreamSound' /\ EndTrue' /\ (Complete' <=> Complete) /\ LastFrame' = LastFrame
         /\ \A f : Fits(f)' <=> Fits(f)
         /\ \A r : EndPrinted(r)' <=> EndPrinted(r)
  BY DEF WatchInv, StreamSound, EndTrue, Complete, Places, LastFrame, Fits, EndPrinted

(* The command leaves its loop between two frames.                         *)
LEMMA LeavesKeeps ==
  ASSUME WatchInv, watcher.pc \in {"sample", "pause", "frame"}, NEW reason \in Reasons, Leaves(reason),
         UNCHANGED <<history, helper, output, interrupts>>
  PROVE  WatchInv'
<1>1. /\ WatchTyped /\ ChildWhere /\ Printed /\ Counted /\ Ending
      /\ DOMAIN watcher = WatcherFields
  BY DEF WatchInv, WatchTyped
<1>2. /\ DOMAIN watcher' = WatcherFields /\ watcher'.pc = "end" /\ watcher'.reason = reason
      /\ watcher'.snapshots = watcher.snapshots /\ watcher'.damaged = watcher.damaged /\ watcher'.epoch = watcher.epoch
      /\ watcher'.previous = watcher.previous
  BY <1>1 DEF Leaves, WatcherFields
<1>3. WatchTyped' BY <1>1, <1>2 DEF WatchTyped
<1>4. StreamSound' /\ EndTrue' /\ (Complete' <=> Complete) /\ LastFrame' = LastFrame /\ Holds' = Holds
      /\ (Fits(helper.holds)' <=> Fits(helper.holds))
  BY OutputStays DEF Holds
<1>5. ChildWhere' /\ Printed' /\ Counted' /\ Ending' /\ SeenTrue'
  BY <1>1, <1>2, <1>4 DEF ChildWhere, Between, Waiting, Printed, Counted, Ending, SeenTrue, Looping, Doing
<1> QED BY <1>3, <1>4, <1>5 DEF WatchInv

LEMMA SamplesKeeps == ASSUME WatchInv, NEW readable \in BOOLEAN, Samples(readable) PROVE WatchInv'
<1>1. CASE Leaves("duration_elapsed") \/ Leaves("history_unavailable") \/ Leaves("history_changed")
  BY <1>1, LeavesKeeps DEF Samples, Doing, Reasons
<1>2. CASE /\ watcher.epoch \in {0, history.epoch}
           /\ watcher' = [watcher EXCEPT !.epoch = history.epoch, !.previous = history.value,
                            !.pc = IF watcher.previous = history.value THEN "pause" ELSE "frame"]
  <2>1. /\ WatchTyped /\ ChildWhere /\ Printed /\ Counted /\ Ending /\ SeenTrue /\ watcher.pc = "sample"
        /\ DOMAIN watcher = WatcherFields
        /\ UNCHANGED <<history, helper, output, interrupts>>
    BY DEF WatchInv, WatchTyped, Samples, Doing
  <2>2. /\ DOMAIN watcher' = WatcherFields /\ watcher'.reason = watcher.reason
        /\ watcher'.pc = (IF watcher.previous = history.value THEN "pause" ELSE "frame")
        /\ watcher'.snapshots = watcher.snapshots /\ watcher'.damaged = watcher.damaged /\ watcher'.epoch = history.epoch
        /\ watcher'.previous = history.value
    BY <1>2, <2>1 DEF WatcherFields
  <2>3. history.epoch \in Nat \ {0} /\ history.value \in Nat BY <2>1 DEF WatchTyped
  <2>4. WatchTyped' BY <2>1, <2>2, <2>3 DEF WatchTyped
  <2>5. StreamSound' /\ EndTrue' /\ (Complete' <=> Complete) /\ LastFrame' = LastFrame /\ Holds' = Holds
        /\ (Fits(helper.holds)' <=> Fits(helper.holds))
    BY <2>1, OutputStays DEF Holds
  <2>6. ChildWhere' /\ Printed' /\ Counted' /\ Ending'
    BY <2>1, <2>2, <2>5 DEF ChildWhere, Between, Waiting, Printed, Counted, Ending, Doing
  <2>7. SeenTrue'
    <3>1. output # <<>> => LastFrame.value \in Nat BY <2>1, LastTyped DEF Frames
    <3>2. output # <<>> => LastFrame.value <= watcher.previous /\ LastFrame.epoch = watcher.epoch /\ watcher.epoch # 0
      BY <2>1 DEF SeenTrue, Looping, Doing
    <3>3. watcher.previous \in Nat /\ watcher.previous <= history.value
      BY <2>1 DEF WatchTyped
    <3>4. output # <<>> => LastFrame.value <= history.value /\ LastFrame.epoch = history.epoch
      BY <1>2, <2>3, <3>1, <3>2, <3>3
    <3>5. output # <<>> /\ watcher.previous # history.value => LastFrame.value < history.value
      BY <2>3, <3>1, <3>2, <3>3
    <3> QED BY <2>1, <2>2, <2>3, <2>5, <3>4, <3>5 DEF SeenTrue, Looping, Doing
  <2> QED BY <2>4, <2>5, <2>6, <2>7 DEF WatchInv
<1> QED BY <1>1, <1>2 DEF Samples

(* A step of the command alone, from an invariant that is split.           *)
LEMMA CommandStep ==
  ASSUME WatchInv, UNCHANGED <<history, helper, output>>, WatchTyped', SeenTrue', Counted', Ending',
         ChildWhere', Between' /\ helper.state = "idle" => Between, watcher'.pc = "await" => watcher.pc = "await"
  PROVE  WatchInv'
<1>1. StreamSound' /\ EndTrue' /\ (Complete' <=> Complete) /\ LastFrame' = LastFrame /\ Holds' = Holds
      /\ (Fits(helper.holds)' <=> Fits(helper.holds))
  BY OutputStays DEF Holds
<1>2. Printed' BY <1>1 DEF WatchInv, Printed, Doing
<1> QED BY <1>1, <1>2 DEF WatchInv

LEMMA WriterStartsKeeps == ASSUME WatchInv, WriterStarts PROVE WatchInv'
<1>1. /\ WatchTyped /\ ChildWhere /\ Ending /\ watcher.pc = "start" /\ helper.state = "none" /\ output = <<>>
      /\ DOMAIN watcher = WatcherFields /\ UNCHANGED <<history, output, interrupts>> /\ interrupts = 0
  BY DEF WatchInv, WatchTyped, WriterStarts, Doing, ChildWhere, Ending
<1>2. helper'.state \in {"none", "idle"} /\ helper' \in [state : HelperStates, holds : Frames]
  BY <1>1 DEF WriterStarts, WatchTyped, HelperStates
<1>3. /\ DOMAIN watcher' = WatcherFields /\ watcher'.reason \in Reasons
      /\ watcher'.snapshots = watcher.snapshots /\ watcher'.damaged = watcher.damaged /\ watcher'.epoch = watcher.epoch
      /\ watcher'.previous = watcher.previous
      /\ \/ watcher'.pc = "sample" /\ helper'.state = "idle"
         \/ watcher'.pc = "over" /\ watcher'.code = 1 /\ helper'.state = "none"
  <2>1. CASE watcher' = [watcher EXCEPT !.pc = "sample"] /\ helper' = [helper EXCEPT !.state = "idle"]
    BY <1>1, <2>1 DEF WatcherFields, WatchTyped
  <2>2. CASE watcher' = [watcher EXCEPT !.pc = "over", !.reason = "output_unavailable", !.code = 1] /\ helper' = helper
    BY <1>1, <2>2 DEF WatcherFields, WatchTyped, Reasons
  <2> QED BY <2>1, <2>2 DEF WriterStarts
<1>4. WatchTyped' BY <1>1, <1>2, <1>3 DEF WatchTyped
<1>5. Complete' /\ Len(output) = 0 /\ watcher.snapshots = 0 /\ watcher.epoch = 0
  BY <1>1 DEF Complete, Places, ChildWhere, Doing
<1>6. StreamSound' /\ EndTrue' BY <1>1, OutputStays
<1>7. ChildWhere' /\ Printed' /\ SeenTrue' /\ Counted'
  BY <1>1, <1>3, <1>5 DEF ChildWhere, Between, Waiting, Printed, SeenTrue, Looping, Counted, Doing
<1>8. Ending' BY <1>1, <1>3 DEF Ending, Doing
<1> QED BY <1>4, <1>6, <1>7, <1>8 DEF WatchInv

LEMMA PausesKeeps == ASSUME WatchInv, Pauses PROVE WatchInv'
<1>1. CASE Leaves("duration_elapsed") BY <1>1, LeavesKeeps DEF Pauses, Doing, Reasons
<1>2. CASE watcher' = [watcher EXCEPT !.pc = "sample"]
  <2>1. /\ WatchTyped /\ ChildWhere /\ Counted /\ Ending /\ SeenTrue /\ watcher.pc = "pause"
        /\ DOMAIN watcher = WatcherFields /\ UNCHANGED <<history, helper, output, interrupts>>
    BY DEF WatchInv, WatchTyped, Pauses, Doing
  <2>2. /\ DOMAIN watcher' = WatcherFields /\ watcher'.reason = watcher.reason /\ watcher'.pc = "sample"
        /\ watcher'.snapshots = watcher.snapshots /\ watcher'.damaged = watcher.damaged /\ watcher'.epoch = watcher.epoch
        /\ watcher'.previous = watcher.previous
    BY <1>2, <2>1 DEF WatcherFields
  <2>3. WatchTyped' BY <2>1, <2>2 DEF WatchTyped
  <2>4. ChildWhere' /\ Counted' /\ Ending' /\ SeenTrue' /\ Between
    <3>1. LastFrame' = LastFrame BY <2>1 DEF LastFrame
    <3> QED
      BY <2>1, <2>2, <3>1 DEF ChildWhere, Between, Waiting, Counted, Ending, SeenTrue, Looping, Doing
  <2> QED BY <2>1, <2>2, <2>3, <2>4, CommandStep
<1> QED BY <1>1, <1>2 DEF Pauses

LEMMA CountsKeeps == ASSUME WatchInv, Counts PROVE WatchInv'
<1>1. /\ WatchTyped /\ ChildWhere /\ Counted /\ Ending /\ SeenTrue /\ watcher.pc = "count"
      /\ DOMAIN watcher = WatcherFields /\ UNCHANGED <<history, helper, output, interrupts>>
  BY DEF WatchInv, WatchTyped, Counts, Doing
<1>2. /\ DOMAIN watcher' = WatcherFields /\ watcher'.reason = watcher.reason /\ watcher'.pc = "pause"
      /\ watcher'.snapshots = watcher.snapshots + 1 /\ watcher'.damaged = watcher.damaged /\ watcher'.epoch = watcher.epoch
      /\ watcher'.previous = watcher.previous
  BY <1>1 DEF Counts, WatcherFields
<1>3. watcher'.snapshots \in Nat BY <1>1, <1>2 DEF WatchTyped
<1>4. WatchTyped' BY <1>1, <1>2, <1>3 DEF WatchTyped
<1>5. ChildWhere' /\ Counted' /\ Ending' /\ SeenTrue' /\ Between
  <2>1. LastFrame' = LastFrame BY <1>1 DEF LastFrame
  <2> QED
    BY <1>1, <1>2, <2>1 DEF ChildWhere, Between, Waiting, Counted, Ending, SeenTrue, Looping, Doing
<1> QED BY <1>1, <1>2, <1>4, <1>5, CommandStep

(* The command gives up the frame in hand, or the last one, or is           *)
(* interrupted.                                                            *)
LEMMA GivesUpKeeps == ASSUME WatchInv, GivesUp \/ Interrupted PROVE WatchInv'
<1>1. /\ WatchTyped /\ ChildWhere /\ Counted /\ Ending /\ SeenTrue
      /\ DOMAIN watcher = WatcherFields /\ UNCHANGED <<history, helper, output>>
      /\ interrupts' \in Nat /\ (interrupts' # interrupts => interrupts' > 0 /\ Interrupted)
  BY DEF WatchInv, WatchTyped, GivesUp, Interrupted
<1>2. /\ DOMAIN watcher' = WatcherFields /\ watcher'.reason \in Reasons \ {"duration_elapsed"}
      /\ watcher'.snapshots = watcher.snapshots /\ watcher'.damaged \in BOOLEAN /\ watcher'.epoch = watcher.epoch
      /\ watcher'.previous = watcher.previous
      /\ watcher.pc = "count" /\ watcher'.reason # "interrupted" => FALSE
      /\ interrupts' > 0 => watcher'.reason = "interrupted"
      /\ \/ watcher.pc \in {"sample", "pause", "frame", "await", "count"} /\ watcher'.pc = "end"
              /\ (watcher.pc = "await" => watcher'.damaged) /\ (watcher.pc # "await" => watcher'.damaged = watcher.damaged)
         \/ watcher.pc \in {"end", "awaitEnd"} /\ watcher'.pc = "close"
  <2>1. CASE /\ watcher.pc = "await" /\ interrupts' = interrupts
             /\ watcher' = [watcher EXCEPT !.pc = "end", !.damaged = TRUE, !.reason = "output_unavailable"]
    BY <1>1, <2>1 DEF WatcherFields, WatchTyped, Reasons, Ending, Doing
  <2>2. CASE /\ watcher.pc = "awaitEnd" /\ interrupts' = interrupts
             /\ watcher' = [watcher EXCEPT !.pc = "close", !.damaged = TRUE,
                              !.reason = IF @ = "interrupted" THEN @ ELSE "output_unavailable"]
    BY <1>1, <2>2 DEF WatcherFields, WatchTyped, Reasons, Ending, Doing
  <2>3. CASE /\ watcher.pc \in {"sample", "pause", "frame", "await", "count"}
             /\ watcher' = [watcher EXCEPT !.pc = "end", !.reason = "interrupted", !.damaged = @ \/ Doing("await")]
    BY <1>1, <2>3 DEF WatcherFields, WatchTyped, Reasons, Doing
  <2>4. CASE /\ watcher.pc \in {"end", "awaitEnd"}
             /\ watcher' = [watcher EXCEPT !.pc = "close", !.reason = "interrupted", !.damaged = @ \/ Doing("awaitEnd")]
    BY <1>1, <2>4 DEF WatcherFields, WatchTyped, Reasons, Doing
  <2> QED BY <2>1, <2>2, <2>3, <2>4 DEF GivesUp, Interrupted, Doing
<1>3. WatchTyped' BY <1>1, <1>2 DEF WatchTyped
<1>4. ChildWhere' /\ Counted' /\ Ending' /\ SeenTrue' /\ (Between' /\ helper.state = "idle" => Between)
  <2>1. LastFrame' = LastFrame BY <1>1 DEF LastFrame
  <2>2. ChildWhere' /\ (Between' => Between)
    BY <1>1, <1>2 DEF ChildWhere, Between, Waiting, Doing
  <2>3. Counted' /\ SeenTrue' BY <1>1, <1>2 DEF Counted, SeenTrue, Looping, Doing
  <2>4. Ending' BY <1>1, <1>2 DEF Ending, Doing
  <2> QED BY <2>2, <2>3, <2>4
<1> QED BY <1>1, <1>2, <1>3, <1>4, CommandStep

LEMMA SendsSnapshotKeeps == ASSUME WatchInv, SendsSnapshot PROVE WatchInv'
<1>1. /\ WatchTyped /\ ChildWhere /\ Counted /\ Ending /\ SeenTrue /\ Printed /\ watcher.pc = "frame"
      /\ DOMAIN watcher = WatcherFields /\ UNCHANGED <<history, output, interrupts>>
  BY DEF WatchInv, WatchTyped, SendsSnapshot, Doing
<1>2. CASE Leaves("output_limit") /\ helper' = helper
  BY <1>1, <1>2, LeavesKeeps DEF Reasons
<1>3. CASE Leaves("duration_elapsed") /\ helper' = helper
  BY <1>1, <1>3, LeavesKeeps DEF Reasons
<1>4. CASE /\ watcher' = [watcher EXCEPT !.pc = "end", !.reason = "output_unavailable", !.damaged = TRUE]
           /\ helper' = helper
  <2>1. /\ DOMAIN watcher' = WatcherFields /\ watcher'.reason = "output_unavailable" /\ watcher'.pc = "end"
        /\ watcher'.snapshots = watcher.snapshots /\ watcher'.damaged = TRUE /\ watcher'.epoch = watcher.epoch
        /\ watcher'.previous = watcher.previous
    BY <1>1, <1>4 DEF WatcherFields
  <2>2. WatchTyped' BY <1>1, <1>4, <2>1 DEF WatchTyped, Reasons
  <2>3. ChildWhere' /\ Counted' /\ Ending' /\ SeenTrue' /\ ~Between'
    BY <1>1, <1>4, <2>1 DEF ChildWhere, Between, Waiting, Counted, Ending, SeenTrue, Looping, Doing
  <2> QED BY <1>1, <1>4, <2>1, <2>2, <2>3, CommandStep
<1>5. CASE /\ ~Unusable
           /\ watcher' = [watcher EXCEPT !.pc = "await"] /\ helper' = [state |-> "writing", holds |-> Snapshot]
  <2>1. /\ DOMAIN watcher' = WatcherFields /\ watcher'.reason = watcher.reason /\ watcher'.pc = "await"
        /\ watcher'.snapshots = watcher.snapshots /\ watcher'.damaged = watcher.damaged /\ watcher'.epoch = watcher.epoch
        /\ watcher'.previous = watcher.previous
    BY <1>1, <1>5 DEF WatcherFields
  <2>2. Snapshot.kind = "snapshot" /\ Snapshot.whole = FALSE /\ Snapshot.value = watcher.previous /\ Snapshot.epoch = watcher.epoch
    BY DEF Snapshot, NoFrame
  <2>3. Snapshot \in Frames
    <3>1. NoFrame \in Frames BY DEF NoFrame, Frames, Reasons
    <3>2. \A e, v \in Nat : [NoFrame EXCEPT !.kind = "snapshot", !.epoch = e, !.value = v] \in Frames
      BY <3>1 DEF Frames
    <3> QED BY <1>1, <3>2 DEF Snapshot, WatchTyped
  <2>4. helper'.state = "writing" /\ helper'.holds = Snapshot /\ helper.state = "idle"
    BY <1>1, <1>5 DEF Unusable, ChildWhere, Between
  <2>5. WatchTyped'
    <3>1. helper' \in [state : HelperStates, holds : Frames]
      BY <1>5, <2>3 DEF HelperStates
    <3> QED BY <1>1, <2>1, <3>1 DEF WatchTyped
  <2>6. /\ StreamSound' /\ EndTrue' /\ (Complete' <=> Complete) /\ LastFrame' = LastFrame
        /\ \A f : Fits(f)' <=> Fits(f)
    BY <1>1, OutputStays
  <2>7. Complete /\ Fits(Snapshot)
    <3>1. Complete BY <1>1, <2>4 DEF Printed, Between
    <3>2. output # <<>> => LastFrame.value < watcher.previous /\ LastFrame.epoch = watcher.epoch
      BY <1>1 DEF SeenTrue, Looping, Doing
    <3> QED BY <2>2, <3>1, <3>2 DEF Fits
  <2>8. Complete' /\ Fits(helper.holds)'
    <3>1. PICK f : f = Snapshot
      OBVIOUS
    <3>2. Fits(f) /\ helper'.holds = f BY <2>4, <2>7, <3>1
    <3>3. output' = output BY <1>1
    <3> QED BY <2>6, <2>7, <3>2, <3>3 DEF Fits, LastFrame
  <2>9. ChildWhere' /\ Printed' /\ Counted' /\ Ending'
    BY <1>1, <2>1, <2>4, <2>8 DEF ChildWhere, Between, Waiting, Printed, Counted, Ending, Doing
  <2>10. SeenTrue'
    <3>1. Snapshot.kind = "snapshot" /\ Snapshot.value = watcher.previous /\ Snapshot.epoch = watcher.epoch
      BY <2>2
    <3>2. /\ watcher.epoch # 0 /\ (output # <<>> => LastFrame.value < watcher.previous /\ LastFrame.epoch = watcher.epoch)
          /\ watcher.previous \in Nat /\ (output # <<>> => LastFrame.value \in Nat)
      BY <1>1, LastTyped DEF SeenTrue, Looping, Doing, WatchTyped, Frames
    <3>3. output # <<>> => LastFrame.value <= watcher.previous BY <3>2
    <3> QED BY <1>1, <2>1, <2>4, <2>6, <3>1, <3>2, <3>3 DEF SeenTrue, Looping, Doing
  <2> QED BY <2>5, <2>6, <2>9, <2>10 DEF WatchInv
<1> QED BY <1>2, <1>3, <1>4, <1>5 DEF SendsSnapshot

LEMMA SendsEndKeeps == ASSUME WatchInv, SendsEnd PROVE WatchInv'
<1>1. /\ WatchTyped /\ ChildWhere /\ Counted /\ Ending /\ SeenTrue /\ Printed /\ watcher.pc = "end"
      /\ DOMAIN watcher = WatcherFields /\ UNCHANGED <<history, output, interrupts>>
  BY DEF WatchInv, WatchTyped, SendsEnd, Doing
<1>2. CASE /\ watcher' = [watcher EXCEPT !.pc = "close", !.reason = IF @ = "interrupted" THEN @ ELSE "output_unavailable"]
           /\ helper' = helper
  <2>1. /\ DOMAIN watcher' = WatcherFields /\ watcher'.reason \in Reasons \ {"duration_elapsed"} /\ watcher'.pc = "close"
        /\ watcher'.snapshots = watcher.snapshots /\ watcher'.damaged = watcher.damaged /\ watcher'.epoch = watcher.epoch
        /\ watcher'.previous = watcher.previous /\ (watcher.reason = "interrupted" => watcher'.reason = "interrupted")
    BY <1>1, <1>2 DEF WatcherFields, Reasons
  <2>2. WatchTyped' BY <1>1, <1>2, <2>1 DEF WatchTyped
  <2>3. ChildWhere' /\ Counted' /\ Ending' /\ SeenTrue' /\ ~Between'
    BY <1>1, <1>2, <2>1 DEF ChildWhere, Between, Waiting, Counted, Ending, SeenTrue, Looping, Doing
  <2> QED BY <1>1, <1>2, <2>1, <2>2, <2>3, CommandStep
<1>3. CASE /\ ~Unusable
           /\ watcher' = [watcher EXCEPT !.pc = "awaitEnd"] /\ helper' = [state |-> "writing", holds |-> EndFrame]
  <2>1. /\ DOMAIN watcher' = WatcherFields /\ watcher'.reason = watcher.reason /\ watcher'.pc = "awaitEnd"
        /\ watcher'.snapshots = watcher.snapshots /\ watcher'.damaged = watcher.damaged /\ watcher'.epoch = watcher.epoch
        /\ watcher'.previous = watcher.previous
    BY <1>1, <1>3 DEF WatcherFields
  <2>2. /\ EndFrame.kind = "end" /\ EndFrame.whole = FALSE /\ EndFrame.reason = watcher.reason
        /\ EndFrame.count = watcher.snapshots
    BY DEF EndFrame, NoFrame
  <2>3. EndFrame \in Frames
    <3>1. NoFrame \in Frames BY DEF NoFrame, Frames, Reasons
    <3>2. \A r \in Reasons, n \in Nat : [NoFrame EXCEPT !.kind = "end", !.reason = r, !.count = n] \in Frames
      BY <3>1 DEF Frames
    <3> QED BY <1>1, <3>2 DEF EndFrame, WatchTyped
  <2>4. /\ helper'.state = "writing" /\ helper'.holds = EndFrame /\ helper.state = "idle" /\ ~watcher.damaged
        /\ helper'.holds.kind = "end" /\ helper'.holds.reason = watcher.reason
    BY <1>1, <1>3, <2>2 DEF Unusable, ChildWhere, Between, Doing
  <2>5. WatchTyped'
    <3>1. helper' \in [state : HelperStates, holds : Frames]
      BY <1>3, <2>3 DEF HelperStates
    <3> QED BY <1>1, <2>1, <3>1 DEF WatchTyped
  <2>6. StreamSound' /\ EndTrue' /\ (Complete' <=> Complete) /\ LastFrame' = LastFrame
    BY <1>1, OutputStays
  <2>7. Complete /\ Fits(EndFrame)
    <3>2. Complete /\ CountOf(EndFrame, Len(output))
      BY <1>1, <2>2, <2>4 DEF Printed, Between, Counted, CountOf, Doing
    <3> QED BY <2>2, <3>2 DEF Fits
  <2>8. Complete' /\ Fits(helper.holds)'
    <3>1. PICK f : f = EndFrame
      OBVIOUS
    <3>2. Fits(f) /\ helper'.holds = f BY <2>4, <2>7, <3>1
    <3>3. output' = output BY <1>1
    <3> QED BY <2>6, <2>7, <3>2, <3>3 DEF Fits, LastFrame
  <2>9. ChildWhere' /\ Printed' /\ Counted' /\ Ending' /\ SeenTrue'
    BY <1>1, <2>1, <2>4, <2>8 DEF ChildWhere, Between, Waiting, Printed, Counted, Ending, SeenTrue, Looping, Doing
  <2> QED BY <2>5, <2>6, <2>9 DEF WatchInv
<1> QED BY <1>2, <1>3 DEF SendsEnd

(* The child writes a part of the frame it holds.                          *)
LEMMA WritesPartKeeps == ASSUME WatchInv, WritesPart PROVE WatchInv'
<1>1. /\ WatchTyped /\ ChildWhere /\ Counted /\ Ending /\ SeenTrue /\ Printed /\ helper.state = "writing"
      /\ Complete /\ Fits(helper.holds) /\ UNCHANGED <<history, watcher, interrupts>>
      /\ output' = Append(output, Holds) /\ helper' = [helper EXCEPT !.state = "middle"]
  BY DEF WatchInv, WritesPart, Printed
<1>2. /\ helper.holds \in Frames /\ Holds = helper.holds /\ helper'.state = "middle" /\ helper'.holds = helper.holds
      /\ helper' \in [state : HelperStates, holds : Frames] /\ Holds' = Holds
  <2>1. helper.holds \in Frames BY <1>1 DEF WatchTyped
  <2>2. Holds = helper.holds BY <1>1, <2>1 DEF Holds, Fits, Frames
  <2>3. helper'.state = "middle" /\ helper'.holds = helper.holds /\ helper' \in [state : HelperStates, holds : Frames]
    BY <1>1 DEF WatchTyped, HelperStates
  <2>4. Holds' = [helper'.holds EXCEPT !.whole = FALSE] BY DEF Holds
  <2> QED BY <2>1, <2>2, <2>3, <2>4 DEF Holds
<1> DEFINE f == helper.holds
<1>3. /\ output' \in Seq(Frames) /\ Len(output') = Len(output) + 1 /\ output' # <<>> /\ LastFrame' = f
      /\ \A n \in 1..Len(output) : output'[n] = output[n]
      /\ Len(output) \in Nat
  <2>1. output \in Seq(Frames) BY <1>1 DEF WatchTyped
  <2>2. Len(output) \in Nat /\ output' = Append(output, f)
    BY <1>1, <1>2, <2>1, LenProperties
  <2>3. output' \in Seq(Frames) /\ Len(output') = Len(output) + 1 /\ output'[Len(output) + 1] = f
        /\ \A n \in 1..Len(output) : output'[n] = output[n]
    BY <1>2, <2>1, <2>2, AppendProperties
  <2>4. output' # <<>> BY <2>2, <2>3, EmptySeq
  <2> QED BY <2>2, <2>3, <2>4 DEF LastFrame
<1>4. f.kind \in {"snapshot", "end"} /\ f.whole = FALSE /\ (output = <<>> => Len(output) = 0)
      /\ (f.kind = "snapshot" /\ output # <<>> => LastFrame.value < f.value /\ LastFrame.epoch = f.epoch)
      /\ (f.kind = "end" => CountOf(f, Len(output)))
  BY <1>1 DEF Fits
<1> HIDE DEF f
<1>5. StreamSound'
  <2> SUFFICES ASSUME NEW n \in 1..Len(output)
               PROVE  /\ output'[n].whole /\ output'[n].kind = "snapshot"
                      /\ output'[n + 1].kind = "snapshot" => /\ output'[n].value < output'[n + 1].value
                                                              /\ output'[n].epoch = output'[n + 1].epoch
    BY <1>3 DEF StreamSound, Places
  <2>1. output'[n] = output[n] /\ output[n].whole /\ output[n].kind = "snapshot"
    BY <1>1, <1>3 DEF Complete, Places
  <2>2. CASE n < Len(output)
    <3>1. output'[n + 1] = output[n + 1] BY <1>3, <2>2
    <3> QED BY <2>1, <2>2, <3>1 DEF WatchInv, StreamSound, Places
  <2>3. CASE n = Len(output)
    <3>1. output'[n + 1] = f /\ output # <<>> /\ LastFrame = output[n]
      BY <1>3, <1>4, <2>3 DEF LastFrame
    <3> QED BY <1>4, <2>1, <3>1
  <2> QED BY <1>3, <2>2, <2>3
<1>6. EndTrue'
  <2>1. f.count \in Nat BY <1>2 DEF Frames, f
  <2> QED BY <1>3, <1>4, <2>1 DEF EndTrue, CountOf
<1>7. WatchTyped' BY <1>1, <1>2, <1>3 DEF WatchTyped
<1>8. ChildWhere' /\ Counted' /\ Ending'
  BY <1>1, <1>2, <1>3 DEF ChildWhere, Between, Waiting, Counted, Ending, Doing
<1>9. Printed' BY <1>1, <1>2, <1>3, <1>4 DEF Printed, Between, ChildWhere, Doing, f
<1>10. SeenTrue'
  <2>1. Looping => watcher.pc = "await" /\ f.kind = "snapshot" /\ f.value = watcher.previous /\ f.epoch = watcher.epoch
                   /\ watcher.epoch # 0 /\ watcher.previous \in Nat
    BY <1>1 DEF Looping, ChildWhere, Between, SeenTrue, Doing, f, WatchTyped
  <2> QED BY <1>1, <1>2, <1>3, <2>1 DEF SeenTrue, Looping, Doing, f
<1> QED BY <1>5, <1>6, <1>7, <1>8, <1>9, <1>10 DEF WatchInv

LEMMA WritesRestKeeps == ASSUME WatchInv, WritesRest PROVE WatchInv'
<1>1. /\ WatchTyped /\ ChildWhere /\ Counted /\ Ending /\ SeenTrue /\ helper.state = "middle" /\ StreamSound /\ EndTrue
      /\ output # <<>> /\ LastFrame = Holds /\ Holds.kind # "none" /\ UNCHANGED <<history, watcher, interrupts>>
      /\ output' = [output EXCEPT ![Len(output)].whole = TRUE] /\ helper' = [state |-> "written", holds |-> NoFrame]
  BY DEF WatchInv, WritesRest, Printed
<1>2. helper' \in [state : HelperStates, holds : Frames] /\ helper'.state = "written"
  BY <1>1 DEF HelperStates, NoFrame, Frames, Reasons
<1>3. LastFrame \in Frames /\ Len(output) \in Nat \ {0} /\ output \in Seq(Frames)
  BY <1>1, LastTyped DEF WatchTyped
<1> DEFINE f == [LastFrame EXCEPT !.whole = TRUE]
<1>4. /\ f \in Frames /\ f.whole = TRUE /\ f.kind = LastFrame.kind /\ f.value = LastFrame.value /\ f.epoch = LastFrame.epoch
      /\ f.reason = LastFrame.reason /\ f.count = LastFrame.count
  BY <1>3 DEF Frames
<1>5. output' = [output EXCEPT ![Len(output)] = f] BY <1>1 DEF LastFrame
<1> HIDE DEF f
<1>6. /\ output' \in Seq(Frames) /\ Len(output') = Len(output) /\ output'[Len(output)] = f
      /\ \A n \in 1..Len(output) : n # Len(output) => output'[n] = output[n]
  BY <1>3, <1>4, <1>5, ExceptSeq
<1>7. output' # <<>> /\ LastFrame' = f BY <1>3, <1>6, EmptySeq DEF LastFrame
<1>8. StreamSound'
  <2> SUFFICES ASSUME NEW n \in 1..Len(output), n < Len(output)
               PROVE  /\ output'[n].whole /\ output'[n].kind = "snapshot"
                      /\ output'[n + 1].kind = "snapshot" => /\ output'[n].value < output'[n + 1].value
                                                              /\ output'[n].epoch = output'[n + 1].epoch
    BY <1>6 DEF StreamSound, Places
  <2>1. /\ output[n].whole /\ output[n].kind = "snapshot"
        /\ output[n + 1].kind = "snapshot" => output[n].value < output[n + 1].value /\ output[n].epoch = output[n + 1].epoch
    BY <1>1 DEF StreamSound, Places
  <2>2. output'[n] = output[n] BY <1>6
  <2>3. CASE n + 1 = Len(output)
    <3>1. output'[n + 1] = f /\ output[n + 1] = LastFrame BY <1>6, <2>3 DEF LastFrame
    <3> QED BY <1>4, <2>1, <2>2, <3>1
  <2>4. CASE n + 1 # Len(output)
    <3>1. output'[n + 1] = output[n + 1] BY <1>3, <1>6, <2>4
    <3> QED BY <2>1, <2>2, <3>1
  <2> QED BY <2>3, <2>4
<1>9. EndTrue' BY <1>1, <1>4, <1>6, <1>7 DEF EndTrue
<1>10. WatchTyped' BY <1>1, <1>2, <1>6 DEF WatchTyped
<1>11. ChildWhere' /\ Counted'
  BY <1>1, <1>2, <1>6 DEF ChildWhere, Between, Waiting, Counted, Doing
<1>12. Holds.kind = helper.holds.kind /\ Holds.reason = helper.holds.reason
  BY <1>1 DEF WatchTyped, Holds, Frames
<1>13. Ending' BY <1>1, <1>2, <1>4, <1>7, <1>12 DEF Ending, EndPrinted, Doing
<1>14. SeenTrue' BY <1>1, <1>2, <1>4, <1>7 DEF SeenTrue, Looping, Doing
<1>15. Printed'
  <2>1. ASSUME Doing("await") PROVE Complete'
    <3>1. f.whole /\ f.kind = "snapshot" BY <1>1, <1>4, <1>12, <2>1 DEF SeenTrue, Doing
    <3>2. \A n \in 1..Len(output) : n < Len(output) => output[n].whole /\ output[n].kind = "snapshot"
      BY <1>1 DEF StreamSound, Places
    <3> QED BY <1>3, <1>6, <3>1, <3>2 DEF Complete, Places
  <2> QED BY <1>1, <1>2, <2>1 DEF Printed, ChildWhere, Doing
<1> QED BY <1>8, <1>9, <1>10, <1>11, <1>13, <1>14, <1>15 DEF WatchInv

LEMMA AcknowledgedKeeps == ASSUME WatchInv, Acknowledged PROVE WatchInv'
<1>1. /\ WatchTyped /\ ChildWhere /\ Counted /\ Ending /\ SeenTrue /\ Printed /\ helper.state = "written"
      /\ DOMAIN watcher = WatcherFields /\ UNCHANGED <<history, output, interrupts>>
      /\ watcher.pc \in {"await", "awaitEnd"}
  BY DEF WatchInv, WatchTyped, Acknowledged, Doing
<1>2. helper' \in [state : HelperStates, holds : Frames] /\ helper'.state = "idle"
  BY <1>1 DEF Acknowledged, WatchTyped, HelperStates
<1>3. /\ DOMAIN watcher' = WatcherFields /\ watcher'.reason = watcher.reason
      /\ watcher'.pc = IF watcher.pc = "await" THEN "count" ELSE "close"
      /\ watcher'.snapshots = watcher.snapshots /\ watcher'.damaged = watcher.damaged /\ watcher'.epoch = watcher.epoch
      /\ watcher'.previous = watcher.previous
  <2>1. CASE watcher.pc = "await" /\ watcher' = [watcher EXCEPT !.pc = "count", !.used = @ + 1]
    BY <1>1, <2>1 DEF WatcherFields
  <2>2. CASE watcher.pc = "awaitEnd" /\ watcher' = [watcher EXCEPT !.pc = "close"]
    BY <1>1, <2>2 DEF WatcherFields
  <2> QED BY <2>1, <2>2 DEF Acknowledged, Doing
<1>4. WatchTyped' BY <1>1, <1>2, <1>3 DEF WatchTyped
<1>5. StreamSound' /\ EndTrue' /\ (Complete' <=> Complete) /\ LastFrame' = LastFrame
      /\ \A r : EndPrinted(r)' <=> EndPrinted(r)
  BY <1>1, OutputStays
<1>6. ChildWhere' /\ Counted' /\ Printed' /\ SeenTrue'
  BY <1>1, <1>2, <1>3, <1>5 DEF ChildWhere, Between, Waiting, Counted, Printed, SeenTrue, Looping, Doing
<1>7. Ending'
  <2>1. watcher.pc = "awaitEnd" /\ watcher.reason = "duration_elapsed" => EndPrinted("duration_elapsed")'
    BY <1>1, <1>5 DEF Ending, Doing
  <2> QED BY <1>1, <1>2, <1>3, <2>1 DEF Ending, Doing
<1> QED BY <1>4, <1>5, <1>6, <1>7 DEF WatchInv

LEMMA ClosesKeeps == ASSUME WatchInv, NEW reaped \in BOOLEAN, NEW interrupt \in BOOLEAN, Closes(reaped, interrupt) PROVE WatchInv'
<1>1. /\ WatchTyped /\ ChildWhere /\ Ending /\ watcher.pc = "close"
      /\ DOMAIN watcher = WatcherFields /\ UNCHANGED <<history, output>>
      /\ interrupts' = (IF interrupt THEN interrupts + 1 ELSE interrupts)
      /\ helper' = [state |-> "dead", holds |-> NoFrame]
  BY DEF WatchInv, WatchTyped, Closes, Doing
<1>2. helper' \in [state : HelperStates, holds : Frames] /\ helper'.state = "dead"
  BY <1>1 DEF HelperStates, NoFrame, Frames, Reasons
<1>3. PICK reason \in Reasons :
        /\ reason = IF interrupt \/ watcher.reason = "interrupted" THEN "interrupted"
                    ELSE IF reaped THEN watcher.reason ELSE "output_unavailable"
        /\ watcher' = [watcher EXCEPT !.pc = "over", !.reason = reason,
             !.code = IF reason = "duration_elapsed" THEN 0 ELSE IF reason = "interrupted" THEN 130 ELSE 1]
  BY <1>1 DEF Closes, WatchTyped, Reasons
<1>4. /\ DOMAIN watcher' = WatcherFields /\ watcher'.reason = reason /\ watcher'.pc = "over"
      /\ watcher'.snapshots = watcher.snapshots /\ watcher'.damaged = watcher.damaged /\ watcher'.epoch = watcher.epoch
      /\ watcher'.previous = watcher.previous
      /\ watcher'.code = IF reason = "duration_elapsed" THEN 0 ELSE IF reason = "interrupted" THEN 130 ELSE 1
  BY <1>1, <1>3 DEF WatcherFields
<1>5. interrupts' \in Nat /\ (interrupts' > 0 => reason = "interrupted")
  BY <1>1, <1>3 DEF WatchTyped, Ending, Doing
<1>6. WatchTyped' BY <1>1, <1>2, <1>4, <1>5 DEF WatchTyped
<1>7. StreamSound' /\ EndTrue' /\ \A r : EndPrinted(r)' <=> EndPrinted(r)
  BY <1>1, OutputStays
<1>8. ChildWhere' /\ Counted' /\ Printed' /\ SeenTrue'
  BY <1>1, <1>2, <1>4 DEF ChildWhere, Between, Waiting, Counted, Printed, SeenTrue, Looping, Doing
<1>9. Ending'
  <2>1. watcher'.code = 0 => EndPrinted("duration_elapsed")'
    BY <1>1, <1>3, <1>4, <1>7 DEF Ending, Doing
  <2> QED BY <1>4, <1>5, <2>1 DEF Ending, Doing
<1> QED BY <1>6, <1>7, <1>8, <1>9 DEF WatchInv

LEMMA OthersKeep == ASSUME WatchInv, HelperDies \/ TimePasses \/ HistoryMoves \/ UNCHANGED watchVars PROVE WatchInv'
<1>1. /\ WatchTyped /\ ChildWhere /\ Ending /\ Counted /\ Printed /\ SeenTrue /\ UNCHANGED <<watcher, output, interrupts>>
  BY DEF WatchInv, HelperDies, TimePasses, HistoryMoves, watchVars
<1>2. /\ StreamSound' /\ EndTrue' /\ (Complete' <=> Complete) /\ LastFrame' = LastFrame
      /\ \A r : EndPrinted(r)' <=> EndPrinted(r)
  BY <1>1, OutputStays
<1>3. CASE HelperDies
  <2>1. helper' \in [state : HelperStates, holds : Frames] /\ helper'.state = "dead" /\ helper.state # "none" /\ history' = history
    BY <1>3 DEF HelperDies, HelperStates, NoFrame, Frames, Reasons
  <2>2. WatchTyped' BY <1>1, <2>1 DEF WatchTyped
  <2>3. ChildWhere' /\ Counted' /\ Printed' /\ SeenTrue'
    BY <1>1, <1>2, <2>1 DEF ChildWhere, Between, Waiting, Counted, Printed, SeenTrue, Looping, Doing
  <2>4. Ending' BY <1>1, <1>2, <2>1 DEF Ending, Doing
  <2> QED BY <1>2, <2>2, <2>3, <2>4 DEF WatchInv
<1>4. CASE helper' = helper /\ (HistoryMoves \/ history' = history)
  <2>1. history' \in [epoch : Nat \ {0}, value : Nat] /\ history'.value >= history.value
    BY <1>1, <1>4 DEF HistoryMoves, WatchTyped
  <2>2. WatchTyped' BY <1>1, <1>4, <2>1 DEF WatchTyped
  <2>3. Holds' = Holds /\ (Fits(helper.holds)' <=> Fits(helper.holds))
    BY <1>1, <1>4, OutputStays DEF Holds
  <2>4. ChildWhere' /\ Counted' /\ Printed' /\ SeenTrue'
    BY <1>1, <1>2, <1>4, <2>3 DEF ChildWhere, Between, Waiting, Counted, Printed, SeenTrue, Looping, Doing
  <2>5. Ending' BY <1>1, <1>2, <1>4 DEF Ending, Doing
  <2> QED BY <1>2, <2>2, <2>4, <2>5 DEF WatchInv
<1> QED BY <1>3, <1>4 DEF TimePasses, HistoryMoves, watchVars

LEMMA WatchStep == WatchInv /\ [WatchNext]_watchVars => WatchInv'
<1> SUFFICES ASSUME WatchInv, [WatchNext]_watchVars PROVE WatchInv'
  OBVIOUS
<1>1. ASSUME NEW readable \in BOOLEAN, Samples(readable) PROVE WatchInv'
  BY <1>1, SamplesKeeps
<1>2. ASSUME NEW reaped \in BOOLEAN, NEW interrupt \in BOOLEAN, Closes(reaped, interrupt) PROVE WatchInv'
  BY <1>2, ClosesKeeps
<1> QED
  BY <1>1, <1>2, WriterStartsKeeps, PausesKeeps, SendsSnapshotKeeps, SendsEndKeeps, WritesPartKeeps, WritesRestKeeps,
     AcknowledgedKeeps, CountsKeeps, GivesUpKeeps, OthersKeep DEF WatchNext

LEMMA WatchSound == WatchInv => WatchSafe
<1> SUFFICES ASSUME WatchInv PROVE CodeTrue BY DEF WatchInv, WatchSafe
<1>1. ChildWhere /\ Ending BY DEF WatchInv
<1> QED BY <1>1 DEF ChildWhere, Ending, EndPrinted, CodeTrue, Doing

(* However long the watch, however much the history moves, wherever the    *)
(* output blocks, the child dies or interrupts arrive: nothing follows a   *)
(* cut frame, the snapshots are one history in its order, the end frame    *)
(* counts them, and the exit code says what was really printed.            *)
THEOREM WatchTold == WatchSpec => []WatchSafe
  BY WatchInitially, WatchStep, WatchSound, PTL DEF WatchSpec

-----------------------------------------------------------------------------
(* The Antigravity bridge.                                                 *)

BridgeFields == {"pc", "owner", "seen", "queue", "at"}
AttemptFields == {"pc", "id", "pin", "text", "to", "told"}
EntrySet == [id : [own : Attempts \cup {0}, given : RequestIds \cup {""}], text : Texts \cup {""}, result : {"unknown", "submitted"}]
NativeSet == [by : Bridges, for : Attempts, accepted : BOOLEAN]
Holding == {"locked", "cleared", "listening", "serving", "native", "stopping", "leaving"}

BridgeShapes ==
  /\ DOMAIN bridge = Bridges /\ DOMAIN attempt = Attempts
  /\ \A b \in Bridges : /\ DOMAIN bridge[b] = BridgeFields /\ bridge[b].pc \in Holding \cup {"none", "gone"}
                        /\ bridge[b].queue \subseteq Attempts /\ bridge[b].at \in Attempts \cup {0}
                        /\ bridge[b].seen \subseteq EntrySet
  /\ \A a \in Attempts : /\ DOMAIN attempt[a] = AttemptFields
                         /\ attempt[a].id \in [own : Attempts \cup {0}, given : RequestIds \cup {""}]
                         /\ attempt[a].text \in Texts \cup {""}
  /\ {bound, locked, registered} \subseteq Bridges \cup {0}
  /\ natives \in SUBSET NativeSet

(* Who is at work holds the lock, and only its holder touches the files.   *)
FilesHeld(b) ==
  /\ bridge[b].pc \in Holding => locked = b
  /\ At(b, "listening") => bound = b
  /\ bridge[b].pc \in {"serving", "native"} => bound = b /\ registered = b

(* A request in a queue has made no call, was told nothing that excludes   *)
(* one, and is in no other queue.                                          *)
Excluding == {"refused", "stale", "not_registered"}
Queued(b) ==
  \A a \in bridge[b].queue :
    /\ attempt[a].pc \in {"waiting", "done"} /\ attempt[a].pin \in {0, attempt[a].to} /\ attempt[a].told \notin Excluding
    /\ \A n \in natives : n.for # a
    /\ \A c \in Bridges : c # b => a \notin bridge[c].queue
(* A call is remembered by the generation that made it while that lives.   *)
Called(n) ==
  /\ attempt[n.for].pc \in {"waiting", "done"} /\ attempt[n.for].to = n.by /\ attempt[n.for].pin \in {0, n.by}
  /\ attempt[n.for].told \notin Excluding
  /\ ~At(n.by, "gone") => \E s \in bridge[n.by].seen : s.id = attempt[n.for].id
CallsDistinct == \A n, m \in natives : n.by = m.by /\ attempt[n.for].id = attempt[m.for].id => n = m
AcceptedFor(b, id, text) == \E n \in natives : n.by = b /\ attempt[n.for].id = id /\ n.accepted /\ attempt[n.for].text = text
Remembered(b) ==
  /\ \A s, t \in bridge[b].seen : s.id = t.id => s = t
  /\ \A s \in bridge[b].seen : s.result = "submitted" => AcceptedFor(b, s.id, s.text)
Calling(b) ==
  At(b, "native") => /\ bridge[b].at # 0
                     /\ \E n \in natives : n.by = b /\ n.for = bridge[b].at
                     /\ \E s \in bridge[b].seen : s.id = attempt[bridge[b].at].id
CallsOf(b) == {n \in natives : n.by = b}
CallsCounted(b) ==
  /\ IsFiniteSet(bridge[b].seen) /\ IsFiniteSet(CallsOf(b)) /\ Cardinality(CallsOf(b)) <= MaxRequests
  /\ ~At(b, "gone") => /\ Cardinality(bridge[b].seen) <= MaxRequests
                       /\ Cardinality(CallsOf(b)) <= Cardinality(bridge[b].seen)
AttemptTold(a) ==
  /\ attempt[a].pc # "done" => attempt[a].told = ""
  /\ attempt[a].pc \in {"post", "waiting"} => attempt[a].pin \in {0, attempt[a].to}
  /\ attempt[a].told = "submitted" => AcceptedFor(attempt[a].to, attempt[a].id, attempt[a].text)

BridgeInv ==
  /\ BridgeShapes /\ CallsDistinct
  /\ \A b \in Bridges : FilesHeld(b) /\ Queued(b) /\ Remembered(b) /\ Calling(b) /\ CallsCounted(b)
  /\ \A n \in natives : Called(n)
  /\ \A a \in Attempts : AttemptTold(a)

(* An attempt keeps what it asked for, and what it was told still excludes *)
(* no call.                                                                *)
Steady(a) ==
  /\ attempt'[a].id = attempt[a].id /\ attempt'[a].text = attempt[a].text
  /\ attempt'[a].to = attempt[a].to /\ attempt'[a].pin = attempt[a].pin
  /\ attempt[a].pc \in {"waiting", "done"} => attempt'[a].pc \in {"waiting", "done"}
  /\ attempt[a].told \notin Excluding => attempt'[a].told \notin Excluding
(* Only an attempt with no call and in no queue changes otherwise.         *)
Apart(a) == (\A n \in natives : n.for # a) /\ \A b \in Bridges : a \notin bridge'[b].queue
(* What a bridge remembers stays until it is gone.                         *)
Mindful(b) ==
  \/ /\ bridge'[b].seen = bridge[b].seen /\ bridge'[b].at = bridge[b].at
     /\ At(b, "native")' => At(b, "native")
     /\ At(b, "gone") => At(b, "gone")'
  \/ At(b, "gone")' /\ bridge'[b].seen = {}
  \/ /\ Remembered(b)' /\ ~At(b, "native")' /\ At(b, "native")
     /\ IsFiniteSet(bridge'[b].seen) /\ Cardinality(bridge'[b].seen) = Cardinality(bridge[b].seen)
     /\ \A s \in bridge[b].seen : \E t \in bridge'[b].seen : t.id = s.id

(* A call that was accepted stays accepted.                                *)
LEMMA AcceptedStays ==
  ASSUME BridgeInv, natives' = natives, \A a \in Attempts : Steady(a) \/ Apart(a),
         NEW b, NEW id, NEW text, AcceptedFor(b, id, text)
  PROVE  AcceptedFor(b, id, text)'
<1>1. PICK n \in natives : n.by = b /\ attempt[n.for].id = id /\ n.accepted /\ attempt[n.for].text = text
  BY DEF AcceptedFor
<1>2. n.for \in Attempts BY DEF BridgeInv, BridgeShapes, NativeSet
<1>3. Steady(n.for) BY <1>1, <1>2 DEF Apart
<1> QED BY <1>1, <1>3 DEF AcceptedFor, Steady

(* A step that makes no call and forgets nothing keeps what the calls are. *)
LEMMA BridgeFrame ==
  ASSUME BridgeInv, BridgeShapes', natives' = natives,
         \A a \in Attempts : Steady(a) \/ Apart(a), \A b \in Bridges : Mindful(b),
         \A b \in Bridges : FilesHeld(b)' /\ Queued(b)', \A a \in Attempts : AttemptTold(a)'
  PROVE  BridgeInv'
<1> USE DEF BridgeInv
<1>1. \A n \in natives : n.by \in Bridges /\ n.for \in Attempts /\ Steady(n.for)
  BY DEF BridgeShapes, NativeSet, Apart
<1>2. \A n \in natives : attempt'[n.for].id = attempt[n.for].id /\ attempt'[n.for].text = attempt[n.for].text
  BY <1>1 DEF Steady
<1>3. ASSUME NEW n \in natives' PROVE Called(n)'
  <2>1. n \in natives /\ n.by \in Bridges /\ Called(n) /\ Steady(n.for) /\ Mindful(n.by) BY <1>1
  <2>2. ASSUME ~At(n.by, "gone")' PROVE \E s \in bridge'[n.by].seen : s.id = attempt'[n.for].id
    <3>1. ~At(n.by, "gone") BY <2>1, <2>2 DEF Mindful, At
    <3>2. PICK s \in bridge[n.by].seen : s.id = attempt[n.for].id BY <2>1, <3>1 DEF Called
    <3>3. \E t \in bridge'[n.by].seen : t.id = s.id BY <2>1, <2>2, <3>2 DEF Mindful
    <3> QED BY <2>1, <3>2, <3>3 DEF Steady
  <2> QED BY <2>1, <2>2 DEF Called, Steady
<1>4. CallsDistinct' BY <1>2 DEF CallsDistinct
<1>5. ASSUME NEW b \in Bridges PROVE Remembered(b)' /\ Calling(b)' /\ CallsCounted(b)'
  <2>1. Mindful(b) /\ Remembered(b) /\ Calling(b) /\ CallsCounted(b) OBVIOUS
  <2>2. CASE At(b, "gone")' /\ bridge'[b].seen = {}
    <3>1. IsFiniteSet({}) BY FS_EmptySet
    <3>2. CallsOf(b)' = CallsOf(b) BY DEF CallsOf
    <3> QED BY <2>1, <2>2, <3>1, <3>2 DEF Remembered, Calling, CallsCounted, At
  <2>3. CASE /\ bridge'[b].seen = bridge[b].seen /\ bridge'[b].at = bridge[b].at
             /\ At(b, "native")' => At(b, "native")
             /\ At(b, "gone") => At(b, "gone")'
    <3>1. Remembered(b)' BY <2>1, <2>3, AcceptedStays DEF Remembered
    <3>2. Calling(b)'
      <4>1. SUFFICES ASSUME At(b, "native")' PROVE Calling(b)' BY DEF Calling
      <4>2. PICK n \in natives : n.by = b /\ n.for = bridge[b].at BY <4>1, <2>1, <2>3 DEF Calling
      <4>3. attempt'[bridge[b].at].id = attempt[bridge[b].at].id BY <4>2, <1>2
      <4> QED BY <4>1, <4>2, <4>3, <2>1, <2>3 DEF Calling
    <3>3. CallsOf(b)' = CallsOf(b) BY DEF CallsOf
    <3> QED BY <2>1, <2>3, <3>1, <3>2, <3>3 DEF CallsCounted
  <2>4. CASE /\ Remembered(b)' /\ ~At(b, "native")' /\ At(b, "native")
             /\ IsFiniteSet(bridge'[b].seen) /\ Cardinality(bridge'[b].seen) = Cardinality(bridge[b].seen)
    <3>1. CallsOf(b)' = CallsOf(b) BY DEF CallsOf
    <3> QED BY <2>1, <2>4, <3>1 DEF Calling, CallsCounted, At
  <2> QED BY <2>1, <2>2, <2>3, <2>4 DEF Mindful
<1> QED BY <1>3, <1>4, <1>5

(* Queues that lose requests stay as they are for the others.              *)
LEMMA QueuesShrink ==
  ASSUME BridgeInv, natives' = natives, DOMAIN bridge' = Bridges,
         \A a \in Attempts : Steady(a) \/ Apart(a),
         \A b \in Bridges : bridge'[b].queue \subseteq bridge[b].queue
  PROVE  \A b \in Bridges : Queued(b)'
<1> SUFFICES ASSUME NEW b \in Bridges, NEW a \in bridge'[b].queue
             PROVE  /\ attempt'[a].pc \in {"waiting", "done"} /\ attempt'[a].pin \in {0, attempt'[a].to}
                    /\ attempt'[a].told \notin Excluding /\ \A n \in natives : n.for # a
                    /\ \A c \in Bridges : c # b => a \notin bridge'[c].queue
  BY DEF Queued
<1>1. a \in bridge[b].queue /\ Queued(b) /\ a \in Attempts BY DEF BridgeInv, BridgeShapes
<1>2. Steady(a) BY <1>1 DEF Apart
<1> QED BY <1>1, <1>2 DEF Queued, Steady

(* What an attempt was told stays true while it is told nothing else.      *)
LEMMA ToldStays ==
  ASSUME BridgeInv, natives' = natives, \A a \in Attempts : Steady(a) \/ Apart(a),
         NEW a \in Attempts, attempt'[a] = attempt[a]
  PROVE  AttemptTold(a)'
<1>1. AttemptTold(a) BY DEF BridgeInv
<1>2. attempt[a].told = "submitted" => AcceptedFor(attempt[a].to, attempt[a].id, attempt[a].text)'
  <2> DEFINE to == attempt[a].to
             id == attempt[a].id
             text == attempt[a].text
  <2> SUFFICES ASSUME AcceptedFor(to, id, text) PROVE AcceptedFor(to, id, text)'
    BY <1>1 DEF AttemptTold, AcceptedFor
  <2>1. PICK n \in natives : n.by = to /\ attempt[n.for].id = id /\ n.accepted /\ attempt[n.for].text = text
    BY DEF AcceptedFor
  <2>2. n.for \in Attempts BY DEF BridgeInv, BridgeShapes, NativeSet
  <2>3. Steady(n.for) BY <2>1, <2>2 DEF Apart
  <2>4. n \in natives' /\ n.by = to /\ attempt'[n.for].id = id /\ n.accepted /\ attempt'[n.for].text = text
    BY <2>1, <2>3 DEF Steady
  <2> QED BY <2>4 DEF AcceptedFor
<1> QED BY <1>1, <1>2 DEF AttemptTold, AcceptedFor

LEMMA BridgeInitially == ASSUME AgyInit PROVE BridgeInv
<1> USE DEF AgyInit
<1>1. \A b \in Bridges : bridge[b] = NoBridge BY DEF NoBridge
<1>2. \A a \in Attempts : attempt[a] = NoAttempt BY DEF NoAttempt
<1>3. BridgeShapes
  <2>1. Id(0, "") \in [own : Attempts \cup {0}, given : RequestIds \cup {""}] BY DEF Id
  <2> QED BY <1>1, <1>2, <2>1
          DEF BridgeShapes, NoBridge, NoAttempt, BridgeFields, AttemptFields, Holding, EntrySet, NativeSet
<1>4. \A b \in Bridges : FilesHeld(b) /\ Queued(b) /\ Remembered(b) /\ Calling(b)
  BY <1>1 DEF FilesHeld, Queued, Remembered, Calling, NoBridge, At, Holding
<1>5. \A b \in Bridges : CallsCounted(b)
  <2> TAKE b \in Bridges
  <2>1. CallsOf(b) = {} /\ bridge[b].seen = {} BY <1>1 DEF CallsOf, NoBridge
  <2>2. IsFiniteSet({}) /\ Cardinality({}) = 0 BY FS_EmptySet
  <2>3. MaxRequests \in Nat BY BridgeAssumption
  <2>4. 0 <= MaxRequests BY <2>3
  <2>5. 0 <= MaxRequests /\ 0 <= 0 BY <2>4
  <2>6. IsFiniteSet(bridge[b].seen) /\ Cardinality(bridge[b].seen) = 0 BY <2>1, <2>2
  <2>7. IsFiniteSet(CallsOf(b)) /\ Cardinality(CallsOf(b)) = 0 BY <2>1, <2>2
  <2> QED BY <2>5, <2>6, <2>7 DEF CallsCounted
<1>6. \A a \in Attempts : AttemptTold(a) BY <1>2 DEF AttemptTold, NoAttempt
<1> QED BY <1>3, <1>4, <1>5, <1>6 DEF BridgeInv, CallsDistinct

(* A step of one bridge that only moves on or takes its owner.             *)
BridgeOnly(b, pc) ==
  /\ DOMAIN bridge' = Bridges /\ \A c \in Bridges : c # b => bridge'[c] = bridge[c]
  /\ DOMAIN bridge'[b] = BridgeFields /\ bridge'[b].pc = pc /\ bridge'[b].seen = bridge[b].seen
  /\ bridge'[b].queue = bridge[b].queue /\ bridge'[b].at = bridge[b].at

LEMMA BridgeMoves ==
  ASSUME BridgeInv, NEW b \in Bridges, NEW pc, Moves(b, pc)
  PROVE  BridgeOnly(b, pc)
<1>1. DOMAIN bridge = Bridges /\ DOMAIN bridge[b] = BridgeFields BY DEF BridgeInv, BridgeShapes
<1> QED BY <1>1 DEF Moves, BridgeOnly, BridgeFields

LEMMA BridgeWalks ==
  ASSUME BridgeInv, NEW b \in Bridges, NEW pc \in (Holding \ {"native"}) \cup {"gone"}, BridgeOnly(b, pc),
         ~At(b, "gone"), attempt' = attempt, natives' = natives, {bound', locked', registered'} \subseteq Bridges \cup {0},
         \A c \in Bridges : FilesHeld(c)'
  PROVE  BridgeInv'
<1>1. BridgeShapes' BY DEF BridgeInv, BridgeShapes, BridgeOnly
<1>2. \A a \in Attempts : Steady(a) BY DEF Steady
<1>3. \A c \in Bridges : Mindful(c) BY DEF Mindful, BridgeOnly, At, Holding
<1>4. \A c \in Bridges : Queued(c)' BY <1>2, QueuesShrink DEF BridgeOnly
<1>5. \A a \in Attempts : AttemptTold(a)' BY <1>2, ToldStays
<1> QED BY <1>1, <1>2, <1>3, <1>4, <1>5, BridgeFrame

LEMMA StartKeeps == ASSUME BridgeInv, NEW b \in Bridges, BridgeStarts(b) PROVE BridgeInv'
<1> USE DEF BridgeStarts, BridgeInv
<1>1. DOMAIN bridge = Bridges /\ DOMAIN bridge[b] = BridgeFields /\ {bound, locked, registered} \subseteq Bridges \cup {0}
  BY DEF BridgeShapes
<1>2. CASE locked # 0
  <2>1. BridgeOnly(b, "gone") BY <1>2, BridgeMoves
  <2>2. \A c \in Bridges : FilesHeld(c)' BY <1>2, <2>1 DEF BridgeOnly, FilesHeld, At, Holding
  <2> QED BY <1>1, <1>2, <2>1, <2>2, BridgeWalks DEF At
<1>3. CASE locked = 0
  <2>1. bridge' = [bridge EXCEPT ![b].pc = "locked", ![b].owner = tui] BY <1>3
  <2>2. BridgeOnly(b, "locked") BY <1>1, <2>1 DEF BridgeOnly, BridgeFields
  <2>3. \A c \in Bridges : c # 0 BY BridgeAssumption
  <2>4. \A c \in Bridges : bridge[c].pc \notin Holding BY <1>3, <2>3 DEF FilesHeld
  <2>5. \A c \in Bridges : FilesHeld(c)' BY <1>3, <2>2, <2>4 DEF BridgeOnly, FilesHeld, At, Holding
  <2>6. locked' = b BY <1>3
  <2>7. "locked" \in Holding \ {"native"} BY DEF Holding
  <2> QED BY <1>1, <1>3, <2>2, <2>5, <2>6, <2>7, BridgeWalks DEF At
<1> QED BY <1>2, <1>3

(* Who holds the lock is the only one at work.                             *)
LEMMA OneHolds ==
  ASSUME BridgeInv, NEW b \in Bridges, bridge[b].pc \in Holding, NEW c \in Bridges, c # b
  PROVE  bridge[c].pc \notin Holding
BY DEF BridgeInv, FilesHeld

LEMMA FileStepsKeep ==
  ASSUME BridgeInv, NEW b \in Bridges, RemoveSocket(b) \/ BindSocket(b) \/ Publish(b) \/ CleanUp(b) \/ Leave(b)
  PROVE  BridgeInv'
<1> USE DEF Holding, At
<1>1. \A c \in Bridges : c # b => bridge[c].pc \notin Holding
  BY OneHolds DEF RemoveSocket, BindSocket, Publish, CleanUp, Leave
<1>2. PICK pc \in (Holding \ {"native"}) \cup {"gone"} : BridgeOnly(b, pc)
  BY BridgeMoves DEF RemoveSocket, BindSocket, Publish, CleanUp, Leave
<1>3. {bound', locked', registered'} \subseteq Bridges \cup {0}
  BY DEF BridgeInv, BridgeShapes, RemoveSocket, BindSocket, Publish, CleanUp, Leave
<1>4. FilesHeld(b) BY DEF BridgeInv
<1>5. \A c \in Bridges : c # b => FilesHeld(c)' BY <1>1, <1>2 DEF FilesHeld, BridgeOnly
<1>6. FilesHeld(b)'
  <2>1. CASE RemoveSocket(b) BY <2>1, <1>4, BridgeMoves DEF RemoveSocket, FilesHeld, BridgeOnly
  <2>2. CASE BindSocket(b) BY <2>2, <1>4, BridgeMoves DEF BindSocket, FilesHeld, BridgeOnly
  <2>3. CASE Publish(b) BY <2>3, <1>4, BridgeMoves DEF Publish, FilesHeld, BridgeOnly
  <2>4. CASE CleanUp(b) BY <2>4, <1>4, BridgeMoves DEF CleanUp, FilesHeld, BridgeOnly
  <2>5. CASE Leave(b) BY <2>5, <1>4, BridgeMoves DEF Leave, FilesHeld, BridgeOnly
  <2> QED BY <2>1, <2>2, <2>3, <2>4, <2>5
<1>7. ~At(b, "gone") /\ attempt' = attempt /\ natives' = natives
  BY DEF RemoveSocket, BindSocket, Publish, CleanUp, Leave
<1> HIDE DEF Holding, At
<1> QED BY <1>2, <1>3, <1>5, <1>6, <1>7, BridgeWalks

(* Attempts that lose their connection are told that the outcome is        *)
(* unknown.                                                                *)
LEMMA DroppedSteady ==
  ASSUME BridgeInv, NEW as, attempt' = Dropped(as)
  PROVE  /\ DOMAIN attempt' = Attempts
         /\ \A a \in Attempts : /\ Steady(a) /\ DOMAIN attempt'[a] = AttemptFields
                                /\ \/ attempt'[a] = attempt[a]
                                   \/ attempt'[a].told = "unknown" /\ attempt'[a].pc = "done"
<1>1. DOMAIN attempt' = Attempts BY DEF Dropped
<1>2. ASSUME NEW a \in Attempts
      PROVE  /\ Steady(a) /\ DOMAIN attempt'[a] = AttemptFields
             /\ \/ attempt'[a] = attempt[a]
                \/ attempt'[a].told = "unknown" /\ attempt'[a].pc = "done"
  <2>1. DOMAIN attempt[a] = AttemptFields BY DEF BridgeInv, BridgeShapes
  <2>2. \/ attempt'[a] = attempt[a]
        \/ attempt'[a] = [attempt[a] EXCEPT !.pc = "done", !.told = "unknown"]
    BY DEF Dropped
  <2>3. CASE attempt'[a] = attempt[a] BY <2>1, <2>3 DEF Steady
  <2>4. CASE attempt'[a] = [attempt[a] EXCEPT !.pc = "done", !.told = "unknown"]
    BY <2>1, <2>4 DEF Steady, AttemptFields, Excluding
  <2> QED BY <2>2, <2>3, <2>4
<1> QED BY <1>1, <1>2

LEMMA EndKeeps ==
  ASSUME BridgeInv, NEW b \in Bridges, BridgeStops(b) \/ BridgeKilled(b)
  PROVE  BridgeInv'
<1>1. DOMAIN bridge = Bridges /\ DOMAIN bridge[b] = BridgeFields BY DEF BridgeInv, BridgeShapes
<1>2. /\ DOMAIN bridge' = Bridges /\ \A c \in Bridges : c # b => bridge'[c] = bridge[c]
      /\ DOMAIN bridge'[b] = BridgeFields /\ bridge'[b].queue = {} /\ bridge'[b].at \in Attempts \cup {0}
      /\ \/ /\ bridge'[b].pc = "stopping" /\ bridge[b].pc = "serving"
            /\ bridge'[b].seen = bridge[b].seen /\ bridge'[b].at = bridge[b].at
         \/ bridge'[b].pc = "gone" /\ bridge'[b].seen = {}
  <2>1. bridge[b].at \in Attempts \cup {0} BY DEF BridgeInv, BridgeShapes
  <2> QED BY <1>1, <2>1 DEF BridgeStops, BridgeKilled, NoBridge, BridgeFields, At
<1>3. PICK as : attempt' = Dropped(as) BY DEF BridgeStops, BridgeKilled
<1>4. natives' = natives /\ bound' = bound /\ registered' = registered /\ locked' \in {locked, 0}
      /\ (locked' # locked => locked = b) /\ (bridge'[b].pc = "stopping" => locked' = locked)
  BY <1>1 DEF BridgeStops, BridgeKilled, NoBridge, BridgeFields
<1>5. BridgeShapes'
  <2>1. \A a \in Attempts : attempt[a].id \in [own : Attempts \cup {0}, given : RequestIds \cup {""}]
                            /\ attempt[a].text \in Texts \cup {""}
    BY DEF BridgeInv, BridgeShapes
  <2>2. \A a \in Attempts : attempt'[a].id = attempt[a].id /\ attempt'[a].text = attempt[a].text
    BY <1>3, DroppedSteady DEF Steady
  <2>3. \A c \in Bridges : /\ DOMAIN bridge'[c] = BridgeFields /\ bridge'[c].pc \in Holding \cup {"none", "gone"}
                           /\ bridge'[c].queue \subseteq Attempts /\ bridge'[c].at \in Attempts \cup {0}
                           /\ bridge'[c].seen \subseteq EntrySet
    BY <1>2 DEF BridgeInv, BridgeShapes, Holding
  <2>4. DOMAIN attempt' = Attempts /\ \A a \in Attempts : DOMAIN attempt'[a] = AttemptFields BY <1>3, DroppedSteady
  <2>5. {bound', locked', registered'} \subseteq Bridges \cup {0} BY <1>4 DEF BridgeInv, BridgeShapes
  <2>6. natives' \in SUBSET NativeSet BY <1>4 DEF BridgeInv, BridgeShapes
  <2> QED BY <1>2, <2>1, <2>2, <2>3, <2>4, <2>5, <2>6 DEF BridgeShapes
<1>6. \A a \in Attempts : Steady(a) BY <1>3, DroppedSteady
<1>7. \A c \in Bridges : Mindful(c) BY <1>2 DEF Mindful, At
<1>8. \A c \in Bridges : Queued(c)' BY <1>2, <1>4, <1>6, QueuesShrink
<1>9. \A a \in Attempts : AttemptTold(a)'
  <2> TAKE a \in Attempts
  <2>1. CASE attempt'[a] = attempt[a] BY <2>1, <1>4, <1>6, ToldStays
  <2>2. CASE attempt'[a].told = "unknown" /\ attempt'[a].pc = "done" BY <2>2 DEF AttemptTold
  <2> QED BY <1>3, <2>1, <2>2, DroppedSteady
<1>10. \A c \in Bridges : FilesHeld(c)'
  BY <1>2, <1>4 DEF BridgeInv, FilesHeld, At, Holding
<1> QED BY <1>4, <1>5, <1>6, <1>7, <1>8, <1>9, <1>10, BridgeFrame

(* An attempt that waits for nothing yet has made no call.                 *)
LEMMA ApartBefore ==
  ASSUME BridgeInv, bridge' = bridge, NEW a \in Attempts, attempt[a].pc \notin {"waiting", "done"}
  PROVE  Apart(a)
BY DEF BridgeInv, Called, Queued, Apart

(* An attempt with no call and in no queue.                                *)
ApartNow(a) == (\A n \in natives : n.for # a) /\ \A b \in Bridges : a \notin bridge[b].queue

(* A step of one attempt.                                                  *)
AttemptOnly(a) ==
  /\ DOMAIN attempt' = Attempts /\ \A o \in Attempts : o # a => attempt'[o] = attempt[o]
  /\ DOMAIN attempt'[a] = AttemptFields /\ attempt'[a].text \in Texts \cup {""}
  /\ attempt'[a].id \in [own : Attempts \cup {0}, given : RequestIds \cup {""}]

LEMMA AttemptShapes ==
  ASSUME BridgeInv, NEW a \in Attempts
  PROVE  /\ DOMAIN attempt = Attempts /\ DOMAIN attempt[a] = AttemptFields /\ attempt[a].text \in Texts \cup {""}
         /\ attempt[a].id \in [own : Attempts \cup {0}, given : RequestIds \cup {""}]
BY DEF BridgeInv, BridgeShapes

LEMMA AttemptWalks ==
  ASSUME BridgeInv, NEW a \in Attempts, AttemptOnly(a), Steady(a) \/ Apart(a), AttemptTold(a)',
         bridge' = bridge, natives' = natives, bound' = bound, locked' = locked, registered' = registered
  PROVE  BridgeInv'
<1>1. BridgeShapes' BY DEF BridgeInv, BridgeShapes, AttemptOnly
<1>2. \A o \in Attempts : Steady(o) \/ Apart(o) BY DEF Steady, AttemptOnly
<1>3. \A b \in Bridges : Mindful(b) /\ FilesHeld(b)' BY DEF Mindful, At, BridgeInv, FilesHeld
<1>4. DOMAIN bridge' = Bridges BY DEF BridgeInv, BridgeShapes
<1>5. \A b \in Bridges : Queued(b)' BY <1>2, <1>4, QueuesShrink
<1>6. \A o \in Attempts : AttemptTold(o)' BY <1>2, ToldStays DEF AttemptOnly
<1> QED BY <1>1, <1>2, <1>3, <1>5, <1>6, BridgeFrame

LEMMA AttemptStartsKeeps ==
  ASSUME BridgeInv, NEW a \in Attempts, NEW id \in RequestIds \cup {""}, NEW pin \in Bridges \cup {0},
         NEW text \in Texts, AttemptStarts(a, id, pin, text)
  PROVE  BridgeInv'
<1> DEFINE new == [NoAttempt EXCEPT !.pc = "look", !.pin = pin, !.text = text,
                     !.id = IF id = "" THEN Id(a, "") ELSE Id(0, id)]
<1>1. attempt' = [attempt EXCEPT ![a] = new] BY DEF AttemptStarts
<1>2. DOMAIN new = AttemptFields /\ new.pc = "look" /\ new.text = text /\ new.told = ""
      /\ new.id = IF id = "" THEN Id(a, "") ELSE Id(0, id)
  BY DEF NoAttempt, AttemptFields
<1>3. new.id \in [own : Attempts \cup {0}, given : RequestIds \cup {""}]
  <2>1. Id(a, "") \in [own : Attempts \cup {0}, given : RequestIds \cup {""}] BY DEF Id
  <2>2. Id(0, id) \in [own : Attempts \cup {0}, given : RequestIds \cup {""}] BY DEF Id
  <2> HIDE DEF new
  <2> QED BY <1>2, <2>1, <2>2
<1> HIDE DEF new
<1>4. AttemptOnly(a) /\ attempt'[a] = new BY <1>1, <1>2, <1>3, AttemptShapes DEF AttemptOnly
<1>5. AttemptTold(a)' BY <1>2, <1>4 DEF AttemptTold
<1>6. bridge' = bridge /\ natives' = natives /\ bound' = bound /\ locked' = locked /\ registered' = registered
      /\ attempt[a].pc = "none"
  BY DEF AttemptStarts
<1> QED BY <1>4, <1>5, <1>6, ApartBefore, AttemptWalks

(* An attempt that ends is told its outcome.                               *)
LEMMA EndsFacts ==
  ASSUME BridgeInv, NEW a \in Attempts, NEW told, Ends(a, told), told # "submitted"
  PROVE  /\ AttemptOnly(a) /\ attempt'[a].told = told /\ attempt'[a].pc = "done" /\ AttemptTold(a)'
         /\ told \notin Excluding => Steady(a)
<1>1. AttemptOnly(a) /\ attempt'[a].told = told /\ attempt'[a].pc = "done"
  BY AttemptShapes DEF Ends, AttemptOnly, AttemptFields
<1>2. attempt'[a].id = attempt[a].id /\ attempt'[a].text = attempt[a].text
      /\ attempt'[a].to = attempt[a].to /\ attempt'[a].pin = attempt[a].pin
  BY AttemptShapes DEF Ends, AttemptFields
<1> QED BY <1>1, <1>2 DEF AttemptTold, Steady

LEMMA AttemptLooksKeeps ==
  ASSUME BridgeInv, NEW a \in Attempts, ReadRegistration(a) \/ (\E ready \in BOOLEAN : AskStatus(a, ready)) \/ AttemptGivesUp(a)
  PROVE  BridgeInv'
<1>1. bridge' = bridge /\ natives' = natives /\ bound' = bound /\ locked' = locked /\ registered' = registered
  BY DEF ReadRegistration, AskStatus, AttemptGivesUp
<1>2. CASE \E told : Ends(a, told) /\ told # "submitted" /\ (told = "unknown" \/ attempt[a].pc \in {"look", "ask"})
  <2>1. PICK told : Ends(a, told) /\ told # "submitted" /\ (told = "unknown" \/ attempt[a].pc \in {"look", "ask"}) BY <1>2
  <2>2. Steady(a) \/ Apart(a) BY <1>1, <2>1, EndsFacts, ApartBefore DEF Excluding
  <2> QED BY <1>1, <2>1, <2>2, EndsFacts, AttemptWalks
<1>3. CASE attempt[a].pc = "look" /\ attempt' = [attempt EXCEPT ![a].pc = "ask", ![a].to = registered]
  <2>1. attempt[a].told = "" BY <1>3 DEF BridgeInv, AttemptTold
  <2>2. AttemptOnly(a) /\ attempt'[a].pc = "ask" /\ attempt'[a].told = ""
    BY <1>3, <2>1, AttemptShapes DEF AttemptOnly, AttemptFields
  <2> QED BY <1>1, <1>3, <2>2, ApartBefore, AttemptWalks DEF AttemptTold
<1>4. CASE attempt[a].pc = "ask" /\ attempt[a].pin \in {0, attempt[a].to} /\ attempt' = [attempt EXCEPT ![a].pc = "post"]
  <2>1. attempt[a].told = "" BY <1>4 DEF BridgeInv, AttemptTold
  <2>2. AttemptOnly(a) /\ attempt'[a].pc = "post" /\ attempt'[a].told = "" /\ attempt'[a].pin \in {0, attempt'[a].to}
    BY <1>4, <2>1, AttemptShapes DEF AttemptOnly, AttemptFields
  <2> QED BY <1>1, <1>4, <2>2, ApartBefore, AttemptWalks DEF AttemptTold
<1>5. CASE ReadRegistration(a) BY <1>5, <1>2, <1>3 DEF ReadRegistration
<1>6. CASE \E ready \in BOOLEAN : AskStatus(a, ready) BY <1>6, <1>2, <1>4 DEF AskStatus
<1>7. CASE AttemptGivesUp(a) BY <1>7, <1>2 DEF AttemptGivesUp
<1> QED BY <1>5, <1>6, <1>7

LEMMA PostKeeps == ASSUME BridgeInv, NEW a \in Attempts, Post(a) PROVE BridgeInv'
<1>1. natives' = natives /\ bound' = bound /\ locked' = locked /\ registered' = registered /\ attempt[a].pc = "post"
  BY DEF Post
<1>2. ApartNow(a) BY <1>1 DEF BridgeInv, Called, Queued, ApartNow
<1>3. CASE Ends(a, "unknown") /\ bridge' = bridge
  BY <1>1, <1>3, EndsFacts, ApartBefore, AttemptWalks
<1>4. CASE /\ bound # 0 /\ attempt' = [attempt EXCEPT ![a].pc = "waiting"]
           /\ bridge' = [bridge EXCEPT ![bound].queue = @ \cup {a}]
  <2>1. PICK b \in Bridges : b = bound BY <1>4 DEF BridgeInv, BridgeShapes
  <2>2. attempt[a].told = "" /\ attempt[a].pin \in {0, attempt[a].to} BY <1>1 DEF BridgeInv, AttemptTold
  <2>3. AttemptOnly(a) /\ attempt'[a].pc = "waiting" /\ attempt'[a].told = "" /\ attempt'[a].pin \in {0, attempt'[a].to}
    BY <1>4, <2>2, AttemptShapes DEF AttemptOnly, AttemptFields
  <2>4. DOMAIN bridge = Bridges /\ DOMAIN bridge[b] = BridgeFields BY DEF BridgeInv, BridgeShapes
  <2>5. /\ DOMAIN bridge' = Bridges /\ \A c \in Bridges : c # b => bridge'[c] = bridge[c]
        /\ DOMAIN bridge'[b] = BridgeFields /\ bridge'[b].queue = bridge[b].queue \cup {a}
        /\ bridge'[b].pc = bridge[b].pc /\ bridge'[b].at = bridge[b].at /\ bridge'[b].seen = bridge[b].seen
    BY <1>4, <2>1, <2>4 DEF BridgeFields
  <2>6. BridgeShapes'
    <3>1. \A c \in Bridges : /\ DOMAIN bridge'[c] = BridgeFields /\ bridge'[c].pc \in Holding \cup {"none", "gone"}
                             /\ bridge'[c].at \in Attempts \cup {0} /\ bridge'[c].seen \subseteq EntrySet
      BY <2>5 DEF BridgeInv, BridgeShapes
    <3>2. \A c \in Bridges : bridge[c].queue \subseteq Attempts BY DEF BridgeInv, BridgeShapes
    <3>3. \A c \in Bridges : bridge'[c].queue \subseteq Attempts BY <2>5, <3>2
    <3>4. \A o \in Attempts : /\ DOMAIN attempt'[o] = AttemptFields /\ attempt'[o].text \in Texts \cup {""}
                              /\ attempt'[o].id \in [own : Attempts \cup {0}, given : RequestIds \cup {""}]
      BY <2>3, AttemptShapes DEF AttemptOnly
    <3>5. {bound', locked', registered'} \subseteq Bridges \cup {0} /\ natives' \in SUBSET NativeSet
      BY <1>1 DEF BridgeInv, BridgeShapes
    <3> QED BY <2>3, <2>5, <3>1, <3>3, <3>4, <3>5 DEF BridgeShapes, AttemptOnly
  <2>7. \A c \in Bridges : Mindful(c) BY <2>5 DEF Mindful, At
  <2>8. Steady(a) BY <1>1, <1>4, <2>2, <2>3, AttemptShapes DEF Steady, AttemptFields
  <2>9. \A o \in Attempts : Steady(o) BY <2>3, <2>8 DEF Steady, AttemptOnly
  <2>10. \A c \in Bridges : FilesHeld(c)' BY <1>1, <2>5 DEF BridgeInv, FilesHeld, At
  <2>11. \A c \in Bridges : Queued(c)'
    <3>1. ASSUME NEW c \in Bridges, NEW o \in bridge'[c].queue
          PROVE  /\ attempt'[o].pc \in {"waiting", "done"} /\ attempt'[o].pin \in {0, attempt'[o].to}
                 /\ attempt'[o].told \notin Excluding /\ \A n \in natives : n.for # o
                 /\ \A d \in Bridges : d # c => o \notin bridge'[d].queue
      <4>1. CASE o = a BY <1>2, <2>3, <2>5, <4>1 DEF ApartNow, Excluding
      <4>2. CASE o # a
        <5>1. o \in bridge[c].queue
          <6>1. CASE c = b BY <6>1, <2>5, <4>2
          <6>2. CASE c # b BY <6>2, <2>5
          <6> QED BY <6>1, <6>2
        <5>2. \A d \in Bridges : o \in bridge'[d].queue => o \in bridge[d].queue BY <2>5, <4>2
        <5>3. o \in Attempts BY <5>1 DEF BridgeInv, BridgeShapes
        <5> QED BY <4>2, <5>1, <5>2, <5>3, <2>3 DEF BridgeInv, Queued, AttemptOnly
      <4> QED BY <4>1, <4>2
    <3> QED BY <1>1, <3>1 DEF Queued
  <2>12. \A o \in Attempts : AttemptTold(o)'
    <3>1. AttemptTold(a)' BY <2>3 DEF AttemptTold
    <3> QED BY <1>1, <2>3, <2>9, <3>1, ToldStays DEF AttemptOnly
  <2> QED BY <1>1, <2>6, <2>7, <2>9, <2>10, <2>11, <2>12, BridgeFrame
<1> QED BY <1>3, <1>4 DEF Post

(* Who waits for an answer is done with it; the others keep what they were *)
(* told.                                                                   *)
LEMMA AnswerFacts ==
  ASSUME BridgeInv, NEW a \in Attempts, attempt[a].pc \in {"waiting", "done"}, NEW told, Answer(a, told)
  PROVE  /\ AttemptOnly(a) /\ attempt'[a].pc = "done" /\ attempt'[a].told \in {told, attempt[a].told}
         /\ attempt'[a].id = attempt[a].id /\ attempt'[a].text = attempt[a].text
         /\ attempt'[a].to = attempt[a].to /\ attempt'[a].pin = attempt[a].pin
         /\ told \notin Excluding => Steady(a)
<1>1. CASE attempt[a].pc = "waiting"
  <2>1. attempt' = [attempt EXCEPT ![a].pc = "done", ![a].told = told] BY <1>1 DEF Answer
  <2>2. AttemptOnly(a) /\ attempt'[a].pc = "done" /\ attempt'[a].told = told
    BY <2>1, AttemptShapes DEF AttemptOnly, AttemptFields
  <2>3. attempt'[a].id = attempt[a].id /\ attempt'[a].text = attempt[a].text
        /\ attempt'[a].to = attempt[a].to /\ attempt'[a].pin = attempt[a].pin
    BY <2>1, AttemptShapes DEF AttemptFields
  <2> QED BY <2>2, <2>3 DEF Steady
<1>2. CASE attempt[a].pc = "done"
  <2>1. attempt' = attempt BY <1>2 DEF Answer
  <2> QED BY <1>2, <2>1, AttemptShapes DEF AttemptOnly, Steady
<1> QED BY <1>1, <1>2

(* What the bridges are keeps its shape when only b changed.               *)
LEMMA OneBridgeShapes ==
  ASSUME BridgeInv, NEW b \in Bridges, DOMAIN bridge' = Bridges, \A c \in Bridges : c # b => bridge'[c] = bridge[c],
         DOMAIN bridge'[b] = BridgeFields, bridge'[b].pc \in Holding \cup {"none", "gone"},
         bridge'[b].queue \subseteq Attempts, bridge'[b].at \in Attempts \cup {0}, bridge'[b].seen \subseteq EntrySet,
         DOMAIN attempt' = Attempts,
         \A o \in Attempts : /\ DOMAIN attempt'[o] = AttemptFields /\ attempt'[o].text \in Texts \cup {""}
                             /\ attempt'[o].id \in [own : Attempts \cup {0}, given : RequestIds \cup {""}],
         bound' = bound, locked' = locked, registered' = registered, natives' \in SUBSET NativeSet
  PROVE  BridgeShapes'
<1>1. \A c \in Bridges : /\ DOMAIN bridge'[c] = BridgeFields /\ bridge'[c].pc \in Holding \cup {"none", "gone"}
                         /\ bridge'[c].queue \subseteq Attempts
                         /\ bridge'[c].at \in Attempts \cup {0} /\ bridge'[c].seen \subseteq EntrySet
  BY DEF BridgeInv, BridgeShapes
<1>2. {bound', locked', registered'} \subseteq Bridges \cup {0} BY DEF BridgeInv, BridgeShapes
<1> QED BY <1>1, <1>2 DEF BridgeShapes

(* A request in a queue.                                                   *)
LEMMA QueueFacts ==
  ASSUME BridgeInv, NEW b \in Bridges, NEW a \in bridge[b].queue
  PROVE  /\ a \in Attempts /\ attempt[a].pc \in {"waiting", "done"} /\ attempt[a].pin \in {0, attempt[a].to}
         /\ attempt[a].told \notin Excluding /\ \A n \in natives : n.for # a
         /\ \A c \in Bridges : c # b => a \notin bridge[c].queue
BY DEF BridgeInv, BridgeShapes, Queued

(* A request that is answered at once leaves the queue.                    *)
LEMMA ServedKeeps ==
  ASSUME BridgeInv, NEW b \in Bridges, NEW a \in bridge[b].queue, NEW told, Answer(a, told),
         At(b, "serving"), bridge' = [bridge EXCEPT ![b].queue = @ \ {a}],
         told = "submitted" => AcceptedFor(attempt[a].to, attempt[a].id, attempt[a].text),
         natives' = natives, bound' = bound, locked' = locked, registered' = registered
  PROVE  BridgeInv'
<1>1. DOMAIN bridge = Bridges /\ DOMAIN bridge[b] = BridgeFields /\ bridge[b].queue \subseteq Attempts
      /\ bridge[b].at \in Attempts \cup {0} /\ bridge[b].seen \subseteq EntrySet
  BY DEF BridgeInv, BridgeShapes
<1>2. /\ DOMAIN bridge' = Bridges /\ \A c \in Bridges : c # b => bridge'[c] = bridge[c]
      /\ DOMAIN bridge'[b] = BridgeFields /\ bridge'[b].queue = bridge[b].queue \ {a} /\ bridge'[b].pc = bridge[b].pc
      /\ bridge'[b].at = bridge[b].at /\ bridge'[b].seen = bridge[b].seen
  BY <1>1 DEF BridgeFields
<1>3. /\ AttemptOnly(a) /\ attempt'[a].pc = "done" /\ attempt'[a].told \in {told, attempt[a].told}
      /\ attempt'[a].id = attempt[a].id /\ attempt'[a].text = attempt[a].text
      /\ attempt'[a].to = attempt[a].to /\ attempt'[a].pin = attempt[a].pin
  BY AnswerFacts, QueueFacts
<1>4. BridgeShapes'
  <2>1. bridge'[b].pc \in Holding \cup {"none", "gone"} BY <1>2 DEF At, Holding
  <2>2. \A o \in Attempts : /\ DOMAIN attempt'[o] = AttemptFields /\ attempt'[o].text \in Texts \cup {""}
                            /\ attempt'[o].id \in [own : Attempts \cup {0}, given : RequestIds \cup {""}]
    BY <1>3, AttemptShapes DEF AttemptOnly
  <2>3. DOMAIN attempt' = Attempts BY <1>3 DEF AttemptOnly
  <2>4. natives' \in SUBSET NativeSet BY DEF BridgeInv, BridgeShapes
  <2> QED BY <1>1, <1>2, <2>1, <2>2, <2>3, <2>4, OneBridgeShapes
<1>5. Apart(a)
  <2>1. \A c \in Bridges : a \notin bridge'[c].queue BY <1>2, QueueFacts
  <2> QED BY <2>1, QueueFacts DEF Apart
<1>6. \A o \in Attempts : Steady(o) \/ Apart(o) BY <1>3, <1>5 DEF Steady, AttemptOnly
<1>7. \A c \in Bridges : Mindful(c) /\ FilesHeld(c)' BY <1>2 DEF Mindful, BridgeInv, FilesHeld, At
<1>8. \A c \in Bridges : bridge'[c].queue \subseteq bridge[c].queue BY <1>2
<1>9. \A c \in Bridges : Queued(c)' BY <1>2, <1>6, <1>8, QueuesShrink
<1>10. AttemptTold(a)'
  <2>1. a \in Attempts BY QueueFacts
  <2>2. attempt'[a].told = "submitted" => AcceptedFor(attempt[a].to, attempt[a].id, attempt[a].text)
    BY <1>3, <2>1 DEF BridgeInv, AttemptTold
  <2>3. ASSUME NEW n \in natives, n.by = attempt[a].to, attempt[n.for].id = attempt[a].id, n.accepted,
               attempt[n.for].text = attempt[a].text
        PROVE  /\ n.by = attempt'[a].to /\ attempt'[n.for].id = attempt'[a].id
               /\ attempt'[n.for].text = attempt'[a].text
    <3>1. n.for \in Attempts /\ n.for # a BY QueueFacts DEF BridgeInv, BridgeShapes, NativeSet
    <3> QED BY <1>3, <2>3, <3>1 DEF AttemptOnly
  <2> QED BY <1>3, <2>2, <2>3 DEF AttemptTold, AcceptedFor
<1>11. \A o \in Attempts : AttemptTold(o)' BY <1>3, <1>6, <1>10, ToldStays DEF AttemptOnly
<1> QED BY <1>4, <1>6, <1>7, <1>9, <1>11, BridgeFrame

(* A new request is entered before the native call is made.                *)
LEMMA NewCallKeeps ==
  ASSUME BridgeInv, NEW b \in Bridges, NEW a \in bridge[b].queue, At(b, "serving"), ~Refused(b, a), ~Repeated(b, a),
         bridge' = [bridge EXCEPT ![b].pc = "native", ![b].queue = @ \ {a}, ![b].at = a,
                ![b].seen = @ \cup {[id |-> attempt[a].id, text |-> attempt[a].text, result |-> "unknown"]}],
         natives' = natives \cup {[by |-> b, for |-> a, accepted |-> FALSE]},
         attempt' = attempt, bound' = bound, locked' = locked, registered' = registered
  PROVE  BridgeInv'
<1> DEFINE entry == [id |-> attempt[a].id, text |-> attempt[a].text, result |-> "unknown"]
           call == [by |-> b, for |-> a, accepted |-> FALSE]
<1>1. DOMAIN bridge = Bridges /\ DOMAIN bridge[b] = BridgeFields /\ bridge[b].queue \subseteq Attempts
      /\ bridge[b].at \in Attempts \cup {0} /\ bridge[b].seen \subseteq EntrySet /\ a \in Attempts
      /\ natives \in SUBSET NativeSet
  BY QueueFacts DEF BridgeInv, BridgeShapes
<1>2. /\ DOMAIN bridge' = Bridges /\ \A c \in Bridges : c # b => bridge'[c] = bridge[c]
      /\ DOMAIN bridge'[b] = BridgeFields /\ bridge'[b].queue = bridge[b].queue \ {a} /\ bridge'[b].pc = "native"
      /\ bridge'[b].at = a /\ bridge'[b].seen = bridge[b].seen \cup {entry}
  BY <1>1 DEF BridgeFields
<1>3. entry \in EntrySet /\ entry.id = attempt[a].id /\ entry.text = attempt[a].text /\ entry.result = "unknown"
      /\ call \in NativeSet /\ call.by = b /\ call.for = a
  BY <1>1, AttemptShapes DEF EntrySet, NativeSet
<1>4. natives' = natives \cup {call} OBVIOUS
<1> HIDE DEF entry, call
<1>5. BridgeShapes'
  <2>1. bridge'[b].pc \in Holding \cup {"none", "gone"} BY <1>2 DEF Holding
  <2>2. bridge'[b].seen \subseteq EntrySet BY <1>1, <1>2, <1>3
  <2>3. natives' \in SUBSET NativeSet BY <1>1, <1>3, <1>4
  <2>4. DOMAIN attempt' = Attempts BY AttemptShapes DEF BridgeInv, BridgeShapes
  <2>5. \A o \in Attempts : /\ DOMAIN attempt'[o] = AttemptFields /\ attempt'[o].text \in Texts \cup {""}
                            /\ attempt'[o].id \in [own : Attempts \cup {0}, given : RequestIds \cup {""}]
    BY AttemptShapes
  <2>6. bridge'[b].queue \subseteq Attempts /\ bridge'[b].at \in Attempts \cup {0} BY <1>1, <1>2
  <2> QED BY <1>2, <2>1, <2>2, <2>3, <2>4, <2>5, <2>6, OneBridgeShapes
<1>6. (\A s \in bridge[b].seen : s.id # attempt[a].id) /\ Cardinality(bridge[b].seen) < MaxRequests /\ attempt[a].to = b
  <2>1. Seen(b, attempt[a].id) = {} BY DEF Refused, Repeated, Seen
  <2>2. IsFiniteSet(bridge[b].seen) BY DEF BridgeInv, CallsCounted
  <2>3. Cardinality(bridge[b].seen) \in Nat BY <2>2, FS_CardinalityType
  <2>4. MaxRequests \in Nat BY BridgeAssumption
  <2> QED BY <2>1, <2>3, <2>4 DEF Refused, Seen
<1>7. \A n \in natives : n.for # a /\ (n.by = b => attempt[n.for].id # attempt[a].id)
  <2>1. ASSUME NEW n \in natives, n.by = b PROVE attempt[n.for].id # attempt[a].id
    <3>1. Called(n) /\ ~At(b, "gone") BY DEF BridgeInv, At
    <3> QED BY <1>6, <2>1, <3>1 DEF Called
  <2> QED BY <2>1, QueueFacts
<1>8. CallsDistinct'
  <2>1. CallsDistinct BY DEF BridgeInv
  <2> QED BY <1>3, <1>4, <1>7, <2>1 DEF CallsDistinct
<1>9. \A n \in natives' : Called(n)'
  <2>1. ASSUME NEW n \in natives PROVE Called(n)'
    <3>1. Called(n) /\ n.by \in Bridges BY <1>1 DEF BridgeInv, NativeSet
    <3>2. CASE n.by = b BY <3>1, <3>2, <1>2 DEF Called, At
    <3>3. CASE n.by # b BY <3>1, <3>3, <1>2 DEF Called, At
    <3> QED BY <3>2, <3>3
  <2>2. Called(call)' BY <1>2, <1>3, <1>6, QueueFacts DEF Called
  <2> QED BY <1>4, <2>1, <2>2
<1>10. \A c \in Bridges : \A id, text : AcceptedFor(c, id, text) => AcceptedFor(c, id, text)' BY <1>4 DEF AcceptedFor
<1>11. ASSUME NEW c \in Bridges PROVE FilesHeld(c)' /\ Remembered(c)' /\ Calling(c)'
  <2>1. FilesHeld(c)' BY <1>2 DEF BridgeInv, FilesHeld, At, Holding
  <2>2. Remembered(c) /\ Calling(c) BY DEF BridgeInv
  <2>3. CASE c = b
    <3>1. Remembered(b)' BY <1>2, <1>3, <1>6, <1>10, <2>2, <2>3 DEF Remembered
    <3>2. bridge'[b].at # 0 /\ (\E n \in natives' : n.by = b /\ n.for = bridge'[b].at)
          /\ \E s \in bridge'[b].seen : s.id = attempt'[bridge'[b].at].id
      <4>1. a # 0 BY <1>1, BridgeAssumption
      <4> QED BY <4>1, <1>2, <1>3, <1>4
    <3> QED BY <2>1, <2>3, <3>1, <3>2 DEF Calling
  <2>4. CASE c # b
    <3>1. Remembered(c)' BY <1>2, <1>10, <2>2, <2>4 DEF Remembered
    <3>2. Calling(c)' BY <1>2, <1>4, <2>2, <2>4 DEF Calling, At
    <3> QED BY <2>1, <3>1, <3>2
  <2> QED BY <2>3, <2>4
<1>12. ASSUME NEW c \in Bridges PROVE Queued(c)'
  <2>1. ASSUME NEW o \in bridge'[c].queue
        PROVE  /\ attempt'[o].pc \in {"waiting", "done"} /\ attempt'[o].pin \in {0, attempt'[o].to}
               /\ attempt'[o].told \notin Excluding /\ \A n \in natives' : n.for # o
               /\ \A d \in Bridges : d # c => o \notin bridge'[d].queue
    <3>1. o \in bridge[c].queue /\ o # a
      <4>1. CASE c = b BY <2>1, <4>1, <1>2
      <4>2. CASE c # b BY <2>1, <4>2, <1>2, QueueFacts
      <4> QED BY <4>1, <4>2
    <3>2. \A d \in Bridges : bridge'[d].queue \subseteq bridge[d].queue BY <1>2
    <3>3. \A n \in natives : n.for # o BY <3>1, QueueFacts
    <3>4. \A n \in natives' : n.for # o BY <1>3, <1>4, <3>1, <3>3
    <3>5. \A d \in Bridges : d # c => o \notin bridge'[d].queue BY <3>1, <3>2, QueueFacts
    <3> QED BY <3>1, <3>4, <3>5, QueueFacts
  <2> QED BY <2>1 DEF Queued
<1>13. ASSUME NEW c \in Bridges PROVE CallsCounted(c)'
  <2>1. CallsCounted(c) BY DEF BridgeInv
  <2>2. CASE c = b
    <3>1. CallsOf(b)' = CallsOf(b) \cup {call} /\ call \notin CallsOf(b) BY <1>3, <1>4, <1>7 DEF CallsOf
    <3>2. entry \notin bridge[b].seen BY <1>3, <1>6
    <3>3. IsFiniteSet(bridge[b].seen) /\ IsFiniteSet(CallsOf(b)) BY <2>1, <2>2 DEF CallsCounted
    <3>4. /\ IsFiniteSet(bridge'[b].seen) /\ Cardinality(bridge'[b].seen) = Cardinality(bridge[b].seen) + 1
          /\ IsFiniteSet(CallsOf(b)') /\ Cardinality(CallsOf(b)') = Cardinality(CallsOf(b)) + 1
      BY <1>2, <3>1, <3>2, <3>3, FS_AddElement
    <3>5. Cardinality(bridge[b].seen) \in Nat /\ Cardinality(CallsOf(b)) \in Nat BY <3>3, FS_CardinalityType
    <3>6. Cardinality(CallsOf(b)) <= Cardinality(bridge[b].seen) BY <2>1, <2>2 DEF CallsCounted, At
    <3>7. MaxRequests \in Nat BY BridgeAssumption
    <3>8. /\ Cardinality(bridge[b].seen) + 1 <= MaxRequests
          /\ Cardinality(CallsOf(b)) + 1 <= MaxRequests
          /\ Cardinality(CallsOf(b)) + 1 <= Cardinality(bridge[b].seen) + 1
      BY <1>6, <3>5, <3>6, <3>7
    <3> QED BY <2>2, <3>4, <3>8 DEF CallsCounted
  <2>3. CASE c # b
    <3>1. CallsOf(c)' = CallsOf(c) BY <1>3, <1>4, <2>3 DEF CallsOf
    <3> QED BY <1>2, <2>1, <2>3, <3>1 DEF CallsCounted, At
  <2> QED BY <2>2, <2>3
<1>14. \A o \in Attempts : AttemptTold(o)' BY <1>4 DEF BridgeInv, AttemptTold, AcceptedFor
<1> QED BY <1>5, <1>8, <1>9, <1>11, <1>12, <1>13, <1>14 DEF BridgeInv

LEMMA ServeKeeps == ASSUME BridgeInv, NEW b \in Bridges, NEW a \in Attempts, Serve(b, a) PROVE BridgeInv'
<1>1. At(b, "serving") /\ a \in bridge[b].queue /\ bound' = bound /\ locked' = locked /\ registered' = registered
  BY DEF Serve
<1>2. CASE Refused(b, a) BY <1>1, <1>2, ServedKeeps DEF Serve
<1>3. CASE ~Refused(b, a) /\ Repeated(b, a)
  <2>1. PICK s \in Seen(b, attempt[a].id) : s = CHOOSE t \in Seen(b, attempt[a].id) : TRUE BY <1>3 DEF Repeated
  <2>2. s \in bridge[b].seen /\ s.id = attempt[a].id /\ s.text = attempt[a].text /\ attempt[a].to = b
    BY <1>3, <2>1 DEF Refused, Seen
  <2>3. s.result = "submitted" => AcceptedFor(attempt[a].to, attempt[a].id, attempt[a].text)
    BY <2>2 DEF BridgeInv, Remembered
  <2>4. /\ bridge' = [bridge EXCEPT ![b].queue = @ \ {a}] /\ Answer(a, s.result) /\ natives' = natives
    BY <1>3, <2>1 DEF Serve
  <2> QED BY <1>1, <2>3, <2>4, ServedKeeps
<1>4. CASE ~Refused(b, a) /\ ~Repeated(b, a) BY <1>1, <1>4, NewCallKeeps DEF Serve
<1> QED BY <1>2, <1>3, <1>4

(* The entry of a call that ended is replaced by one with its result.      *)
LEMMA NativeEndsKeeps ==
  ASSUME BridgeInv, NEW b \in Bridges, NEW ok \in BOOLEAN, NativeEnds(b, ok)
  PROVE  BridgeInv'
<1> PICK a \in Attempts \cup {0} : a = bridge[b].at BY DEF BridgeInv, BridgeShapes
<1> DEFINE result == IF ok THEN "submitted" ELSE "unknown"
           entry == [id |-> attempt[a].id, text |-> attempt[a].text, result |-> result]
           others == {s \in bridge[b].seen : s.id # attempt[a].id}
<1>1. At(b, "native") /\ natives' = natives /\ bound' = bound /\ locked' = locked /\ registered' = registered
      /\ (ok => [by |-> b, for |-> a, accepted |-> TRUE] \in natives) /\ Answer(a, result)
      /\ bridge' = [bridge EXCEPT ![b].pc = "serving", ![b].at = 0,
             ![b].seen = {s \in @ : s.id # attempt[a].id} \cup {entry}]
  BY DEF NativeEnds
<1>2. Calling(b) BY DEF BridgeInv
<1>3. PICK n \in natives : n.by = b /\ n.for = a BY <1>1, <1>2 DEF Calling
<1>4. a \in Attempts /\ Called(n) BY <1>1, <1>2, <1>3 DEF Calling, BridgeInv
<1>5. DOMAIN bridge = Bridges /\ DOMAIN bridge[b] = BridgeFields /\ bridge[b].queue \subseteq Attempts
      /\ bridge[b].seen \subseteq EntrySet
  BY DEF BridgeInv, BridgeShapes
<1>6. result \in {"unknown", "submitted"} /\ (result = "submitted" => ok) OBVIOUS
<1>7. entry \in EntrySet /\ entry.id = attempt[a].id /\ entry.text = attempt[a].text /\ entry.result = result
  BY <1>4, AttemptShapes DEF EntrySet
<1>8. /\ DOMAIN bridge' = Bridges /\ \A c \in Bridges : c # b => bridge'[c] = bridge[c]
      /\ DOMAIN bridge'[b] = BridgeFields /\ bridge'[b].queue = bridge[b].queue /\ bridge'[b].pc = "serving"
      /\ bridge'[b].at = 0 /\ bridge'[b].seen = others \cup {entry}
  BY <1>1, <1>5 DEF BridgeFields
<1> HIDE DEF result, entry
<1>9. /\ AttemptOnly(a) /\ attempt'[a].pc = "done" /\ attempt'[a].told \in {result, attempt[a].told}
      /\ attempt'[a].id = attempt[a].id /\ attempt'[a].text = attempt[a].text
      /\ attempt'[a].to = attempt[a].to /\ attempt'[a].pin = attempt[a].pin /\ Steady(a)
  BY <1>1, <1>3, <1>4, <1>6, AnswerFacts DEF Called, Excluding
<1>10. \A o \in Attempts : Steady(o) BY <1>9 DEF Steady, AttemptOnly
<1>11. BridgeShapes'
  <2>1. bridge'[b].pc \in Holding \cup {"none", "gone"} BY <1>8 DEF Holding
  <2>2. bridge'[b].seen \subseteq EntrySet BY <1>5, <1>7, <1>8
  <2>3. natives' \in SUBSET NativeSet BY <1>1 DEF BridgeInv, BridgeShapes
  <2>4. DOMAIN attempt' = Attempts BY <1>9 DEF AttemptOnly
  <2>5. \A o \in Attempts : /\ DOMAIN attempt'[o] = AttemptFields /\ attempt'[o].text \in Texts \cup {""}
                            /\ attempt'[o].id \in [own : Attempts \cup {0}, given : RequestIds \cup {""}]
    BY <1>9, AttemptShapes DEF AttemptOnly
  <2>6. bridge'[b].queue \subseteq Attempts /\ bridge'[b].at \in Attempts \cup {0} BY <1>5, <1>8
  <2> QED BY <1>1, <1>8, <2>1, <2>2, <2>3, <2>4, <2>5, <2>6, OneBridgeShapes
<1>12. ok => AcceptedFor(b, attempt[a].id, attempt[a].text) BY <1>1 DEF AcceptedFor
<1>13. Remembered(b)'
  <2>1. Remembered(b) BY DEF BridgeInv
  <2>2. \A s, t \in bridge'[b].seen : s.id = t.id => s = t BY <1>7, <1>8, <2>1 DEF Remembered
  <2>3. \A id, text : AcceptedFor(b, id, text) => AcceptedFor(b, id, text)' BY <1>1, <1>10, AcceptedStays
  <2>4. \A s \in bridge'[b].seen : s.result = "submitted" => AcceptedFor(b, s.id, s.text)
    BY <1>6, <1>7, <1>8, <1>12, <2>1 DEF Remembered
  <2> QED BY <2>2, <2>3, <2>4 DEF Remembered
<1>14. IsFiniteSet(bridge'[b].seen) /\ Cardinality(bridge'[b].seen) = Cardinality(bridge[b].seen)
  <2>1. IsFiniteSet(bridge[b].seen) /\ Remembered(b) BY DEF BridgeInv, CallsCounted
  <2>2. PICK old \in bridge[b].seen : old.id = attempt[a].id BY <1>1, <1>2 DEF Calling
  <2>3. others = bridge[b].seen \ {old} BY <2>1, <2>2 DEF Remembered
  <2> HIDE DEF others
  <2>4. IsFiniteSet(others) /\ Cardinality(others) = Cardinality(bridge[b].seen) - 1
    BY <2>1, <2>3, FS_RemoveElement
  <2>5. entry \notin others BY <1>7 DEF others
  <2>6. IsFiniteSet(others \cup {entry}) /\ Cardinality(others \cup {entry}) = Cardinality(others) + 1
    BY <2>4, <2>5, FS_AddElement
  <2>7. Cardinality(bridge[b].seen) \in Nat BY <2>1, FS_CardinalityType
  <2> QED BY <1>8, <2>4, <2>6, <2>7
<1>15. \A s \in bridge[b].seen : \E t \in bridge'[b].seen : t.id = s.id BY <1>7, <1>8
<1>16. \A c \in Bridges : Mindful(c) /\ FilesHeld(c)'
  <2>1. Mindful(b) BY <1>1, <1>8, <1>13, <1>14, <1>15 DEF Mindful, At
  <2>2. FilesHeld(b)' BY <1>1, <1>8 DEF BridgeInv, FilesHeld, At, Holding
  <2>3. ASSUME NEW c \in Bridges, c # b PROVE Mindful(c) /\ FilesHeld(c)'
    <3>1. bridge'[c] = bridge[c] /\ FilesHeld(c) BY <1>8, <2>3 DEF BridgeInv
    <3> QED BY <1>1, <3>1 DEF Mindful, FilesHeld, At
  <2> QED BY <2>1, <2>2, <2>3
<1>17. \A c \in Bridges : Queued(c)' BY <1>1, <1>8, <1>10, QueuesShrink
<1>18. AttemptTold(a)'
  <2>1. AttemptTold(a) BY <1>4 DEF BridgeInv
  <2>2. attempt[a].to = b BY <1>3, <1>4 DEF Called
  <2>3. attempt'[a].told = "submitted" => AcceptedFor(b, attempt[a].id, attempt[a].text)
    BY <1>6, <1>9, <1>12, <2>1, <2>2 DEF AttemptTold
  <2>4. \A id, text : AcceptedFor(b, id, text) => AcceptedFor(b, id, text)' BY <1>1, <1>10, AcceptedStays
  <2>5. attempt[a].pin \in {0, b} BY <1>3, <1>4 DEF Called
  <2>6. attempt'[a].told = "submitted" =>
          AcceptedFor(b, attempt[a].id, attempt[a].text)'
    <3> DEFINE id == attempt[a].id
               text == attempt[a].text
    <3>1. SUFFICES ASSUME attempt'[a].told = "submitted"
                   PROVE  \E m \in natives : m.by = b /\ attempt'[m.for].id = attempt'[a].id /\ m.accepted
                                             /\ attempt'[m.for].text = attempt'[a].text
      BY <1>1 DEF AcceptedFor
    <3>2. PICK m \in natives : m.by = b /\ attempt[m.for].id = attempt[a].id /\ m.accepted
                               /\ attempt[m.for].text = attempt[a].text
      BY <2>3, <3>1 DEF AcceptedFor
    <3>3. m.for \in Attempts BY DEF BridgeInv, BridgeShapes, NativeSet
    <3> QED BY <1>9, <1>10, <3>2, <3>3 DEF Steady
  <2> QED BY <1>9, <2>2, <2>6 DEF AttemptTold, AcceptedFor
<1>19. \A o \in Attempts : AttemptTold(o)' BY <1>1, <1>9, <1>10, <1>18, ToldStays DEF AttemptOnly
<1> QED BY <1>1, <1>10, <1>11, <1>16, <1>17, <1>19, BridgeFrame

(* The thread's acceptance changes only what is known of one call.         *)
LEMMA AcceptsKeeps == ASSUME BridgeInv, NEW n \in natives, NativeAccepts(n) PROVE BridgeInv'
<1> DEFINE m == [n EXCEPT !.accepted = TRUE]
<1>1. /\ natives' = (natives \ {n}) \cup {m} /\ bridge' = bridge /\ attempt' = attempt
      /\ bound' = bound /\ locked' = locked /\ registered' = registered /\ ~n.accepted
  BY DEF NativeAccepts
<1>2. m \in NativeSet /\ m.by = n.by /\ m.for = n.for /\ m.accepted /\ natives \in SUBSET NativeSet
  BY DEF BridgeInv, BridgeShapes, NativeSet
<1> HIDE DEF m
<1>3. BridgeShapes' BY <1>1, <1>2 DEF BridgeInv, BridgeShapes
<1>4. CallsDistinct' BY <1>1, <1>2 DEF BridgeInv, CallsDistinct
<1>5. \A k \in natives' : Called(k)' BY <1>1, <1>2 DEF BridgeInv, Called, At
<1>6. \A b, id, text : AcceptedFor(b, id, text) => AcceptedFor(b, id, text)' BY <1>1 DEF AcceptedFor
<1>7. \A b \in Bridges : FilesHeld(b)' /\ Queued(b)' /\ Calling(b)'
  BY <1>1, <1>2 DEF BridgeInv, FilesHeld, Queued, Calling, At
<1>8. \A b \in Bridges : Remembered(b)' BY <1>1, <1>6 DEF BridgeInv, Remembered
<1>9. ASSUME NEW b \in Bridges PROVE CallsCounted(b)'
  <2>1. CallsCounted(b) BY DEF BridgeInv
  <2>2. CASE n.by # b
    <3>1. CallsOf(b)' = CallsOf(b) BY <1>1, <1>2, <2>2 DEF CallsOf
    <3> QED BY <1>1, <2>1, <3>1 DEF CallsCounted, At
  <2>3. CASE n.by = b
    <3>1. CallsOf(b)' = (CallsOf(b) \ {n}) \cup {m} /\ n \in CallsOf(b) BY <1>1, <1>2, <2>3 DEF CallsOf
    <3>2. m \notin CallsOf(b) \ {n}
      <4>1. SUFFICES ASSUME m \in natives PROVE m = n BY DEF CallsOf
      <4> QED BY <1>2, <4>1 DEF BridgeInv, CallsDistinct
    <3>3. IsFiniteSet(CallsOf(b)) /\ Cardinality(CallsOf(b)) \in Nat BY <2>1, FS_CardinalityType DEF CallsCounted
    <3>4. IsFiniteSet(CallsOf(b) \ {n}) /\ Cardinality(CallsOf(b) \ {n}) = Cardinality(CallsOf(b)) - 1
      BY <3>1, <3>3, FS_RemoveElement
    <3>5. IsFiniteSet(CallsOf(b)') /\ Cardinality(CallsOf(b)') = Cardinality(CallsOf(b) \ {n}) + 1
      BY <3>1, <3>2, <3>4, FS_AddElement
    <3>6. Cardinality(CallsOf(b)') = Cardinality(CallsOf(b)) BY <3>3, <3>4, <3>5
    <3> QED BY <1>1, <2>1, <3>5, <3>6 DEF CallsCounted, At
  <2> QED BY <2>2, <2>3
<1>10. \A a \in Attempts : AttemptTold(a)' BY <1>1, <1>6 DEF BridgeInv, AttemptTold
<1> QED BY <1>3, <1>4, <1>5, <1>7, <1>8, <1>9, <1>10 DEF BridgeInv

LEMMA BridgeStep == ASSUME BridgeInv, [AgyNext]_agyVars PROVE BridgeInv'
<1>1. CASE \E b \in Bridges : BridgeActs(b)
  BY <1>1, StartKeeps, FileStepsKeep, EndKeeps, ServeKeeps, NativeEndsKeeps DEF BridgeActs
<1>2. CASE \E a \in Attempts : AttemptActs(a)
  BY <1>2, AttemptStartsKeeps, AttemptLooksKeeps, PostKeeps DEF AttemptActs
<1>3. CASE \E n \in natives : NativeAccepts(n) BY <1>3, AcceptsKeeps
<1>4. CASE TuiEnds \/ TuiStarts \/ UNCHANGED agyVars
  <2>1. UNCHANGED <<locked, bound, registered, bridge, attempt, natives>> BY <1>4 DEF TuiEnds, TuiStarts, agyVars
  <2>2. BridgeShapes' /\ CallsDistinct' BY <2>1 DEF BridgeInv, BridgeShapes, CallsDistinct
  <2>3. ASSUME NEW b \in Bridges
        PROVE  FilesHeld(b)' /\ Queued(b)' /\ Remembered(b)' /\ Calling(b)' /\ CallsCounted(b)'
    <3>1. FilesHeld(b) /\ Queued(b) /\ Remembered(b) /\ Calling(b) /\ CallsCounted(b) BY DEF BridgeInv
    <3>2. FilesHeld(b)' /\ Queued(b)' /\ Calling(b)' BY <2>1, <3>1 DEF FilesHeld, Queued, Calling, At
    <3>3. Remembered(b)' BY <2>1, <3>1 DEF Remembered, AcceptedFor
    <3>4. CallsOf(b)' = CallsOf(b) BY <2>1 DEF CallsOf
    <3> QED BY <2>1, <3>1, <3>2, <3>3, <3>4 DEF CallsCounted, At
  <2>4. (\A n \in natives' : Called(n)') /\ \A a \in Attempts : AttemptTold(a)'
    BY <2>1 DEF BridgeInv, Called, AttemptTold, AcceptedFor, At
  <2> QED BY <2>2, <2>3, <2>4 DEF BridgeInv
<1> QED BY <1>1, <1>2, <1>3, <1>4 DEF AgyNext

THEOREM BridgeInvariance == AgySpec => []BridgeInv
<1>1. AgyInit => BridgeInv BY BridgeInitially
<1>2. BridgeInv /\ [AgyNext]_agyVars => BridgeInv' BY BridgeStep
<1> QED BY <1>1, <1>2, PTL DEF AgySpec

LEMMA BridgeInvSafe == ASSUME BridgeInv PROVE BridgeSafe
<1>1. OneCallPerRequest
  <2>1. SUFFICES ASSUME NEW b \in Bridges, NEW a \in Attempts PROVE Cardinality(Calls(b, attempt[a].id)) <= 1
    BY DEF OneCallPerRequest
  <2>2. CASE Calls(b, attempt[a].id) = {}
    <3>1. Cardinality(Calls(b, attempt[a].id)) = 0 BY <2>2, FS_EmptySet
    <3> QED BY <3>1
  <2>3. CASE Calls(b, attempt[a].id) # {}
    <3>1. PICK n : n \in Calls(b, attempt[a].id) BY <2>3
    <3>2. Calls(b, attempt[a].id) = {n} BY <3>1 DEF Calls, BridgeInv, CallsDistinct
    <3>3. Cardinality(Calls(b, attempt[a].id)) = 1 BY <3>2, FS_Singleton
    <3> QED BY <3>3
  <2> QED BY <2>2, <2>3
<1>2. RepliesTrue
  <2>1. SUFFICES ASSUME NEW a \in Attempts
        PROVE  /\ attempt[a].told = "submitted" =>
                    \E n \in Calls(attempt[a].to, attempt[a].id) : n.accepted /\ attempt[n.for].text = attempt[a].text
               /\ attempt[a].told \in {"refused", "stale", "not_registered"} => ~\E n \in natives : n.for = a
    BY DEF RepliesTrue
  <2>2. AttemptTold(a) BY DEF BridgeInv
  <2> QED BY <2>2 DEF AttemptTold, AcceptedFor, Calls, BridgeInv, Called, Excluding
<1>3. GenerationsKept
  <2>1. \A b \in Bridges : {n \in natives : n.by = b} = CallsOf(b) BY DEF CallsOf
  <2>2. \A b \in Bridges : Cardinality(CallsOf(b)) <= MaxRequests BY DEF BridgeInv, CallsCounted
  <2>3. \A n \in natives : attempt[n.for].to = n.by /\ attempt[n.for].pin \in {0, n.by} BY DEF BridgeInv, Called
  <2> QED BY <2>1, <2>2, <2>3 DEF GenerationsKept
<1>4. FilesOfTheServing BY DEF BridgeInv, FilesHeld, FilesOfTheServing, Holding
<1> QED BY <1>1, <1>2, <1>3, <1>4 DEF BridgeSafe

(* A request reaches the thread at most once through a generation, and a   *)
(* told outcome is true, however bridges and commands die, wait and repeat *)
(* (antigravity.py, AgyBridge.handle and AntigravityAdapter.submit).       *)
THEOREM BridgeKept == AgySpec => []BridgeSafe
<1>1. BridgeInv => BridgeSafe BY BridgeInvSafe
<1> QED BY <1>1, BridgeInvariance, PTL

-----------------------------------------------------------------------------
(* The tool server.                                                        *)

CallFields == {"pc", "op", "named", "given", "route", "todo", "late", "done", "cancelled", "parts", "told"}
CliFields == {"leader", "helper", "escaped", "native", "crashed", "out", "sent"}
CallSent == {"send", "wake"}
Cleaning == {"reads", "term", "grace", "reap", "settle"}

CallFits(c) ==
  /\ DOMAIN tool[c] = CallFields /\ DOMAIN cli[c] = CliFields
  /\ tool[c].pc \in Cleaning \cup {"new", "planned", "over"}
  /\ cli[c].leader \in {"none", "runs", "stopping", "ended", "reaped"}
  /\ cli[c].helper \in BOOLEAN /\ cli[c].escaped \in BOOLEAN /\ cli[c].crashed \in BOOLEAN
  /\ tool[c].named \in BOOLEAN /\ tool[c].done \in BOOLEAN

(* Which processes of an invocation are left at each of its stages; only a *)
(* command line that crashed leaves its app-server behind.                 *)
Processes(c) ==
  /\ tool[c].pc = "new" => cli[c] = NoCli /\ tool[c] = NoCall
  /\ tool[c].pc \in {"planned", "over"} => cli[c].leader \in {"none", "reaped"} /\ ~cli[c].helper
  /\ tool[c].pc \in {"reads", "term"} => cli[c].leader \in {"runs", "ended"}
  /\ tool[c].pc = "grace" => cli[c].leader \in {"stopping", "ended"}
  /\ tool[c].pc = "reap" => cli[c].leader = "ended" /\ ~cli[c].helper
  /\ tool[c].pc = "settle" => cli[c].leader = "reaped" /\ ~cli[c].helper
  /\ tool[c].done /\ tool[c].pc \in Cleaning => cli[c].leader \in {"ended", "reaped"}
  /\ cli[c].native = "runs" =>
       tool[c].op = "wake" /\ (cli[c].leader \in {"runs", "stopping"} \/ cli[c].crashed)
  /\ cli[c].crashed => cli[c].leader \in {"ended", "reaped"}

(* An output says of the submission what is so, and only a leader that     *)
(* still runs can make it untrue.                                          *)
Effects(c) ==
  /\ cli[c].out \in {"", "garbled", "posted", "unknown", "failed", "ok", "refused", "mixed"}
  /\ cli[c].out # "" => cli[c].leader \in {"ended", "reaped"}
  /\ cli[c].native = "runs" => cli[c].sent # ""
  /\ cli[c].out \in {"ok", "refused"} => cli[c].sent = ""
  /\ cli[c].out = "posted" => cli[c].sent # ""
  /\ cli[c].sent # "" => tool[c].op \in CallSent /\ cli[c].sent = tool[c].route
  /\ IF tool[c].named
     THEN tool[c].route \in Matching /\ (tool[c].op \in CallSent => tool[c].given = tool[c].route)
     ELSE tool[c].pc \notin {"new"} => tool[c].route \in {"policy", ""} /\ (tool[c].route = "" => tool[c].told = "rejected")

(* A message goes to one agent, and nothing else ever reports a submission. *)
Answers(c) ==
  /\ tool[c].op \in CallSent => tool[c].parts = {} /\ tool[c].todo = {CHOOSE a \in ToolAgents : TRUE}
  /\ "posted" \notin tool[c].parts
  /\ tool[c].pc # "over" => tool[c].told = ""
  /\ tool[c].pc = "over" => /\ tool[c].told \in {"rejected", "refused", "ok"} => cli[c].sent = ""
                            /\ tool[c].told = "posted" => cli[c].sent # ""

CallInv(c) == CallFits(c) /\ Processes(c) /\ Effects(c) /\ Answers(c)
ToolInv == DOMAIN tool = ToolCalls /\ DOMAIN cli = ToolCalls /\ \A c \in ToolCalls : CallInv(c)

(* A step of one call or of its invocation.                                *)
CallOnly(c) ==
  /\ DOMAIN tool' = ToolCalls /\ DOMAIN cli' = ToolCalls
  /\ DOMAIN tool'[c] = CallFields /\ DOMAIN cli'[c] = CliFields
  /\ \A d \in ToolCalls : d # c => tool'[d] = tool[d] /\ cli'[d] = cli[d]

LEMMA CallFrame ==
  ASSUME ToolInv, NEW c \in ToolCalls, CallOnly(c), CallInv(c)' PROVE ToolInv'
<1>1. ASSUME NEW d \in ToolCalls, d # c PROVE CallInv(d)'
  <2>1. CallInv(d) /\ tool'[d] = tool[d] /\ cli'[d] = cli[d] BY <1>1 DEF ToolInv, CallOnly
  <2>2. CallFits(d)' BY <2>1 DEF CallInv, CallFits
  <2>3. Processes(d)' BY <2>1 DEF CallInv, Processes
  <2>4. Effects(d)' BY <2>1 DEF CallInv, Effects
  <2>5. Answers(d)' BY <2>1 DEF CallInv, Answers
  <2> QED BY <2>2, <2>3, <2>4, <2>5 DEF CallInv
<1> QED BY <1>1 DEF ToolInv, CallOnly

LEMMA ToolStutter == ASSUME ToolInv, tool' = tool, cli' = cli PROVE ToolInv'
<1>1. ASSUME NEW d \in ToolCalls PROVE CallInv(d)'
  <2>1. CallInv(d) BY DEF ToolInv
  <2>2. CallFits(d)' BY <2>1 DEF CallInv, CallFits
  <2>3. Processes(d)' BY <2>1 DEF CallInv, Processes
  <2>4. Effects(d)' BY <2>1 DEF CallInv, Effects
  <2>5. Answers(d)' BY <2>1 DEF CallInv, Answers
  <2> QED BY <2>2, <2>3, <2>4, <2>5 DEF CallInv
<1> QED BY <1>1 DEF ToolInv

LEMMA NoneFacts ==
  /\ DOMAIN NoCall = CallFields /\ NoCall.pc = "new" /\ NoCall.op = "" /\ NoCall.named = FALSE /\ NoCall.given = ""
  /\ NoCall.route = "" /\ NoCall.todo = {} /\ NoCall.done = FALSE /\ NoCall.parts = {} /\ NoCall.told = ""
  /\ DOMAIN NoCli = CliFields /\ NoCli.leader = "none" /\ NoCli.helper = FALSE /\ NoCli.escaped = FALSE
  /\ NoCli.native = "none" /\ NoCli.crashed = FALSE /\ NoCli.out = "" /\ NoCli.sent = ""
BY DEF NoCall, NoCli, CallFields, CliFields

LEMMA ToolInitially == ASSUME ToolInit PROVE ToolInv
<1>1. \A c \in ToolCalls : tool[c] = NoCall /\ cli[c] = NoCli BY DEF ToolInit
<1>2. ASSUME NEW c \in ToolCalls PROVE CallInv(c)
  <2>1. CallFits(c) BY <1>1, NoneFacts DEF CallFits, Cleaning
  <2>2. Processes(c) BY <1>1, NoneFacts DEF Processes, Cleaning
  <2>3. Effects(c) BY <1>1, NoneFacts DEF Effects
  <2>4. Answers(c) BY <1>1, NoneFacts DEF Answers, CallSent
  <2> QED BY <2>1, <2>2, <2>3, <2>4 DEF CallInv
<1> QED BY <1>2 DEF ToolInv, ToolInit

(* What a call is, and what it keeps while nothing of it changes.          *)
LEMMA CallFacts ==
  ASSUME ToolInv, NEW c \in ToolCalls
  PROVE  /\ DOMAIN tool = ToolCalls /\ DOMAIN cli = ToolCalls
         /\ DOMAIN tool[c] = CallFields /\ DOMAIN cli[c] = CliFields /\ CallInv(c)
BY DEF ToolInv, CallInv, CallFits

SameCall(c) == tool' = tool
SameCli(c) == cli' = cli
(* What a call was given does not change once it is planned.               *)
GivenKept(c) ==
  /\ tool'[c].op = tool[c].op /\ tool'[c].named = tool[c].named /\ tool'[c].given = tool[c].given
  /\ tool'[c].route = tool[c].route

LEMMA BeginsKeeps ==
  ASSUME ToolInv, NEW c \in ToolCalls, NEW op \in Ops, NEW named \in BOOLEAN, NEW given \in Routes \cup {""},
         Begins(c, op, named, given)
  PROVE  ToolInv'
<1>1. tool[c] = NoCall /\ cli[c] = NoCli /\ cli' = cli BY CallFacts DEF Begins, CallInv, Processes
<1>2. cli'[c].leader = "none" /\ cli'[c].helper = FALSE /\ cli'[c].escaped = FALSE /\ cli'[c].crashed = FALSE
      /\ cli'[c].native = "none" /\ cli'[c].out = "" /\ cli'[c].sent = ""
  BY <1>1, NoneFacts
<1>3. CASE Rejects(c)
  <2>1. CallOnly(c) /\ tool'[c].pc = "over" /\ tool'[c].told = "rejected"
        /\ tool'[c].op = "" /\ tool'[c].named = FALSE /\ tool'[c].route = "" /\ tool'[c].done = FALSE /\ tool'[c].parts = {}
    BY <1>1, <1>3, CallFacts, NoneFacts DEF Rejects, CallFields, CallOnly
  <2>2. CallFits(c)' BY <1>2, <2>1, CallFacts DEF CallFits, CallOnly
  <2>3. Processes(c)' /\ Effects(c)' /\ Answers(c)'
    BY <1>2, <2>1 DEF Processes, Effects, Answers, Cleaning, CallSent
  <2> QED BY <2>1, <2>2, <2>3, CallFrame DEF CallInv
<1>4. CASE ~Rejects(c)
  <2> DEFINE todo == IF op \in {"diagnose", "list"} /\ ~named THEN ToolAgents ELSE {CHOOSE a \in ToolAgents : TRUE}
             route == IF named THEN preset ELSE "policy"
             new == [NoCall EXCEPT !.pc = "planned", !.op = op, !.named = named, !.given = given,
                       !.route = route, !.todo = todo]
  <2>1. WellFormed(op, named, given) /\ (named => MayExpand(preset, given)) /\ tool' = [tool EXCEPT ![c] = new]
    BY <1>4 DEF Begins
  <2>2. /\ DOMAIN new = CallFields /\ new.pc = "planned" /\ new.op = op /\ new.named = named /\ new.given = given
        /\ new.route = route /\ new.todo = todo /\ new.done = FALSE /\ new.parts = {} /\ new.told = ""
    BY DEF NoCall, CallFields
  <2>3. op \in CallSent => todo = {CHOOSE a \in ToolAgents : TRUE} BY DEF CallSent
  <2>4. IF named THEN route \in Matching /\ (op \in CallSent => given = route) ELSE route = "policy"
    BY <2>1 DEF WellFormed, MayExpand, CallSent
  <2> HIDE DEF new, todo, route
  <2>5. CallOnly(c) /\ tool'[c] = new BY <1>1, <2>1, <2>2, CallFacts DEF CallOnly
  <2>6. CallFits(c)' BY <1>2, <2>2, <2>5, CallFacts DEF CallFits, CallOnly
  <2>7. Processes(c)' BY <1>2, <2>2, <2>5 DEF Processes, Cleaning
  <2>8. Effects(c)' BY <1>2, <2>2, <2>4, <2>5 DEF Effects
  <2>9. Answers(c)' BY <1>2, <2>2, <2>3, <2>5 DEF Answers
  <2> QED BY <2>5, <2>6, <2>7, <2>8, <2>9, CallFrame DEF CallInv
<1> QED BY <1>3, <1>4

LEMMA SpawnsKeeps == ASSUME ToolInv, NEW c \in ToolCalls, Spawns(c) PROVE ToolInv'
<1>1. CallInv(c) /\ tool[c].pc = "planned" BY CallFacts DEF Spawns
<1>2. CASE tool' = [tool EXCEPT ![c].pc = "reads", ![c].done = FALSE]
           /\ \E h, e \in BOOLEAN :
                cli' = [cli EXCEPT ![c] = [NoCli EXCEPT !.leader = "runs", !.helper = h, !.escaped = e, !.sent = cli[c].sent]]
  <2>1. PICK h, e \in BOOLEAN :
          cli' = [cli EXCEPT ![c] = [NoCli EXCEPT !.leader = "runs", !.helper = h, !.escaped = e, !.sent = cli[c].sent]]
    BY <1>2
  <2>2. /\ CallOnly(c) /\ cli'[c].leader = "runs" /\ cli'[c].helper = h /\ cli'[c].escaped = e
        /\ cli'[c].native = "none" /\ cli'[c].crashed = FALSE /\ cli'[c].out = "" /\ cli'[c].sent = cli[c].sent
        /\ tool'[c].pc = "reads" /\ tool'[c].done = FALSE /\ tool'[c].parts = tool[c].parts
        /\ tool'[c].todo = tool[c].todo /\ tool'[c].told = tool[c].told /\ GivenKept(c)
    BY <1>2, <2>1, CallFacts DEF CallOnly, NoCli, CliFields, CallFields, GivenKept
  <2>3. CallFits(c)' BY <1>1, <2>2 DEF CallInv, CallFits, CallOnly, Cleaning, GivenKept
  <2>4. Processes(c)' BY <2>2 DEF Processes
  <2>5. Effects(c)' BY <1>1, <2>2 DEF CallInv, Effects, Answers, GivenKept
  <2>6. Answers(c)' BY <1>1, <2>2 DEF CallInv, Answers, GivenKept
  <2> QED BY <2>2, <2>3, <2>4, <2>5, <2>6, CallFrame DEF CallInv
<1>3. CASE cli' = cli /\ tool' = [tool EXCEPT ![c].pc = "over", ![c].told = IF tool[c].named THEN "unknown" ELSE "error"]
  <2>1. /\ CallOnly(c) /\ tool'[c].pc = "over" /\ tool'[c].told \in {"unknown", "error"} /\ GivenKept(c)
        /\ tool'[c].done = tool[c].done /\ tool'[c].parts = tool[c].parts /\ tool'[c].todo = tool[c].todo
    BY <1>3, CallFacts DEF CallOnly, CallFields, GivenKept
  <2>2. CallFits(c)' BY <1>1, <1>3, <2>1 DEF CallInv, CallFits, CallOnly, Cleaning, GivenKept
  <2>3. Processes(c)' BY <1>1, NoneFacts, <1>3, <2>1 DEF CallInv, Processes, Cleaning, GivenKept
  <2>4. Effects(c)' BY <1>1, <1>3, <2>1 DEF CallInv, Effects, Answers, GivenKept
  <2>5. Answers(c)' BY <1>1, <1>3, <2>1 DEF CallInv, Answers, GivenKept
  <2> QED BY <2>1, <2>2, <2>3, <2>4, <2>5, CallFrame DEF CallInv
<1> QED BY <1>2, <1>3 DEF Spawns

(* A step of the command line or of what it started.                       *)
LEMMA CliStepsKeeps == ASSUME ToolInv, NEW c \in ToolCalls, CliSteps(c) PROVE ToolInv'
<1>1. CallInv(c) /\ tool' = tool BY CallFacts DEF CliSteps
<1>2. CASE CliSubmits(c)
  <2>1. /\ CallOnly(c) /\ cli'[c].leader = "runs" /\ cli'[c].helper = cli[c].helper /\ cli'[c].escaped = cli[c].escaped
        /\ cli'[c].native = cli[c].native /\ cli'[c].crashed = cli[c].crashed /\ cli'[c].out = cli[c].out
        /\ cli'[c].sent = tool[c].route /\ cli[c].sent = "" /\ tool[c].op \in CallSent /\ cli[c].leader = "runs"
    BY <1>1, <1>2, CallFacts DEF CliSubmits, CallOnly, CliFields, CallSent
  <2>5. CallFits(c)' BY <1>1, <2>1 DEF CallInv, CallFits, CallOnly
  <2>6. Processes(c)' BY <1>1, NoneFacts, <2>1 DEF CallInv, CallFits, Processes
  <2>7. Effects(c)' BY <1>1, <2>1 DEF CallInv, CallFits, Effects, Processes
  <2>8. Answers(c)' BY <1>1, <2>1 DEF CallInv, CallFits, Answers, Processes
  <2> QED BY <2>1, <2>5, <2>6, <2>7, <2>8, CallFrame DEF CallInv
<1>3. CASE CliActivates(c)
  <2>1. /\ CallOnly(c) /\ cli'[c].leader = "runs" /\ cli'[c].helper = cli[c].helper /\ cli'[c].escaped = cli[c].escaped
        /\ cli'[c].native = "runs" /\ cli'[c].crashed = cli[c].crashed /\ cli'[c].out = cli[c].out
        /\ cli'[c].sent = cli[c].sent /\ cli[c].sent # "" /\ tool[c].op = "wake" /\ cli[c].leader = "runs"
    BY <1>1, <1>3, CallFacts DEF CliActivates, CallOnly, CliFields
  <2>5. CallFits(c)' BY <1>1, <2>1 DEF CallInv, CallFits, CallOnly
  <2>6. Processes(c)' BY <1>1, NoneFacts, <2>1 DEF CallInv, CallFits, Processes
  <2>7. Effects(c)' BY <1>1, <2>1 DEF CallInv, CallFits, Effects, Processes
  <2>8. Answers(c)' BY <1>1, <2>1 DEF CallInv, CallFits, Answers, Processes
  <2> QED BY <2>1, <2>5, <2>6, <2>7, <2>8, CallFrame DEF CallInv
<1>4. CASE CliStopsNative(c)
  <2>1. /\ CallOnly(c) /\ cli'[c].helper = cli[c].helper /\ cli'[c].escaped = cli[c].escaped
        /\ cli'[c].native = "gone" /\ cli'[c].crashed = cli[c].crashed /\ cli'[c].sent = cli[c].sent
        /\ IF cli[c].leader = "stopping" THEN cli'[c].leader = "ended" /\ cli'[c].out = "posted"
           ELSE cli'[c].leader = cli[c].leader /\ cli'[c].out = cli[c].out
        /\ cli[c].native = "runs" /\ cli[c].leader \in {"runs", "stopping"}
    BY <1>1, <1>4, CallFacts DEF CliStopsNative, CliRuns, CallOnly, CliFields
  <2>5. CallFits(c)' BY <1>1, <2>1 DEF CallInv, CallFits, CallOnly
  <2>6. Processes(c)' BY <1>1, NoneFacts, <2>1 DEF CallInv, CallFits, Processes
  <2>7. Effects(c)' BY <1>1, <2>1 DEF CallInv, CallFits, Effects, Processes
  <2>8. Answers(c)' BY <1>1, <2>1 DEF CallInv, CallFits, Answers, Processes
  <2> QED BY <2>1, <2>5, <2>6, <2>7, <2>8, CallFrame DEF CallInv
<1>5. CASE \E o \in {"posted", "unknown", "failed", "ok", "refused", "mixed"} : CliPrints(c, o)
  <2>1. PICK o \in {"posted", "unknown", "failed", "ok", "refused", "mixed"} : CliPrints(c, o) BY <1>5
  <2>2. /\ CallOnly(c) /\ cli'[c].helper = cli[c].helper /\ cli'[c].escaped = cli[c].escaped
        /\ cli'[c].native = cli[c].native /\ cli'[c].crashed = cli[c].crashed /\ cli'[c].sent = cli[c].sent
        /\ cli'[c].leader = "ended" /\ cli'[c].out = o /\ cli[c].native # "runs" /\ cli[c].leader = "runs"
    BY <1>1, <2>1, CallFacts DEF CliPrints, CallOnly, CliFields
  <2>3. /\ o = "posted" => cli[c].sent # ""
        /\ o \in {"ok", "refused"} => cli[c].sent = ""
    BY <2>1 DEF CliPrints, Outputs
  <2>5. CallFits(c)' BY <1>1, <2>2, <2>3 DEF CallInv, CallFits, CallOnly
  <2>6. Processes(c)' BY <1>1, NoneFacts, <2>2, <2>3 DEF CallInv, CallFits, Processes
  <2>7. Effects(c)' BY <1>1, <2>2, <2>3 DEF CallInv, CallFits, Effects, Processes
  <2>8. Answers(c)' BY <1>1, <2>2, <2>3 DEF CallInv, CallFits, Answers, Processes
  <2> QED BY <2>2, <2>3, <2>5, <2>6, <2>7, <2>8, CallFrame DEF CallInv
<1>6. CASE CliCrashes(c)
  <2>1. /\ CallOnly(c) /\ cli'[c].helper = cli[c].helper /\ cli'[c].escaped = cli[c].escaped
        /\ cli'[c].native = cli[c].native /\ cli'[c].crashed = TRUE /\ cli'[c].sent = cli[c].sent
        /\ cli'[c].leader = "ended" /\ cli'[c].out = "garbled" /\ cli[c].leader \in {"runs", "stopping"}
    BY <1>1, <1>6, CallFacts DEF CliCrashes, CliRuns, CallOnly, CliFields
  <2>5. CallFits(c)' BY <1>1, <2>1 DEF CallInv, CallFits, CallOnly
  <2>6. Processes(c)' BY <1>1, NoneFacts, <2>1 DEF CallInv, CallFits, Processes
  <2>7. Effects(c)' BY <1>1, <2>1 DEF CallInv, CallFits, Effects, Processes
  <2>8. Answers(c)' BY <1>1, <2>1 DEF CallInv, CallFits, Answers, Processes
  <2> QED BY <2>1, <2>5, <2>6, <2>7, <2>8, CallFrame DEF CallInv
<1>7. CASE OtherEnds(c)
  <2>1. tool[c].pc # "new" BY <1>1, <1>7, NoneFacts DEF OtherEnds, CallInv, Processes
  <2>2. /\ CallOnly(c) /\ cli'[c].helper \in {cli[c].helper, FALSE} /\ cli'[c].escaped \in {cli[c].escaped, FALSE}
        /\ cli'[c].native = cli[c].native /\ cli'[c].crashed = cli[c].crashed /\ cli'[c].sent = cli[c].sent
        /\ cli'[c].leader = cli[c].leader /\ cli'[c].out = cli[c].out
    <3>1. CASE cli[c].helper /\ cli' = [cli EXCEPT ![c].helper = FALSE]
      BY <1>1, <3>1, CallFacts DEF CallOnly, CliFields
    <3>2. CASE cli[c].escaped /\ cli' = [cli EXCEPT ![c].escaped = FALSE]
      BY <1>1, <3>2, CallFacts DEF CallOnly, CliFields
    <3> QED BY <1>7, <3>1, <3>2 DEF OtherEnds
  <2>5. CallFits(c)' BY <1>1, <2>2, <2>1 DEF CallInv, CallFits, CallOnly
  <2>6. Processes(c)' BY <1>1, NoneFacts, <2>2, <2>1 DEF CallInv, CallFits, Processes
  <2>7. Effects(c)' BY <1>1, <2>2, <2>1 DEF CallInv, CallFits, Effects, Processes
  <2>8. Answers(c)' BY <1>1, <2>2, <2>1 DEF CallInv, CallFits, Answers, Processes
  <2> QED BY <2>2, <2>1, <2>5, <2>6, <2>7, <2>8, CallFrame DEF CallInv
<1> QED BY <1>2, <1>3, <1>4, <1>5, <1>6, <1>7 DEF CliSteps

(* What a stage of the cleanup leaves as it was.                           *)
ToolKept(c) ==
  /\ GivenKept(c) /\ tool'[c].todo = tool[c].todo /\ tool'[c].parts = tool[c].parts /\ tool'[c].told = tool[c].told

LEMMA ReadsKeeps ==
  ASSUME ToolInv, NEW c \in ToolCalls, ReadsAll(c) \/ StopsReading(c) \/ Cancels(c)
  PROVE  ToolInv'
<1>1. CallInv(c) /\ cli' = cli BY CallFacts DEF ReadsAll, StopsReading, Cancels
<1>2. /\ CallOnly(c) /\ ToolKept(c) /\ tool[c].pc \in Cleaning
      /\ \/ tool'[c].pc = tool[c].pc /\ tool'[c].done = tool[c].done
         \/ tool[c].pc = "reads" /\ tool'[c].pc = "term" /\ tool'[c].done = tool[c].done
         \/ tool[c].pc = "reads" /\ tool'[c].pc = "term" /\ tool'[c].done = TRUE /\ AtEof(c)
  <2>1. CASE ReadsAll(c)
    BY <1>1, <2>1, CallFacts DEF ReadsAll, CallOnly, CallFields, ToolKept, GivenKept, Cleaning
  <2>2. CASE StopsReading(c)
    BY <1>1, <2>2, CallFacts DEF StopsReading, CallOnly, CallFields, ToolKept, GivenKept, Cleaning
  <2>3. CASE Cancels(c)
    BY <1>1, <2>3, CallFacts DEF Cancels, AfterCancel, CallOnly, CallFields, ToolKept, GivenKept, Cleaning
  <2> QED BY <2>1, <2>2, <2>3
<1>3. CallFits(c)' BY <1>1, <1>2 DEF CallInv, CallFits, CallOnly, Cleaning, ToolKept, GivenKept
<1>4. Processes(c)' BY <1>1, <1>2 DEF CallInv, Processes, AtEof, Cleaning, ToolKept, GivenKept
<1>5. Effects(c)' BY <1>1, <1>2 DEF CallInv, Effects, Cleaning, ToolKept, GivenKept
<1>6. Answers(c)' BY <1>1, <1>2 DEF CallInv, Answers, Cleaning, ToolKept, GivenKept
<1> QED BY <1>2, <1>3, <1>4, <1>5, <1>6, CallFrame DEF CallInv

LEMMA StopsKeeps ==
  ASSUME ToolInv, NEW c \in ToolCalls, Terminates(c) \/ Kills(c) \/ Reaps(c)
  PROVE  ToolInv'
<1>1. CallInv(c) BY CallFacts
<1>2. /\ CallOnly(c) /\ ToolKept(c) /\ tool'[c].done = tool[c].done /\ tool[c].pc \in Cleaning
      /\ cli'[c].helper \in {cli[c].helper, FALSE} /\ cli'[c].escaped = cli[c].escaped
      /\ cli'[c].native = cli[c].native /\ cli'[c].crashed = cli[c].crashed /\ cli'[c].sent = cli[c].sent
      /\ cli'[c].out = cli[c].out
      /\ \/ /\ tool[c].pc = "term" /\ tool'[c].pc = "grace"
            /\ \/ cli[c].leader # "runs" /\ cli'[c].leader = cli[c].leader
               \/ cli[c].leader = "runs" /\ cli[c].native = "runs" /\ cli'[c].leader = "stopping"
               \/ cli[c].leader = "runs" /\ cli[c].native # "runs" /\ cli'[c].leader = "ended"
         \/ /\ tool[c].pc = "grace" /\ tool'[c].pc = "reap" /\ GraceOver(c) /\ cli'[c].leader = "ended" /\ ~cli'[c].helper
         \/ /\ tool[c].pc = "reap" /\ tool'[c].pc = "settle" /\ cli'[c].leader = "reaped" /\ cli'[c].helper = cli[c].helper
  <2>1. CASE Terminates(c)
    <3>1. tool[c].pc = "term" /\ tool' = [tool EXCEPT ![c].pc = "grace"] BY <2>1 DEF Terminates
    <3>2. PICK h \in {cli[c].helper, FALSE} :
            cli' = [cli EXCEPT ![c].helper = h,
                     ![c].leader = IF @ # "runs" THEN @ ELSE IF cli[c].native = "runs" THEN "stopping" ELSE "ended"]
      BY <2>1 DEF Terminates
    <3>3. DOMAIN tool' = ToolCalls /\ DOMAIN tool'[c] = CallFields /\ ToolKept(c) /\ tool'[c].pc = "grace"
          /\ tool'[c].done = tool[c].done /\ \A d \in ToolCalls : d # c => tool'[d] = tool[d]
      BY <3>1, CallFacts DEF CallFields, ToolKept, GivenKept
    <3>4. DOMAIN cli' = ToolCalls /\ DOMAIN cli'[c] = CliFields /\ cli'[c].helper = h
          /\ cli'[c].escaped = cli[c].escaped /\ cli'[c].native = cli[c].native /\ cli'[c].crashed = cli[c].crashed
          /\ cli'[c].sent = cli[c].sent /\ cli'[c].out = cli[c].out /\ \A d \in ToolCalls : d # c => cli'[d] = cli[d]
      BY <3>2, CallFacts DEF CliFields
    <3>5. cli'[c].leader = IF cli[c].leader # "runs" THEN cli[c].leader
                           ELSE IF cli[c].native = "runs" THEN "stopping" ELSE "ended"
      BY <3>2, CallFacts DEF CliFields
    <3> QED BY <3>1, <3>3, <3>4, <3>5 DEF CallOnly, Cleaning
  <2>2. CASE Kills(c)
    BY <2>2, CallFacts DEF Kills, CallOnly, CallFields, CliFields, ToolKept, GivenKept, Cleaning
  <2>3. CASE Reaps(c)
    BY <2>3, CallFacts DEF Reaps, CallOnly, CallFields, CliFields, ToolKept, GivenKept, Cleaning
  <2> QED BY <2>1, <2>2, <2>3
<1>3. CallFits(c)' BY <1>1, <1>2 DEF CallInv, CallFits, CallOnly, Cleaning, ToolKept, GivenKept
<1>4. Processes(c)' BY <1>1, <1>2 DEF CallInv, CallFits, Processes, GraceOver, Cleaning, ToolKept, GivenKept
<1>5. Effects(c)' BY <1>1, <1>2 DEF CallInv, Effects, Processes, Cleaning, ToolKept, GivenKept
<1>6. Answers(c)' BY <1>1, <1>2 DEF CallInv, Answers, Cleaning, ToolKept, GivenKept
<1> QED BY <1>2, <1>3, <1>4, <1>5, <1>6, CallFrame DEF CallInv

(* What a call may answer.                                                 *)
LEMMA AnswerFits ==
  ASSUME ToolInv, NEW c \in ToolCalls
  PROVE  /\ ToolAnswer(c) = "posted" => cli[c].sent # ""
         /\ ToolAnswer(c) \in {"refused", "ok"} => cli[c].sent = ""
         /\ ToolAnswer(c) # "rejected"
<1>1. CallInv(c) BY CallFacts
<1>2. Decoded(c) \in {"unknown", "invalid", cli[c].out} BY DEF Decoded
<1> QED BY <1>1, <1>2 DEF ToolAnswer, SendAnswer, CheckAnswer, DiagnoseAnswer, CallInv, Effects

LEMMA ConcludesKeeps == ASSUME ToolInv, NEW c \in ToolCalls, Concludes(c) PROVE ToolInv'
<1> DEFINE parts == tool[c].parts \cup {ToolAnswer(c)}
           next == {a \in tool[c].todo : a # CHOOSE b \in tool[c].todo : TRUE}
<1>1. CallInv(c) /\ tool[c].pc = "settle" /\ cli' = cli BY CallFacts DEF Concludes
<1>2. tool' = [tool EXCEPT ![c] =
          IF tool[c].cancelled THEN [@ EXCEPT !.pc = "over", !.told = "cancelled"]
          ELSE IF next # {} THEN [@ EXCEPT !.pc = "planned", !.todo = next, !.parts = parts]
          ELSE [@ EXCEPT !.pc = "over", !.told = Combined(parts)]]
  BY DEF Concludes
<1>3. tool[c].op \in CallSent => next = {} /\ parts = {ToolAnswer(c)} BY <1>1 DEF CallInv, Answers
<1>4. "posted" \notin parts \/ (parts = {"posted"} /\ tool[c].op \in CallSent)
  <2>1. CASE tool[c].op \in CallSent BY <1>3, <2>1
  <2>2. CASE tool[c].op \notin CallSent
    <3>1. cli[c].sent = "" BY <1>1, <2>2 DEF CallInv, Effects
    <3> QED BY <1>1, <3>1, AnswerFits DEF CallInv, Answers
  <2> QED BY <2>1, <2>2
<1>5. Combined(parts) \in parts \cup {"ok", "partly"} /\ (Combined(parts) = "ok" => parts = {"ok"} \/ "ok" \in parts)
  <2>1. (CHOOSE p \in parts : TRUE) \in parts OBVIOUS
  <2> HIDE DEF parts
  <2> QED BY <2>1 DEF Combined
<1>6. /\ Combined(parts) = "posted" => cli[c].sent # ""
      /\ Combined(parts) \in {"rejected", "refused", "ok"} => cli[c].sent = ""
  <2>1. CASE tool[c].op \in CallSent
    <3>1. parts = {ToolAnswer(c)} BY <1>3, <2>1
    <3>2. Combined(parts) \in {ToolAnswer(c), "partly"} BY <1>5, <3>1
    <3> QED BY <3>2, AnswerFits
  <2>2. CASE tool[c].op \notin CallSent
    <3>1. cli[c].sent = "" BY <1>1, <2>2 DEF CallInv, Effects
    <3> QED BY <1>4, <1>5, <2>2, <3>1
  <2> QED BY <2>1, <2>2
<1> HIDE DEF parts, next
<1>7. /\ CallOnly(c) /\ GivenKept(c) /\ tool'[c].done = tool[c].done
      /\ \/ /\ tool'[c].pc = "over" /\ tool'[c].told \in {"cancelled", Combined(parts)}
            /\ tool'[c].todo = tool[c].todo /\ tool'[c].parts = tool[c].parts
         \/ /\ tool'[c].pc = "planned" /\ tool'[c].told = tool[c].told /\ next # {}
            /\ tool'[c].todo = next /\ tool'[c].parts = parts
  <2>1. CASE tool[c].cancelled
    <3>1. tool' = [tool EXCEPT ![c] = [@ EXCEPT !.pc = "over", !.told = "cancelled"]] BY <1>2, <2>1
    <3> QED BY <1>1, <3>1, CallFacts DEF CallOnly, CallFields, GivenKept
  <2>2. CASE ~tool[c].cancelled /\ next # {}
    <3>1. tool' = [tool EXCEPT ![c] = [@ EXCEPT !.pc = "planned", !.todo = next, !.parts = parts]] BY <1>2, <2>2
    <3> QED BY <1>1, <2>2, <3>1, CallFacts DEF CallOnly, CallFields, GivenKept
  <2>3. CASE ~tool[c].cancelled /\ next = {}
    <3>1. tool' = [tool EXCEPT ![c] = [@ EXCEPT !.pc = "over", !.told = Combined(parts)]] BY <1>2, <2>3
    <3> QED BY <1>1, <3>1, CallFacts DEF CallOnly, CallFields, GivenKept
  <2> QED BY <2>1, <2>2, <2>3
<1>8. CallFits(c)' BY <1>1, <1>7 DEF CallInv, CallFits, CallOnly, GivenKept
<1>9. Processes(c)' BY <1>1, <1>7 DEF CallInv, Processes, Cleaning, GivenKept
<1>10. Effects(c)'
  <2>1. tool[c].route # "" \/ tool[c].named BY <1>1 DEF CallInv, Effects, Answers
  <2> QED BY <1>1, <1>7, <2>1 DEF CallInv, Effects, GivenKept
<1>11. Answers(c)' BY <1>1, <1>3, <1>4, <1>6, <1>7 DEF CallInv, Answers, GivenKept
<1> QED BY <1>7, <1>8, <1>9, <1>10, <1>11, CallFrame DEF CallInv

LEMMA RunsOutKeeps == ASSUME ToolInv, NEW c \in ToolCalls, RunsOut(c) PROVE ToolInv'
<1> DEFINE parts == tool[c].parts \cup {"unknown"}
<1>1. CallInv(c) /\ tool[c].pc = "planned" /\ cli' = cli BY CallFacts DEF RunsOut
<1>2. "posted" \notin parts /\ (tool[c].op \in CallSent => parts = {"unknown"}) BY <1>1 DEF CallInv, Answers
<1>3. Combined(parts) \in parts \cup {"ok", "partly"} /\ (parts = {"unknown"} => Combined(parts) \in {"unknown", "partly"})
  <2>1. (CHOOSE p \in parts : TRUE) \in parts OBVIOUS
  <2> HIDE DEF parts
  <2> QED BY <2>1 DEF Combined
<1>4. /\ CallOnly(c) /\ GivenKept(c) /\ tool'[c].done = tool[c].done /\ tool'[c].pc = "over"
      /\ tool'[c].told = Combined(parts) /\ tool'[c].todo = tool[c].todo /\ tool'[c].parts = tool[c].parts
  <2>1. tool' = [tool EXCEPT ![c].pc = "over", ![c].told = Combined(parts)] BY DEF RunsOut
  <2> HIDE DEF parts
  <2> QED BY <1>1, <2>1, CallFacts DEF CallOnly, CallFields, GivenKept
<1> HIDE DEF parts
<1>5. CallFits(c)' BY <1>1, <1>4 DEF CallInv, CallFits, CallOnly, GivenKept
<1>6. Processes(c)' BY <1>1, <1>4 DEF CallInv, Processes, Cleaning, GivenKept
<1>7. tool[c].route # "" \/ tool[c].named BY <1>1 DEF CallInv, Effects, Answers
<1>8. Effects(c)' BY <1>1, <1>4, <1>7 DEF CallInv, Effects, GivenKept
<1>9. tool[c].op \notin CallSent => cli[c].sent = "" BY <1>1 DEF CallInv, Effects
<1>10. Answers(c)' BY <1>1, <1>2, <1>3, <1>4, <1>9 DEF CallInv, Answers, GivenKept
<1> QED BY <1>4, <1>5, <1>6, <1>8, <1>10, CallFrame DEF CallInv

LEMMA ToolInvStep == ASSUME ToolInv, [ToolNext]_toolVars PROVE ToolInv'
<1>1. CASE \E r \in Routes \cup {"", "broken"} : EditsPreset(r)
  <2>1. tool' = tool /\ cli' = cli BY <1>1 DEF EditsPreset
  <2> QED BY <2>1, ToolStutter
<1>2. CASE \E c \in ToolCalls : \E op \in Ops, named \in BOOLEAN, given \in Routes \cup {""} : Begins(c, op, named, given)
  BY <1>2, BeginsKeeps
<1>3. CASE \E c \in ToolCalls : ToolStep(c)
  BY <1>3, SpawnsKeeps, ReadsKeeps, StopsKeeps, ConcludesKeeps, RunsOutKeeps DEF ToolStep
<1>4. CASE \E c \in ToolCalls : CliSteps(c) BY <1>4, CliStepsKeeps
<1>5. CASE UNCHANGED toolVars
  <2>1. tool' = tool /\ cli' = cli BY <1>5 DEF toolVars
  <2> QED BY <2>1, ToolStutter
<1> QED BY <1>1, <1>2, <1>3, <1>4, <1>5 DEF ToolNext

THEOREM ToolInvariance == ToolSpec => []ToolInv
<1>1. ToolInit => ToolInv BY ToolInitially
<1>2. ToolInv /\ [ToolNext]_toolVars => ToolInv' BY ToolInvStep
<1> QED BY <1>1, <1>2, PTL DEF ToolSpec

LEMMA ToolInvSafe == ASSUME ToolInv PROVE ToolsSafe
<1>1. LeavesNothing BY DEF ToolInv, CallInv, Processes, LeavesNothing
<1>2. AnswerHolds BY DEF ToolInv, CallInv, Answers, AnswerHolds
<1>3. RouteKept
  <2>1. SUFFICES ASSUME NEW c \in ToolCalls, cli[c].sent # ""
                 PROVE  IF tool[c].named THEN cli[c].sent = tool[c].given /\ tool[c].given \in Matching
                        ELSE cli[c].sent = "policy"
    BY DEF RouteKept
  <2>2. Effects(c) /\ Processes(c) BY DEF ToolInv, CallInv
  <2>3. tool[c].pc # "new" BY <2>1, <2>2, NoneFacts DEF Processes
  <2> QED BY <2>1, <2>2, <2>3 DEF Effects
<1> QED BY <1>1, <1>2, <1>3 DEF ToolsSafe

(* However often calls are cancelled, run late, crash or are cut off: the  *)
(* process group of an invocation is gone when the call is over, what is   *)
(* told of a submission is so, and a message by preset keeps to the route  *)
(* that was confirmed (session_peer_mcp.py, invoke_posix, decode and       *)
(* resolve_preset).                                                        *)
THEOREM ToolsKept == ToolSpec => []ToolsSafe
<1>1. ToolInv => ToolsSafe BY ToolInvSafe
<1> QED BY <1>1, ToolInvariance, PTL

-----------------------------------------------------------------------------
(* A message to a Claude session.                                          *)

InboxOwner(o) == o = [pid |-> o.pid, birth |-> o.birth] /\ o.pid \in Pids /\ o.birth \in 1 .. births
Lives == births \in Nat /\ DOMAIN life = Pids /\ \A p \in Pids : life[p] \in 0 .. births
Inboxes ==
  /\ DOMAIN inbox = Sockets
  /\ \A s \in Sockets : inbox[s] = Unbound \/ (inbox[s].node \in 1 .. MaxNodes /\ InboxOwner(inbox[s].owner))
NodesApart ==
  \A s, t \in Sockets : s # t /\ inbox[s].node # 0 => inbox[s].node # inbox[t].node
NodesFresh == ~reused => \A s \in Sockets : inbox[s].node # 0 => inbox[s].node \notin freed
EntriesKept ==
  /\ DOMAIN listed = (1 .. Profiles) \X Pids
  /\ \A f \in (1 .. Profiles) \X Pids :
       listed[f] = NoEntry \/ (listed[f].path \in Sockets /\ listed[f].started \in 1 .. births)
MachineInv == Lives /\ Inboxes /\ NodesApart /\ NodesFresh /\ EntriesKept

(* As long as no number of a file came back, a socket seen once is its     *)
(* owner's wherever it is seen again.                                      *)
RowKnown(r) ==
  /\ r.pid \in Pids /\ r.path \in Sockets /\ r.node \in Nat
  /\ ~reused /\ r.node # 0 =>
       /\ \A s \in Sockets : inbox[s].node = r.node => inbox[s].owner = r.owner
       /\ r.node \in freed \/ \E s \in Sockets : inbox[s].node = r.node

SenderFields == {"pc", "where", "want", "pin", "calm", "dir", "swap", "files", "rows", "broken", "row", "birth",
                 "conn", "wrote", "told"}
SenderTyped ==
  /\ DOMAIN sender = SenderFields
  /\ sender.pc \in {"idle", "birth of row", "rest of row", "scan", "entry", "look", "post", "connect", "connected",
                    "birth", "verify", "write", "done", "dead"}
RowsRead == \A r \in sender.rows : RowKnown(r)
Scanning ==
  /\ sender.pc \in {"scan", "entry", "look"} => sender.dir \in Nat \ {0}
  /\ sender.pc \in {"entry", "look"} => sender.dir <= Profiles /\ sender.files \subseteq Pids
  /\ sender.pc = "look" =>
       sender.row.pid \in Pids /\ sender.row.path \in Sockets /\ DOMAIN sender.row = DOMAIN NoRow
ClaudePosting == {"post", "connect", "connected", "birth", "verify", "write"}
Chosen == sender.pc \in ClaudePosting => RowKnown(sender.row) /\ sender.row.node # 0
PathSame ==
  sender.pc = "connect" /\ ~reused =>
    inbox[sender.row.path].node = sender.row.node \/ sender.row.node \in freed
ReaderKnown ==
  /\ sender.pc \in {"connected", "birth", "verify", "write"} => InboxOwner(sender.conn)
  /\ sender.pc = "connected" /\ ~reused => sender.conn = sender.row.owner \/ sender.row.node \in freed
  /\ sender.pc \in {"birth", "verify", "write"} /\ ~reused => sender.conn = sender.row.owner
PinHeld ==
  /\ sender.pc \in {"birth", "verify"} => sender.pin # NoPin /\ sender.conn.pid = sender.row.pid
  /\ sender.pc = "verify" => (Alive(sender.conn) => sender.birth = sender.conn.birth)
  /\ sender.pc = "write" /\ sender.pin # NoPin =>
       (Alive(sender.conn) => sender.conn.pid = sender.pin.pid /\ sender.conn.birth = sender.pin.birth)

(* Where no session came since the command began.                          *)
IsOf(r, s, o) == r.pid = o.pid /\ r.path = s /\ r.started = o.birth /\ r.alive
WillRead(d, s, o) ==
  \/ d > sender.dir
  \/ d = sender.dir /\ sender.pc = "scan"
  \/ d = sender.dir /\ sender.pc \in {"entry", "look"} /\ o.pid \in sender.files
  \/ d = sender.dir /\ sender.pc = "look" /\ IsOf(sender.row, s, o)
  \/ \E r \in sender.rows : IsOf(r, s, o)
CalmScan ==
  sender.calm /\ sender.pc \in {"scan", "entry", "look"} /\ ~sender.broken =>
    \A s \in Sockets : Alive(inbox[s].owner) =>
      \E d \in 1 .. Profiles :
        /\ listed[<<d, inbox[s].owner.pid>>].path = s /\ listed[<<d, inbox[s].owner.pid>>].started = inbox[s].owner.birth
        /\ WillRead(d, s, inbox[s].owner)
CalmChosen ==
  sender.calm /\ sender.pc \in {"post", "connect"} =>
    (Alive(inbox[sender.row.path].owner) =>
       /\ inbox[sender.row.path].owner.pid = sender.row.pid
       /\ inbox[sender.row.path].owner.birth = sender.row.started)
CalmRead ==
  sender.calm /\ sender.pc \in {"connected", "birth", "verify", "write"} =>
    sender.conn.pid = sender.row.pid /\ sender.conn.birth = sender.row.started

CallerTold ==
  /\ sender.pc # "done" => sender.wrote = NoProcess /\ caller \in {"", "unknown"}
  /\ sender.pc = "done" =>
       /\ caller \in {"", "unknown", sender.told} \/ (caller = "transport" /\ sender.wrote = NoProcess)
       /\ sender.told = "posted" => sender.wrote # NoProcess
       /\ sender.told \in {"refused", "error", "unreachable"} => sender.wrote = NoProcess
       /\ sender.told \in {"", "refused", "error", "unreachable", "posted", "failed"}
WroteRight == PinnedReachesItsProcess /\ InboxAsSelected /\ StaleFilesHarmless
ClaudeInv ==
  /\ MachineInv /\ SenderTyped /\ RowsRead /\ Scanning /\ Chosen /\ PathSame /\ ReaderKnown /\ PinHeld
  /\ CalmScan /\ CalmChosen /\ CalmRead /\ CallerTold /\ WroteRight

-----------------------------------------------------------------------------
(* The machine.                                                            *)

(* What the machine's steps leave of what a sender has seen.               *)
MachineFrame ==
  /\ \A o : InboxOwner(o) => InboxOwner(o)' /\ (Alive(o)' => Alive(o))
  /\ reused => reused'
  /\ \A r : RowKnown(r) => RowKnown(r)'
  /\ \A s \in Sockets, n \in Nat \ {0} : inbox[s].node = n \/ n \in freed => inbox'[s].node = n \/ n \in freed'
  /\ freed \subseteq freed'
  /\ caller' = caller
MachineCalm ==
  /\ \A s \in Sockets : inbox'[s] = inbox[s] \/ inbox'[s] = Unbound
  /\ \A d \in 1 .. Profiles : \A o : InboxOwner(o) /\ Alive(o)' /\ listed[<<d, o.pid>>].started = o.birth =>
       listed'[<<d, o.pid>>] = listed[<<d, o.pid>>]

LEMMA Least ==
  ASSUME NEW T, T \subseteq Nat, T # {}
  PROVE  \E x \in T : \A y \in T : x <= y
<1> DEFINE R == {ss \in Nat \X Nat : ss[1] < ss[2]}
<1>1. R = OpToRel(<, Nat) BY DEF OpToRel
<1>2. IsWellFoundedOn(R, Nat) BY <1>1, NatLessThanWellFounded
<1>3. ASSUME NEW x \in Nat, NEW y \in Nat, y < x PROVE <<y, x>> \in R
  <2>1. PICK p : p = <<y, x>> OBVIOUS
  <2>2. p \in Nat \X Nat BY <2>1
  <2>3. p[1] = y /\ p[2] = x BY <2>1
  <2>4. p[1] < p[2] BY <1>3, <2>3
  <2>5. p \in R BY <2>2, <2>4
  <2> QED BY <2>1, <2>5
<1> HIDE DEF R
<1>4. PICK x \in T : \A y \in T : ~(<<y, x>> \in R) BY <1>2, WFMin
<1>5. \A y \in T : ~(y < x) BY <1>3, <1>4
<1> QED BY <1>5

LEMMA NothingBound ==
  /\ Unbound.node = 0 /\ Unbound.owner = NoProcess /\ ~Alive(NoProcess)
  /\ \A o : InboxOwner(o) => o # NoProcess
<1>1. Unbound.node = 0 /\ Unbound.owner = NoProcess BY DEF Unbound
<1>2. ~Alive(NoProcess) BY DEF Alive
<1>3. ASSUME NEW o, InboxOwner(o) PROVE o # NoProcess
  <2>1. o.pid \in Nat \ {0} BY <1>3, ClaudeAssumption DEF InboxOwner
  <2>2. NoProcess.pid = 0 BY DEF NoProcess
  <2> QED BY <2>1, <2>2
<1> QED BY <1>1, <1>2, <1>3

LEMMA BoundNodes ==
  ASSUME Inboxes, NEW s \in Sockets
  PROVE  inbox[s].node \in Nat /\ (inbox[s].node # 0 => InboxOwner(inbox[s].owner))
<1>1. MaxNodes \in Nat BY ClaudeAssumption
<1> QED BY <1>1, NothingBound DEF Inboxes

LEMMA ProcessBeginsKeeps ==
  ASSUME MachineInv, NEW p \in Pids, ProcessBegins(p)
  PROVE  MachineInv' /\ MachineFrame /\ sender' = [sender EXCEPT !.calm = FALSE]
<1> USE DEF MachineInv
<1>1. /\ life[p] = 0 /\ life' = [life EXCEPT ![p] = births + 1] /\ births' = births + 1
      /\ listed' = listed /\ inbox' = inbox /\ freed' = freed /\ reused' = reused /\ caller' = caller
      /\ sender' = [sender EXCEPT !.calm = FALSE]
  BY DEF ProcessBegins, Disturbed
<1>2. births \in Nat /\ DOMAIN life = Pids /\ \A q \in Pids : life[q] \in 0 .. births BY DEF Lives
<1>3. Lives'
  <2>1. \A q \in Pids : life'[q] \in 0 .. births + 1 BY <1>1, <1>2
  <2> QED BY <1>1, <1>2, <2>1 DEF Lives
<1>4. \A o : InboxOwner(o) => InboxOwner(o)' /\ (Alive(o)' => Alive(o))
  <2> SUFFICES ASSUME NEW o, InboxOwner(o) PROVE InboxOwner(o)' /\ (Alive(o)' => Alive(o)) OBVIOUS
  <2>1. o.pid \in Pids /\ o.birth \in 1 .. births /\ o = [pid |-> o.pid, birth |-> o.birth] BY DEF InboxOwner
  <2>2. o.birth \in 1 .. births' BY <1>1, <1>2, <2>1
  <2>3. life'[o.pid] = o.birth => life[o.pid] = o.birth BY <1>1, <1>2, <2>1
  <2> QED BY <2>1, <2>2, <2>3 DEF InboxOwner, Alive
<1>5. Inboxes' BY <1>1, <1>4 DEF Inboxes
<1>6. NodesApart' /\ NodesFresh' BY <1>1 DEF NodesApart, NodesFresh
<1>7. EntriesKept'
  <2>1. \A b \in 1 .. births : b \in 1 .. births + 1 BY <1>2
  <2> QED BY <1>1, <2>1 DEF EntriesKept
<1>8. MachineFrame BY <1>1, <1>4 DEF MachineFrame, RowKnown
<1> QED BY <1>1, <1>3, <1>5, <1>6, <1>7, <1>8

LEMMA OpensKeeps ==
  ASSUME MachineInv, NEW p \in Pids, NEW s \in Sockets, NEW n \in 1 .. MaxNodes, OpensInbox(p, s, n)
  PROVE  MachineInv' /\ MachineFrame /\ sender' = [sender EXCEPT !.calm = FALSE]
<1> USE DEF MachineInv
<1> DEFINE q == [pid |-> p, birth |-> life[p]]
<1>1. /\ life[p] # 0 /\ \A t \in Sockets : inbox[t].node # n
      /\ inbox' = [inbox EXCEPT ![s] = [node |-> n, owner |-> q]]
      /\ freed' = freed \cup ({inbox[s].node} \ {0})
      /\ reused' = (reused \/ n \in freed)
      /\ life' = life /\ births' = births /\ listed' = listed /\ caller' = caller
      /\ sender' = [sender EXCEPT !.calm = FALSE]
  BY DEF OpensInbox, Disturbed, Process
<1>2. births \in Nat /\ life[p] \in 0 .. births /\ MaxNodes \in Nat BY ClaudeAssumption DEF Lives
<1>3. DOMAIN inbox = Sockets BY DEF Inboxes
<1>4. InboxOwner(q) BY <1>1, <1>2 DEF InboxOwner
<1> HIDE DEF q
<1>5. inbox'[s].node = n /\ inbox'[s].owner = q /\ \A t \in Sockets : t # s => inbox'[t] = inbox[t] BY <1>1, <1>3
<1>6. n \in Nat /\ n # 0 BY <1>2
<1>7. \A o : InboxOwner(o)' <=> InboxOwner(o) BY <1>1 DEF InboxOwner
<1>8. Inboxes'
  <2>1. DOMAIN inbox' = Sockets BY <1>1, <1>3
  <2>2. \A t \in Sockets : inbox'[t] = Unbound \/ (inbox'[t].node \in 1 .. MaxNodes /\ InboxOwner(inbox'[t].owner))
    BY <1>4, <1>5 DEF Inboxes
  <2> QED BY <1>7, <2>1, <2>2 DEF Inboxes
<1>9. Lives' BY <1>1 DEF Lives
<1>10. NodesApart'
  <2> SUFFICES ASSUME NEW a \in Sockets, NEW b \in Sockets, a # b, inbox'[a].node # 0
               PROVE  inbox'[a].node # inbox'[b].node
    BY DEF NodesApart
  <2>1. CASE a = s BY <1>1, <1>5, <2>1
  <2>2. CASE b = s BY <1>1, <1>5, <2>2
  <2>3. CASE a # s /\ b # s BY <1>5, <2>3 DEF NodesApart
  <2> QED BY <2>1, <2>2, <2>3
<1>11. NodesFresh'
  <2> SUFFICES ASSUME ~reused', NEW a \in Sockets, inbox'[a].node # 0 PROVE inbox'[a].node \notin freed'
    BY DEF NodesFresh
  <2>1. ~reused /\ n \notin freed BY <1>1
  <2>2. CASE a = s BY <1>1, <1>5, <2>1, <2>2
  <2>3. CASE a # s BY <1>1, <1>5, <2>1, <2>3 DEF NodesFresh, NodesApart
  <2> QED BY <2>2, <2>3
<1>12. EntriesKept' BY <1>1 DEF EntriesKept
<1>13. ASSUME NEW r, RowKnown(r) PROVE RowKnown(r)'
  <2>1. r.pid \in Pids /\ r.path \in Sockets /\ r.node \in Nat BY <1>13 DEF RowKnown
  <2> SUFFICES ASSUME ~reused', r.node # 0
               PROVE  /\ \A t \in Sockets : inbox'[t].node = r.node => inbox'[t].owner = r.owner
                      /\ r.node \in freed' \/ \E t \in Sockets : inbox'[t].node = r.node
    BY <2>1 DEF RowKnown
  <2>2. ~reused /\ n \notin freed BY <1>1
  <2>3. /\ \A t \in Sockets : inbox[t].node = r.node => inbox[t].owner = r.owner
        /\ r.node \in freed \/ \E t \in Sockets : inbox[t].node = r.node
    BY <1>13, <2>2 DEF RowKnown
  <2>4. r.node # n BY <1>1, <2>2, <2>3
  <2>5. \A t \in Sockets : inbox'[t].node = r.node => inbox'[t].owner = r.owner BY <1>5, <2>3, <2>4
  <2>6. r.node \in freed' \/ \E t \in Sockets : inbox'[t].node = r.node BY <1>1, <1>5, <2>3
  <2> QED BY <2>5, <2>6
<1>14. \A t \in Sockets, m \in Nat \ {0} : inbox[t].node = m \/ m \in freed => inbox'[t].node = m \/ m \in freed'
  BY <1>1, <1>5
<1>15. \A o : InboxOwner(o) => InboxOwner(o)' /\ (Alive(o)' => Alive(o))
  BY <1>1, <1>7 DEF Alive
<1>16. MachineFrame BY <1>1, <1>13, <1>14, <1>15 DEF MachineFrame
<1> QED BY <1>1, <1>8, <1>9, <1>10, <1>11, <1>12, <1>16

LEMMA RegistersKeeps ==
  ASSUME MachineInv, NEW p \in Pids, NEW d \in 1 .. Profiles, NEW s \in Sockets, NEW n \in Names, Registers(p, d, s, n)
  PROVE  MachineInv' /\ MachineFrame /\ sender' = [sender EXCEPT !.calm = FALSE]
<1> USE DEF MachineInv
<1> DEFINE e == [started |-> life[p], path |-> s, name |-> n]
<1>1. /\ life[p] # 0 /\ listed' = [listed EXCEPT ![<<d, p>>] = e]
      /\ life' = life /\ births' = births /\ inbox' = inbox /\ freed' = freed /\ reused' = reused /\ caller' = caller
      /\ sender' = [sender EXCEPT !.calm = FALSE]
  BY DEF Registers, Disturbed
<1>2. births \in Nat /\ life[p] \in 0 .. births BY DEF Lives
<1>3. e.path \in Sockets /\ e.started \in 1 .. births BY <1>1, <1>2
<1> HIDE DEF e
<1>4. EntriesKept'
  <2>1. DOMAIN listed = (1 .. Profiles) \X Pids BY DEF EntriesKept
  <2>2. \A f \in (1 .. Profiles) \X Pids : listed'[f] = listed[f] \/ listed'[f] = e BY <1>1, <2>1
  <2>3. DOMAIN listed' = (1 .. Profiles) \X Pids BY <1>1, <2>1
  <2> QED BY <1>1, <1>3, <2>2, <2>3 DEF EntriesKept
<1>5. Lives' /\ Inboxes' /\ NodesApart' /\ NodesFresh'
  BY <1>1 DEF Lives, Inboxes, NodesApart, NodesFresh, InboxOwner
<1>6. MachineFrame BY <1>1 DEF MachineFrame, RowKnown, InboxOwner, Alive
<1> QED BY <1>1, <1>4, <1>5, <1>6

LEMMA SwappedKeeps ==
  ASSUME MachineInv, NEW d \in 1 .. Profiles, ProfileSwapped(d)
  PROVE  MachineInv' /\ MachineFrame /\ sender' = [sender EXCEPT !.calm = FALSE]
<1> USE DEF MachineInv
<1>1. /\ listed' = [f \in DOMAIN listed |-> IF f[1] = d THEN NoEntry ELSE listed[f]]
      /\ life' = life /\ births' = births /\ inbox' = inbox /\ freed' = freed /\ reused' = reused /\ caller' = caller
      /\ sender' = [sender EXCEPT !.calm = FALSE]
  BY DEF ProfileSwapped, Disturbed
<1>2. EntriesKept' BY <1>1 DEF EntriesKept
<1>3. Lives' /\ Inboxes' /\ NodesApart' /\ NodesFresh'
  BY <1>1 DEF Lives, Inboxes, NodesApart, NodesFresh, InboxOwner
<1>4. MachineFrame BY <1>1 DEF MachineFrame, RowKnown, InboxOwner, Alive
<1> QED BY <1>1, <1>2, <1>3, <1>4

LEMMA EndsKeeps ==
  ASSUME MachineInv, NEW p \in Pids, NEW orderly \in BOOLEAN, ProcessEnds(p, orderly)
  PROVE  MachineInv' /\ MachineFrame /\ MachineCalm /\ sender' = sender
<1> USE DEF MachineInv
<1> DEFINE q == [pid |-> p, birth |-> life[p]]
<1>1. life[p] # 0 /\ life' = [life EXCEPT ![p] = 0] /\ births' = births /\ reused' = reused /\ sender' = sender
      /\ caller' = caller
  BY DEF ProcessEnds
<1>2. births \in Nat /\ DOMAIN life = Pids /\ \A a \in Pids : life[a] \in 0 .. births BY DEF Lives
<1>3. DOMAIN inbox = Sockets /\ DOMAIN listed = (1 .. Profiles) \X Pids BY DEF Inboxes, EntriesKept
<1>4. \/ /\ inbox' = [s \in Sockets |-> IF inbox[s].owner = q THEN Unbound ELSE inbox[s]]
         /\ freed' = freed \cup {inbox[s].node : s \in {t \in Sockets : inbox[t].owner = q}}
         /\ listed' = [f \in DOMAIN listed |->
                         IF f[2] = p /\ listed[f].started = life[p] THEN NoEntry ELSE listed[f]]
      \/ inbox' = inbox /\ freed' = freed /\ listed' = listed
  BY DEF ProcessEnds, Process
<1>5. InboxOwner(q) BY <1>1, <1>2 DEF InboxOwner
<1>6. q # NoProcess BY <1>5, NothingBound
<1> HIDE DEF q
<1>7. \A s \in Sockets : \/ inbox'[s] = inbox[s]
                         \/ inbox'[s] = Unbound /\ inbox[s].owner = q /\ inbox[s].node \in freed'
  BY <1>4
<1>8. \A m \in freed' : m \in freed \/ \E s \in Sockets : inbox'[s] = Unbound /\ inbox[s].owner = q /\ m = inbox[s].node
  BY <1>4
<1>9. freed \subseteq freed' /\ DOMAIN inbox' = Sockets BY <1>3, <1>4
<1>10. \A f \in (1 .. Profiles) \X Pids : \/ listed'[f] = listed[f]
                                          \/ listed'[f] = NoEntry /\ f[2] = p /\ listed[f].started = life[p]
  BY <1>3, <1>4
<1>11. DOMAIN listed' = (1 .. Profiles) \X Pids BY <1>3, <1>4
<1>12. Lives'
  <2>1. \A a \in Pids : life'[a] \in 0 .. births BY <1>1, <1>2
  <2> QED BY <1>1, <1>2, <2>1 DEF Lives
<1>13. \A o : InboxOwner(o)' <=> InboxOwner(o) BY <1>1 DEF InboxOwner
<1>14. Inboxes' BY <1>7, <1>9, <1>13 DEF Inboxes
<1>15. NodesApart'
  <2>1. Unbound.node = 0 BY NothingBound
  <2> QED BY <1>7, <2>1 DEF NodesApart
<1>16. NodesFresh'
  <2> SUFFICES ASSUME ~reused', NEW a \in Sockets, inbox'[a].node # 0, inbox'[a].node \in freed' PROVE FALSE
    BY DEF NodesFresh
  <2>1. inbox'[a] = inbox[a] BY <1>7, NothingBound
  <2>2. inbox[a].node \notin freed BY <1>1, <2>1 DEF NodesFresh
  <2>3. PICK s \in Sockets : inbox'[s] = Unbound /\ inbox[s].owner = q /\ inbox[a].node = inbox[s].node
    BY <1>8, <2>1, <2>2
  <2>4. s # a BY <2>1, <2>3, NothingBound
  <2> QED BY <2>1, <2>3, <2>4 DEF NodesApart
<1>17. EntriesKept' BY <1>1, <1>10, <1>11 DEF EntriesKept
<1>18. \A o : InboxOwner(o) /\ Alive(o)' => Alive(o) /\ ~(o.pid = p /\ o.birth = life[p])
  <2> SUFFICES ASSUME NEW o, InboxOwner(o), Alive(o)' PROVE Alive(o) /\ ~(o.pid = p /\ o.birth = life[p]) OBVIOUS
  <2>1. o.pid \in Pids /\ o.birth \in 1 .. births /\ o # NoProcess BY NothingBound DEF InboxOwner
  <2>2. life'[o.pid] = o.birth BY DEF Alive
  <2>3. o.birth # 0 BY <1>2, <2>1
  <2>4. o.pid # p BY <1>1, <1>2, <2>2, <2>3
  <2>5. life[o.pid] = o.birth BY <1>1, <1>2, <2>1, <2>2, <2>4
  <2> QED BY <2>1, <2>4, <2>5 DEF Alive
<1>19. ASSUME NEW r, RowKnown(r) PROVE RowKnown(r)'
  <2>1. r.pid \in Pids /\ r.path \in Sockets /\ r.node \in Nat BY <1>19 DEF RowKnown
  <2> SUFFICES ASSUME ~reused', r.node # 0
               PROVE  /\ \A t \in Sockets : inbox'[t].node = r.node => inbox'[t].owner = r.owner
                      /\ r.node \in freed' \/ \E t \in Sockets : inbox'[t].node = r.node
    BY <2>1 DEF RowKnown
  <2>2. ~reused BY <1>1
  <2>3. /\ \A t \in Sockets : inbox[t].node = r.node => inbox[t].owner = r.owner
        /\ r.node \in freed \/ \E t \in Sockets : inbox[t].node = r.node
    BY <1>19, <2>2 DEF RowKnown
  <2>4. \A t \in Sockets : inbox'[t].node = r.node => inbox'[t] = inbox[t] BY <1>7, NothingBound
  <2>5. r.node \in freed' \/ \E t \in Sockets : inbox'[t].node = r.node BY <1>7, <1>9, <2>3
  <2> QED BY <2>3, <2>4, <2>5
<1>20. \A t \in Sockets, m \in Nat \ {0} : inbox[t].node = m \/ m \in freed => inbox'[t].node = m \/ m \in freed'
  BY <1>7, <1>9
<1>21. MachineFrame BY <1>1, <1>9, <1>13, <1>18, <1>19, <1>20 DEF MachineFrame
<1>22. MachineCalm
  <2>1. \A s \in Sockets : inbox'[s] = inbox[s] \/ inbox'[s] = Unbound BY <1>7
  <2>2. ASSUME NEW d \in 1 .. Profiles, NEW o, InboxOwner(o), Alive(o)', listed[<<d, o.pid>>].started = o.birth
        PROVE  listed'[<<d, o.pid>>] = listed[<<d, o.pid>>]
    <3>1. <<d, o.pid>> \in (1 .. Profiles) \X Pids /\ <<d, o.pid>>[2] = o.pid BY <2>2 DEF InboxOwner
    <3>2. ~(o.pid = p /\ o.birth = life[p]) BY <1>18, <2>2
    <3> QED BY <1>10, <2>2, <3>1, <3>2
  <2> QED BY <2>1, <2>2 DEF MachineCalm
<1> QED BY <1>1, <1>12, <1>14, <1>15, <1>16, <1>17, <1>21, <1>22
-----------------------------------------------------------------------------
(* The sender.                                                             *)

(* What its steps do not change of the machine.                            *)
LEMMA MachineStays ==
  ASSUME ClaudeInv, UNCHANGED machineVars
  PROVE  /\ MachineInv'
         /\ \A o : (InboxOwner(o)' <=> InboxOwner(o)) /\ (Alive(o)' <=> Alive(o))
         /\ \A r : RowKnown(r)' <=> RowKnown(r)
<1>1. /\ life' = life /\ births' = births /\ listed' = listed /\ inbox' = inbox /\ freed' = freed
      /\ reused' = reused
  BY DEF machineVars
<1>2. MachineInv BY DEF ClaudeInv
<1>3. MachineInv'
  BY <1>1, <1>2 DEF MachineInv, Lives, Inboxes, NodesApart, NodesFresh, EntriesKept, InboxOwner
<1>4. \A o : (InboxOwner(o)' <=> InboxOwner(o)) /\ (Alive(o)' <=> Alive(o)) BY <1>1 DEF InboxOwner, Alive
<1>5. \A r : RowKnown(r)' <=> RowKnown(r) BY <1>1 DEF RowKnown
<1> QED BY <1>3, <1>4, <1>5

LEMMA LiveOwner ==
  ASSUME Inboxes, NEW s \in Sockets, Alive(inbox[s].owner)
  PROVE  /\ InboxOwner(inbox[s].owner) /\ inbox[s].owner # NoProcess
         /\ inbox[s].owner.birth \in Nat \ {0} /\ inbox[s].owner.pid \in Pids
         /\ life[inbox[s].owner.pid] = inbox[s].owner.birth
<1>1. inbox[s].owner # NoProcess BY DEF Alive
<1>2. InboxOwner(inbox[s].owner) BY <1>1, NothingBound DEF Inboxes
<1>3. life[inbox[s].owner.pid] = inbox[s].owner.birth BY DEF Alive
<1> QED BY <1>1, <1>2, <1>3 DEF InboxOwner

LEMMA UnwrittenRight == ASSUME sender.wrote = NoProcess PROVE WroteRight
BY DEF WroteRight, PinnedReachesItsProcess, InboxAsSelected, StaleFilesHarmless, Wrote

(* The machine does not disturb what the sender holds.                     *)
LEMMA MachineKeepsSender ==
  ASSUME ClaudeInv, MachineInv', MachineFrame,
         sender' = [sender EXCEPT !.calm = FALSE] \/ (sender' = sender /\ MachineCalm)
  PROVE  ClaudeInv'
<1> USE DEF ClaudeInv
<1>1. DOMAIN sender = SenderFields BY DEF SenderTyped
<1>2. /\ DOMAIN sender' = SenderFields /\ sender'.pc = sender.pc /\ sender'.pin = sender.pin
      /\ sender'.dir = sender.dir /\ sender'.files = sender.files /\ sender'.rows = sender.rows
      /\ sender'.broken = sender.broken /\ sender'.row = sender.row /\ sender'.birth = sender.birth
      /\ sender'.conn = sender.conn /\ sender'.wrote = sender.wrote /\ sender'.told = sender.told
  BY <1>1 DEF SenderFields
<1>3. sender'.calm => sender' = sender /\ MachineCalm BY <1>1 DEF SenderFields
<1>4. /\ \A o : InboxOwner(o) => InboxOwner(o)' /\ (Alive(o)' => Alive(o))
      /\ reused => reused'
      /\ \A r : RowKnown(r) => RowKnown(r)'
      /\ freed \subseteq freed' /\ caller' = caller
  BY DEF MachineFrame
<1>5. \A s \in Sockets, n \in Nat \ {0} : inbox[s].node = n \/ n \in freed => inbox'[s].node = n \/ n \in freed'
  BY DEF MachineFrame
<1>6. SenderTyped' BY <1>2 DEF SenderTyped
<1>7. RowsRead' BY <1>2, <1>4 DEF RowsRead
<1>8. Scanning' BY <1>2 DEF Scanning
<1>9. Chosen' BY <1>2, <1>4 DEF Chosen
<1>10. PathSame'
  <2> SUFFICES ASSUME sender.pc = "connect", ~reused'
               PROVE  inbox'[sender.row.path].node = sender.row.node \/ sender.row.node \in freed'
    BY <1>2 DEF PathSame
  <2>1. inbox[sender.row.path].node = sender.row.node \/ sender.row.node \in freed BY <1>4 DEF PathSame
  <2>2. sender.row.path \in Sockets /\ sender.row.node \in Nat \ {0}
    BY DEF Chosen, ClaudePosting, RowKnown
  <2> QED BY <1>5, <2>1, <2>2
<1>11. ReaderKnown' BY <1>2, <1>4 DEF ReaderKnown
<1>12. PinHeld'
  <2>1. sender.pc \in {"verify", "write"} => (Alive(sender.conn)' => Alive(sender.conn))
    BY <1>2, <1>4 DEF ReaderKnown
  <2> QED BY <1>2, <2>1 DEF PinHeld
<1>13. CalmScan'
  <2> SUFFICES ASSUME sender'.calm, sender'.pc \in {"scan", "entry", "look"}, ~sender'.broken,
                      NEW s \in Sockets, Alive(inbox[s].owner)'
               PROVE  \E d \in 1 .. Profiles :
                        /\ listed'[<<d, inbox'[s].owner.pid>>].path = s
                        /\ listed'[<<d, inbox'[s].owner.pid>>].started = inbox'[s].owner.birth
                        /\ WillRead(d, s, inbox[s].owner)'
    BY DEF CalmScan
  <2>1. sender' = sender /\ MachineCalm BY <1>3
  <2>2. inbox'[s] = inbox[s]
    <3>1. inbox'[s].owner # NoProcess BY DEF Alive
    <3> QED BY <2>1, <3>1, NothingBound DEF MachineCalm
  <2>3. PICK o : o = inbox[s].owner OBVIOUS
  <2>4. Alive(o)' BY <2>2, <2>3
  <2>5. InboxOwner(o)
    <3>1. o # NoProcess BY <2>4 DEF Alive
    <3> QED BY <2>3, <3>1, NothingBound DEF MachineInv, Inboxes
  <2>6. Alive(o) BY <1>4, <2>4, <2>5
  <2>7. PICK d \in 1 .. Profiles : /\ listed[<<d, o.pid>>].path = s /\ listed[<<d, o.pid>>].started = o.birth
                                   /\ WillRead(d, s, o)
    BY <2>1, <2>3, <2>6 DEF CalmScan
  <2>8. listed'[<<d, o.pid>>] = listed[<<d, o.pid>>] BY <2>1, <2>4, <2>5, <2>7 DEF MachineCalm
  <2>9. WillRead(d, s, o)' BY <2>1, <2>7 DEF WillRead, IsOf
  <2> QED BY <2>2, <2>3, <2>7, <2>8, <2>9
<1>14. CalmChosen'
  <2> SUFFICES ASSUME sender'.calm, sender'.pc \in {"post", "connect"}, Alive(inbox[sender.row.path].owner)'
               PROVE  /\ inbox'[sender'.row.path].owner.pid = sender'.row.pid
                      /\ inbox'[sender'.row.path].owner.birth = sender'.row.started
    BY DEF CalmChosen
  <2>1. sender' = sender /\ MachineCalm BY <1>3
  <2>2. PICK s : s = sender.row.path OBVIOUS
  <2>3. s \in Sockets BY <2>1, <2>2 DEF Chosen, ClaudePosting, RowKnown
  <2>4. Alive(inbox[s].owner)' BY <2>1, <2>2
  <2>5. inbox'[s] = inbox[s]
    <3>1. inbox'[s].owner # NoProcess BY <2>4 DEF Alive
    <3> QED BY <2>1, <2>3, <3>1, NothingBound DEF MachineCalm
  <2>6. PICK o : o = inbox[s].owner OBVIOUS
  <2>7. Alive(o)' BY <2>4, <2>5, <2>6
  <2>8. InboxOwner(o)
    <3>1. o # NoProcess BY <2>7 DEF Alive
    <3> QED BY <2>3, <2>6, <3>1, NothingBound DEF MachineInv, Inboxes
  <2>9. Alive(o) BY <1>4, <2>7, <2>8
  <2> QED BY <2>1, <2>2, <2>5, <2>6, <2>9 DEF CalmChosen
<1>15. CalmRead' BY <1>2, <1>3 DEF CalmRead
<1>16. CallerTold' BY <1>2, <1>4 DEF CallerTold
<1>17. WroteRight'
  BY <1>2, <1>3, <1>4 DEF WroteRight, PinnedReachesItsProcess, InboxAsSelected, StaleFilesHarmless, Wrote
<1> QED BY <1>6, <1>7, <1>8, <1>9, <1>10, <1>11, <1>12, <1>13, <1>14, <1>15, <1>16, <1>17

(* A sender that is at rest, that scans or that posts: what is left.       *)
LEMMA AtRest ==
  ASSUME ClaudeInv, UNCHANGED machineVars, DOMAIN sender' = SenderFields,
         sender'.pc \in {"idle", "birth of row", "rest of row", "done", "dead"},
         sender'.rows \subseteq sender.rows, CallerTold', WroteRight'
  PROVE  ClaudeInv'
<1> USE DEF ClaudeInv
<1>1. MachineInv' /\ \A r : RowKnown(r)' <=> RowKnown(r) BY MachineStays
<1>2. SenderTyped' BY DEF SenderTyped
<1>3. RowsRead' BY <1>1 DEF RowsRead
<1>4. Scanning' /\ Chosen' /\ PathSame' /\ ReaderKnown' /\ PinHeld'
  BY DEF Scanning, Chosen, ClaudePosting, PathSame, ReaderKnown, PinHeld
<1>5. CalmScan' /\ CalmChosen' /\ CalmRead' BY DEF CalmScan, CalmChosen, CalmRead
<1> QED BY <1>1, <1>2, <1>3, <1>4, <1>5

LEMMA Scans ==
  ASSUME ClaudeInv, UNCHANGED machineVars, DOMAIN sender' = SenderFields,
         sender'.pc \in {"scan", "entry", "look"}, RowsRead', Scanning', CalmScan',
         sender'.wrote = NoProcess, caller' \in {"", "unknown"}
  PROVE  ClaudeInv'
<1> USE DEF ClaudeInv
<1>1. MachineInv' BY MachineStays
<1>2. SenderTyped' BY DEF SenderTyped
<1>3. Chosen' /\ PathSame' /\ ReaderKnown' /\ PinHeld' BY DEF Chosen, ClaudePosting, PathSame, ReaderKnown, PinHeld
<1>4. CalmChosen' /\ CalmRead' BY DEF CalmChosen, CalmRead
<1>5. CallerTold' BY DEF CallerTold
<1>6. WroteRight' BY DEF WroteRight, PinnedReachesItsProcess, InboxAsSelected, StaleFilesHarmless, Wrote
<1> QED BY <1>1, <1>2, <1>3, <1>4, <1>5, <1>6

LEMMA Posts ==
  ASSUME ClaudeInv, UNCHANGED machineVars, DOMAIN sender' = SenderFields, sender'.pc \in ClaudePosting,
         sender'.rows \subseteq sender.rows, RowKnown(sender.row)', sender'.row.node # 0,
         PathSame', ReaderKnown', PinHeld', CalmChosen', CalmRead',
         sender'.wrote = NoProcess, caller' \in {"", "unknown"}
  PROVE  ClaudeInv'
<1> USE DEF ClaudeInv
<1>1. MachineInv' /\ \A r : RowKnown(r)' <=> RowKnown(r) BY MachineStays
<1>2. SenderTyped' BY DEF SenderTyped, ClaudePosting
<1>3. RowsRead' BY <1>1 DEF RowsRead
<1>4. Scanning' /\ CalmScan' BY DEF Scanning, CalmScan, ClaudePosting
<1>5. Chosen' BY DEF Chosen
<1>6. CallerTold' BY DEF CallerTold, ClaudePosting
<1>7. WroteRight' BY DEF WroteRight, PinnedReachesItsProcess, InboxAsSelected, StaleFilesHarmless, Wrote
<1> QED BY <1>1, <1>2, <1>3, <1>4, <1>5, <1>6, <1>7

LEMMA Unwritten ==
  ASSUME ClaudeInv, sender.pc # "done"
  PROVE  /\ DOMAIN sender = SenderFields /\ sender.wrote = NoProcess /\ caller \in {"", "unknown"}
BY DEF ClaudeInv, SenderTyped, CallerTold

LEMMA UnusedFields ==
  /\ DOMAIN Unused = SenderFields /\ Unused.pc = "idle" /\ Unused.rows = {} /\ Unused.wrote = NoProcess
  /\ Unused.told = "" /\ Unused.broken = FALSE
BY DEF Unused, SenderFields

LEMMA ListingKeeps ==
  ASSUME ClaudeInv, ListBirth \/ ListRest \/ \E d \in 1 .. Profiles, p \in Pids : ListRow(d, p)
  PROVE  ClaudeInv'
<1>1. sender.pc # "done" BY DEF ListBirth, ListRest, ListRow
<1>2. DOMAIN sender = SenderFields /\ sender.wrote = NoProcess /\ caller \in {"", "unknown"} BY <1>1, Unwritten
<1>3. UNCHANGED machineVars /\ caller' = caller BY DEF ListBirth, ListRest, ListRow
<1>4. /\ DOMAIN sender' = SenderFields /\ sender'.pc \in {"idle", "birth of row", "rest of row"}
      /\ sender'.rows \in {{}, sender.rows} /\ sender'.wrote = NoProcess
  <2>1. CASE \E d \in 1 .. Profiles, p \in Pids : ListRow(d, p)
    <3>1. PICK d \in 1 .. Profiles, p \in Pids : ListRow(d, p) BY <2>1
    <3>2. \E x : sender' = [sender EXCEPT !.pc = "birth of row", !.row = x] BY <3>1 DEF ListRow
    <3> QED BY <1>2, <3>2 DEF SenderFields
  <2>2. CASE ListBirth
    <3>1. sender' = Unused \/ \E x : sender' = [sender EXCEPT !.pc = "rest of row", !.birth = x] BY <2>2 DEF ListBirth
    <3> QED BY <1>2, <3>1, UnusedFields DEF SenderFields
  <2>3. CASE ListRest
    <3>1. \E x : sender' = [Unused EXCEPT !.pin = x] BY <2>3 DEF ListRest
    <3> QED BY <1>2, <3>1, UnusedFields DEF SenderFields
  <2> QED BY <2>1, <2>2, <2>3
<1>5. CallerTold' BY <1>2, <1>3, <1>4 DEF CallerTold
<1>6. WroteRight' BY <1>4 DEF WroteRight, PinnedReachesItsProcess, InboxAsSelected, StaleFilesHarmless, Wrote
<1> QED BY <1>3, <1>4, <1>5, <1>6, AtRest

(* An answer of the command is known, and nothing was written.             *)
LEMMA ConcludedKeeps ==
  ASSUME ClaudeInv, UNCHANGED machineVars, sender.pc # "done", NEW told \in {"refused", "error", "unreachable"},
         Conclude(told)
  PROVE  ClaudeInv'
<1>1. DOMAIN sender = SenderFields /\ sender.wrote = NoProcess /\ caller \in {"", "unknown"} BY Unwritten
<1>2. sender' = [sender EXCEPT !.pc = "done", !.told = told] /\ caller' \in {told, caller} BY DEF Conclude
<1>3. /\ DOMAIN sender' = SenderFields /\ sender'.pc = "done" /\ sender'.rows = sender.rows
      /\ sender'.wrote = NoProcess /\ sender'.told = told
  BY <1>1, <1>2 DEF SenderFields
<1>4. CallerTold' BY <1>1, <1>2, <1>3 DEF CallerTold
<1>5. WroteRight' BY <1>3 DEF WroteRight, PinnedReachesItsProcess, InboxAsSelected, StaleFilesHarmless, Wrote
<1> QED BY <1>3, <1>4, <1>5, AtRest

LEMMA LaunchFailsKeeps ==
  ASSUME ClaudeInv, NEW want, LaunchFails(want)
  PROVE  ClaudeInv'
<1>1. UNCHANGED machineVars /\ caller' = "transport" BY DEF LaunchFails
<1>2. \E x, y : sender' = [Unused EXCEPT !.pc = "done", !.where = "ssh", !.want = x, !.pin = y] BY DEF LaunchFails
<1>3. /\ DOMAIN sender' = SenderFields /\ sender'.pc = "done" /\ sender'.rows = {}
      /\ sender'.wrote = NoProcess /\ sender'.told = ""
  BY <1>2, UnusedFields DEF SenderFields
<1>4. CallerTold' BY <1>1, <1>3 DEF CallerTold
<1>5. WroteRight' BY <1>3 DEF WroteRight, PinnedReachesItsProcess, InboxAsSelected, StaleFilesHarmless, Wrote
<1> QED BY <1>1, <1>3, <1>4, <1>5, AtRest

LEMMA AnswersKeep ==
  ASSUME ClaudeInv, SenderKilled \/ Answered \/ AnswerLost
  PROVE  ClaudeInv'
<1>1. DOMAIN sender = SenderFields /\ UNCHANGED machineVars
  BY DEF ClaudeInv, SenderTyped, SenderKilled, Answered, AnswerLost
<1>2. CASE SenderKilled
  <2>1. sender.wrote = NoProcess /\ caller \in {"", "unknown"} BY <1>2, Unwritten DEF SenderKilled
  <2>2. sender' = [sender EXCEPT !.pc = "dead"] /\ caller' = caller BY <1>2 DEF SenderKilled
  <2>3. /\ DOMAIN sender' = SenderFields /\ sender'.pc = "dead" /\ sender'.rows = sender.rows
        /\ sender'.wrote = NoProcess
    BY <1>1, <2>1, <2>2 DEF SenderFields
  <2>4. CallerTold' BY <2>1, <2>2, <2>3 DEF CallerTold
  <2>5. WroteRight' BY <2>3 DEF WroteRight, PinnedReachesItsProcess, InboxAsSelected, StaleFilesHarmless, Wrote
  <2> QED BY <1>1, <2>3, <2>4, <2>5, AtRest
<1>3. CASE Answered
  <2>1. sender.pc = "done" /\ caller' = sender.told /\ sender' = sender BY <1>3 DEF Answered
  <2>2. CallerTold' BY <2>1 DEF ClaudeInv, CallerTold
  <2>3. WroteRight' BY <1>1, <2>1
    DEF ClaudeInv, WroteRight, PinnedReachesItsProcess, InboxAsSelected, StaleFilesHarmless, Wrote, machineVars
  <2> QED BY <1>1, <2>1, <2>2, <2>3, AtRest
<1>4. CASE AnswerLost
  <2>1. caller' = "unknown" /\ sender' = sender BY <1>4 DEF AnswerLost
  <2>2. CallerTold' BY <2>1 DEF ClaudeInv, CallerTold
  <2>3. WroteRight' BY <1>1, <2>1
    DEF ClaudeInv, WroteRight, PinnedReachesItsProcess, InboxAsSelected, StaleFilesHarmless, Wrote, machineVars
  <2>4. MachineInv' /\ \A o : (InboxOwner(o)' <=> InboxOwner(o)) /\ (Alive(o)' <=> Alive(o)) BY <1>1, MachineStays
  <2>5. \A r : RowKnown(r)' <=> RowKnown(r) BY <1>1, MachineStays
  <2>6. SenderTyped' /\ RowsRead' /\ Scanning' /\ Chosen'
    BY <2>1, <2>5 DEF ClaudeInv, SenderTyped, RowsRead, Scanning, Chosen
  <2>7. PathSame' /\ ReaderKnown' /\ PinHeld'
    BY <1>1, <2>1, <2>4 DEF ClaudeInv, PathSame, ReaderKnown, PinHeld, machineVars
  <2>8. CalmScan' /\ CalmChosen' /\ CalmRead'
    BY <1>1, <2>1, <2>4 DEF ClaudeInv, CalmScan, CalmChosen, CalmRead, WillRead, machineVars
  <2> QED BY <2>2, <2>3, <2>4, <2>6, <2>7, <2>8 DEF ClaudeInv
<1> QED BY <1>2, <1>3, <1>4

LEMMA BeginKeeps ==
  ASSUME ClaudeInv, NEW where, NEW want, NEW pinned, Begin(where, want, pinned)
  PROVE  ClaudeInv'
<1>1. sender.pc # "done" BY DEF Begin
<1>2. DOMAIN sender = SenderFields /\ sender.wrote = NoProcess /\ caller \in {"", "unknown"} BY <1>1, Unwritten
<1>3. UNCHANGED machineVars /\ caller' = caller BY DEF Begin
<1>4. \E x, y, z : sender' = [Unused EXCEPT !.pc = "scan", !.dir = 1, !.where = x, !.want = y,
                                !.pin = z, !.calm = Settled]
  BY DEF Begin
<1>5. /\ DOMAIN sender' = SenderFields /\ sender'.pc = "scan" /\ sender'.dir = 1 /\ sender'.rows = {}
      /\ sender'.wrote = NoProcess /\ sender'.calm = Settled
  BY <1>4, UnusedFields DEF SenderFields
<1>6. RowsRead' BY <1>5 DEF RowsRead
<1>7. Scanning' BY <1>5 DEF Scanning
<1>8. CalmScan'
  <2>1. ASSUME Settled, NEW s \in Sockets, Alive(inbox[s].owner)
        PROVE  \E d \in 1 .. Profiles :
                 /\ listed[<<d, inbox[s].owner.pid>>].path = s
                 /\ listed[<<d, inbox[s].owner.pid>>].started = inbox[s].owner.birth
                 /\ WillRead(d, s, inbox[s].owner)'
    <3>1. PICK d \in 1 .. Profiles : /\ listed[<<d, inbox[s].owner.pid>>].path = s
                                     /\ listed[<<d, inbox[s].owner.pid>>].started = inbox[s].owner.birth
      BY <2>1 DEF Settled
    <3>2. Profiles \in Nat BY ClaudeAssumption
    <3>3. d > sender'.dir \/ d = sender'.dir BY <1>5, <3>2
    <3>4. WillRead(d, s, inbox[s].owner)' BY <1>5, <3>3 DEF WillRead
    <3> QED BY <3>1, <3>4
  <2>2. \A o : Alive(o)' <=> Alive(o) BY <1>3, MachineStays
  <2>3. inbox' = inbox /\ listed' = listed BY <1>3 DEF machineVars
  <2>4. sender'.calm => Settled BY <1>5
  <2> SUFFICES ASSUME Settled, NEW s \in Sockets, Alive(inbox[s].owner)'
               PROVE  \E d \in 1 .. Profiles :
                        /\ listed'[<<d, inbox'[s].owner.pid>>].path = s
                        /\ listed'[<<d, inbox'[s].owner.pid>>].started = inbox'[s].owner.birth
                        /\ WillRead(d, s, inbox[s].owner)'
    BY <2>4 DEF CalmScan
  <2>5. Alive(inbox[s].owner) BY <2>2, <2>3
  <2> QED BY <2>1, <2>3, <2>5
<1> QED BY <1>2, <1>3, <1>5, <1>6, <1>7, <1>8, Scans

(* The machine stands still while the sender takes a step.                 *)
LEMMA StillScans ==
  ASSUME UNCHANGED machineVars,
         \A s \in Sockets : Alive(inbox[s].owner) /\ sender'.calm /\ ~sender'.broken =>
           \E d \in 1 .. Profiles :
             /\ listed[<<d, inbox[s].owner.pid>>].path = s
             /\ listed[<<d, inbox[s].owner.pid>>].started = inbox[s].owner.birth
             /\ WillRead(d, s, inbox[s].owner)'
  PROVE  CalmScan'
<1>1. inbox' = inbox /\ listed' = listed /\ life' = life BY DEF machineVars
<1>2. \A o : Alive(o)' <=> Alive(o) BY <1>1 DEF Alive
<1> SUFFICES ASSUME sender'.calm, ~sender'.broken, NEW s \in Sockets, Alive(inbox[s].owner)'
             PROVE  \E d \in 1 .. Profiles :
                      /\ listed'[<<d, inbox'[s].owner.pid>>].path = s
                      /\ listed'[<<d, inbox'[s].owner.pid>>].started = inbox'[s].owner.birth
                      /\ WillRead(d, s, inbox[s].owner)'
  BY DEF CalmScan
<1>3. Alive(inbox[s].owner) BY <1>1, <1>2
<1> QED BY <1>1, <1>3

LEMMA ScanProfileKeeps ==
  ASSUME ClaudeInv, ScanProfile
  PROVE  ClaudeInv'
<1>1. sender.pc = "scan" /\ sender.dir <= Profiles /\ UNCHANGED machineVars /\ caller' = caller BY DEF ScanProfile
<1>2. DOMAIN sender = SenderFields /\ sender.wrote = NoProcess /\ caller \in {"", "unknown"} BY <1>1, Unwritten
<1> DEFINE files == {p \in Pids : listed[<<sender.dir, p>>] # NoEntry}
<1>3. sender' = [sender EXCEPT !.pc = "entry", !.swap = swaps[sender.dir], !.files = files] BY DEF ScanProfile
<1>4. /\ DOMAIN sender' = SenderFields /\ sender'.pc = "entry" /\ sender'.dir = sender.dir
      /\ sender'.rows = sender.rows /\ sender'.wrote = NoProcess /\ sender'.calm = sender.calm
      /\ sender'.broken = sender.broken /\ sender'.files = files
  BY <1>2, <1>3 DEF SenderFields
<1>5. RowsRead'
  <2>1. \A r : RowKnown(r)' <=> RowKnown(r) BY <1>1, MachineStays
  <2> QED BY <1>4, <2>1 DEF ClaudeInv, RowsRead
<1>6. Scanning'
  <2>1. sender.dir \in Nat \ {0} BY <1>1 DEF ClaudeInv, Scanning
  <2> QED BY <1>1, <1>4, <2>1 DEF Scanning
<1>7. ASSUME NEW s \in Sockets, Alive(inbox[s].owner), sender'.calm, ~sender'.broken
      PROVE  \E d \in 1 .. Profiles :
               /\ listed[<<d, inbox[s].owner.pid>>].path = s
               /\ listed[<<d, inbox[s].owner.pid>>].started = inbox[s].owner.birth
               /\ WillRead(d, s, inbox[s].owner)'
  <2>1. PICK d \in 1 .. Profiles :
          /\ listed[<<d, inbox[s].owner.pid>>].path = s
          /\ listed[<<d, inbox[s].owner.pid>>].started = inbox[s].owner.birth
          /\ WillRead(d, s, inbox[s].owner)
    BY <1>1, <1>4, <1>7 DEF ClaudeInv, CalmScan
  <2>2. inbox[s].owner.birth \in Nat \ {0} /\ inbox[s].owner.pid \in Pids
    BY <1>7, LiveOwner DEF ClaudeInv, MachineInv
  <2>3. NoEntry.started = 0 BY DEF NoEntry
  <2>4. d = sender.dir => inbox[s].owner.pid \in files BY <2>1, <2>2, <2>3
  <2>5. WillRead(d, s, inbox[s].owner)'
    <3>1. inbox' = inbox BY <1>1 DEF machineVars
    <3> QED BY <1>1, <1>4, <2>1, <2>4, <3>1 DEF WillRead
  <2> QED BY <2>1, <2>5
<1>8. CalmScan' BY <1>1, <1>7, StillScans
<1> QED BY <1>1, <1>2, <1>4, <1>5, <1>6, <1>8, Scans

LEMMA LeastFile ==
  ASSUME NEW T, T \subseteq Pids, T # {}
  PROVE  (CHOOSE q \in T : \A o \in T : q <= o) \in T
<1>1. T \subseteq Nat BY ClaudeAssumption
<1>2. \E q \in T : \A o \in T : q <= o BY <1>1, Least
<1> QED BY <1>2

LEMMA ReadEntryKeeps ==
  ASSUME ClaudeInv, ReadEntry
  PROVE  ClaudeInv'
<1>1. sender.pc = "entry" /\ UNCHANGED machineVars /\ caller' = caller BY DEF ReadEntry
<1>2. DOMAIN sender = SenderFields /\ sender.wrote = NoProcess /\ caller \in {"", "unknown"} BY <1>1, Unwritten
<1>3. sender.dir \in Nat \ {0} /\ sender.dir <= Profiles /\ sender.files \subseteq Pids
  BY <1>1 DEF ClaudeInv, Scanning
<1>4. inbox' = inbox /\ Profiles \in Nat BY <1>1, ClaudeAssumption DEF machineVars
<1>5. \A s \in Sockets : Alive(inbox[s].owner) /\ sender.calm /\ ~sender.broken =>
        \E d \in 1 .. Profiles :
          /\ listed[<<d, inbox[s].owner.pid>>].path = s
          /\ listed[<<d, inbox[s].owner.pid>>].started = inbox[s].owner.birth
          /\ WillRead(d, s, inbox[s].owner)
  BY <1>1 DEF ClaudeInv, CalmScan
<1>6. \A r : RowKnown(r)' <=> RowKnown(r) BY <1>1, MachineStays
<1>7. CASE sender.files = {}
  <2>1. sender' = [sender EXCEPT !.pc = "scan", !.dir = @ + 1] BY <1>7 DEF ReadEntry
  <2>2. /\ DOMAIN sender' = SenderFields /\ sender'.pc = "scan" /\ sender'.dir = sender.dir + 1
        /\ sender'.rows = sender.rows /\ sender'.wrote = NoProcess /\ sender'.calm = sender.calm
        /\ sender'.broken = sender.broken
    BY <1>2, <2>1 DEF SenderFields
  <2>3. RowsRead' BY <1>6, <2>2 DEF ClaudeInv, RowsRead
  <2>4. Scanning' BY <1>3, <2>2 DEF Scanning
  <2>5. ASSUME NEW d \in 1 .. Profiles, NEW s, NEW o, WillRead(d, s, o) PROVE WillRead(d, s, o)'
    <3>1. d > sender.dir => d > sender'.dir \/ d = sender'.dir BY <1>3, <1>4, <2>2
    <3> QED BY <1>1, <1>7, <2>2, <2>5, <3>1 DEF WillRead
  <2>6. CalmScan' BY <1>1, <1>4, <1>5, <2>2, <2>5, StillScans
  <2> QED BY <1>1, <1>2, <2>2, <2>3, <2>4, <2>6, Scans
<1>8. CASE sender.files # {}
  <2> DEFINE p == CHOOSE q \in sender.files : \A o \in sender.files : q <= o
             f == <<sender.dir, p>>
  <2>1. sender' = [sender EXCEPT !.files = @ \ {p},
                !.broken = @ \/ (listed[f] = NoEntry /\ Profiles > 1),
                !.pc = IF listed[f] = NoEntry THEN "entry" ELSE "look",
                !.row = IF listed[f] = NoEntry THEN NoRow ELSE RowOf(sender.dir, p, sender.swap)]
    BY <1>8 DEF ReadEntry
  <2>2. p \in sender.files BY <1>3, <1>8, LeastFile
  <2> HIDE DEF p
  <2>3. /\ DOMAIN sender' = SenderFields /\ sender'.dir = sender.dir
        /\ sender'.rows = sender.rows /\ sender'.wrote = NoProcess /\ sender'.calm = sender.calm
        /\ sender'.files = sender.files \ {p}
        /\ ~sender'.broken => ~sender.broken
        /\ sender'.pc = (IF listed[f] = NoEntry THEN "entry" ELSE "look")
        /\ sender'.row = (IF listed[f] = NoEntry THEN NoRow ELSE RowOf(sender.dir, p, sender.swap))
    BY <1>2, <2>1 DEF SenderFields
  <2>4. RowsRead' BY <1>6, <2>3 DEF ClaudeInv, RowsRead
  <2>5. p \in Pids /\ f \in (1 .. Profiles) \X Pids BY <1>3, <1>4, <2>2
  <2>6. listed[f] # NoEntry =>
          /\ sender'.pc = "look" /\ sender'.row.pid = p /\ sender'.row.path = listed[f].path
          /\ sender'.row.started = listed[f].started /\ sender'.row.alive = (life[p] # 0)
          /\ DOMAIN sender'.row = DOMAIN NoRow
    BY <2>3 DEF RowOf, NoRow
  <2>7. Scanning'
    <3>1. sender'.pc = "look" => listed[f] # NoEntry BY <2>3
    <3>2. listed[f] # NoEntry => listed[f].path \in Sockets BY <2>5 DEF ClaudeInv, MachineInv, EntriesKept
    <3>3. sender'.pc \in {"entry", "look"} BY <2>3
    <3> QED BY <1>3, <2>3, <2>5, <2>6, <3>1, <3>2, <3>3 DEF Scanning
  <2>8. ASSUME NEW s \in Sockets, Alive(inbox[s].owner), sender'.calm, ~sender'.broken
        PROVE  \E d \in 1 .. Profiles :
                 /\ listed[<<d, inbox[s].owner.pid>>].path = s
                 /\ listed[<<d, inbox[s].owner.pid>>].started = inbox[s].owner.birth
                 /\ WillRead(d, s, inbox[s].owner)'
    <3>1. PICK o : o = inbox[s].owner OBVIOUS
    <3>2. PICK d \in 1 .. Profiles : /\ listed[<<d, o.pid>>].path = s /\ listed[<<d, o.pid>>].started = o.birth
                                     /\ WillRead(d, s, o)
      BY <1>5, <2>3, <2>8, <3>1
    <3>3. o.birth \in Nat \ {0} /\ life[o.pid] = o.birth
      BY <2>8, <3>1, LiveOwner DEF ClaudeInv, MachineInv
    <3>4. sender'.pc \in {"entry", "look"} BY <2>3
    <3>5. CASE d = sender.dir /\ o.pid = p
      <4>1. NoEntry.started = 0 BY DEF NoEntry
      <4>2. f = <<d, o.pid>> BY <3>5
      <4>3. listed[f] # NoEntry BY <3>2, <3>3, <4>1, <4>2
      <4>4. IsOf(sender'.row, s, o) /\ sender'.pc = "look" BY <2>6, <3>2, <3>3, <3>5, <4>2, <4>3 DEF IsOf
      <4>5. WillRead(d, s, o)' BY <2>3, <3>5, <4>4 DEF WillRead, IsOf
      <4> QED BY <1>4, <3>1, <3>2, <4>5
    <3>6. CASE ~(d = sender.dir /\ o.pid = p)
      <4>1. WillRead(d, s, o)' BY <1>1, <2>3, <3>2, <3>4, <3>6 DEF WillRead
      <4> QED BY <1>4, <3>1, <3>2, <4>1
    <3> QED BY <3>5, <3>6
  <2>9. CalmScan' BY <1>1, <2>8, StillScans
  <2>10. sender'.pc \in {"scan", "entry", "look"} BY <2>3
  <2> QED BY <1>1, <1>2, <2>3, <2>4, <2>7, <2>9, <2>10, Scans
<1> QED BY <1>7, <1>8

LEMMA LookAtInboxKeeps ==
  ASSUME ClaudeInv, LookAtInbox
  PROVE  ClaudeInv'
<1>1. sender.pc = "look" /\ UNCHANGED machineVars /\ caller' = caller BY DEF LookAtInbox
<1>2. DOMAIN sender = SenderFields /\ sender.wrote = NoProcess /\ caller \in {"", "unknown"} BY <1>1, Unwritten
<1>3. /\ sender.dir \in Nat \ {0} /\ sender.dir <= Profiles /\ sender.files \subseteq Pids
      /\ sender.row.pid \in Pids /\ sender.row.path \in Sockets
  BY <1>1 DEF ClaudeInv, Scanning
<1> DEFINE r == [sender.row EXCEPT !.node = inbox[sender.row.path].node, !.owner = inbox[sender.row.path].owner]
           same == swaps[sender.dir] = sender.swap
<1>4. sender' = [sender EXCEPT !.pc = "entry", !.row = NoRow, !.broken = @ \/ ~same,
                   !.rows = IF same THEN @ \cup {r} ELSE @]
  BY DEF LookAtInbox
<1>5. inbox' = inbox BY <1>1 DEF machineVars
<1> HIDE DEF r, same
<1>6. /\ DOMAIN sender' = SenderFields /\ sender'.pc = "entry" /\ sender'.dir = sender.dir
      /\ sender'.files = sender.files /\ sender'.wrote = NoProcess /\ sender'.calm = sender.calm
      /\ sender'.rows = (IF same THEN sender.rows \cup {r} ELSE sender.rows)
      /\ ~sender'.broken => ~sender.broken /\ same
  BY <1>2, <1>4 DEF SenderFields
<1>7. CASE DOMAIN sender.row = DOMAIN NoRow
  <2>1. /\ r.pid = sender.row.pid /\ r.path = sender.row.path /\ r.started = sender.row.started
        /\ r.alive = sender.row.alive
        /\ r.node = inbox[sender.row.path].node /\ r.owner = inbox[sender.row.path].owner
    BY <1>7 DEF r, NoRow
  <2>2. RowKnown(r)
    <3>1. r.node \in Nat BY <1>3, <2>1, BoundNodes DEF ClaudeInv, MachineInv
    <3>2. \A s \in Sockets : inbox[s].node = r.node /\ r.node # 0 => inbox[s].owner = r.owner
      BY <1>3, <2>1 DEF ClaudeInv, MachineInv, NodesApart
    <3> QED BY <1>3, <2>1, <3>1, <3>2 DEF RowKnown
  <2>3. RowsRead'
    <3>1. \A q : RowKnown(q)' <=> RowKnown(q) BY <1>1, MachineStays
    <3> QED BY <1>6, <2>2, <3>1 DEF ClaudeInv, RowsRead
  <2>4. Scanning' BY <1>3, <1>6 DEF Scanning
  <2>5. ASSUME NEW s \in Sockets, Alive(inbox[s].owner), sender'.calm, ~sender'.broken
        PROVE  \E d \in 1 .. Profiles :
                 /\ listed[<<d, inbox[s].owner.pid>>].path = s
                 /\ listed[<<d, inbox[s].owner.pid>>].started = inbox[s].owner.birth
                 /\ WillRead(d, s, inbox[s].owner)'
    <3>1. PICK o : o = inbox[s].owner OBVIOUS
    <3>2. PICK d \in 1 .. Profiles : /\ listed[<<d, o.pid>>].path = s /\ listed[<<d, o.pid>>].started = o.birth
                                     /\ WillRead(d, s, o)
      BY <1>1, <1>6, <2>5, <3>1 DEF ClaudeInv, CalmScan
    <3>3. r \in sender'.rows /\ sender.rows \subseteq sender'.rows BY <1>6, <2>5
    <3>4. IsOf(sender.row, s, o) => IsOf(r, s, o) BY <2>1 DEF IsOf
    <3>5. WillRead(d, s, o)' BY <1>1, <1>6, <3>2, <3>3, <3>4 DEF WillRead, IsOf
    <3> QED BY <1>5, <3>1, <3>2, <3>5
  <2>6. CalmScan' BY <1>1, <2>5, StillScans
  <2> QED BY <1>1, <1>2, <1>6, <2>3, <2>4, <2>6, Scans
<1>8. DOMAIN sender.row = DOMAIN NoRow BY <1>1 DEF ClaudeInv, Scanning
<1> QED BY <1>7, <1>8

LEMMA ChooseKeeps ==
  ASSUME ClaudeInv, Choose
  PROVE  ClaudeInv'
<1>1. sender.pc = "scan" /\ sender.dir > Profiles /\ UNCHANGED machineVars BY DEF Choose
<1>2. DOMAIN sender = SenderFields /\ sender.wrote = NoProcess /\ caller \in {"", "unknown"} BY <1>1, Unwritten
<1> DEFINE found == Asked(sender.rows, sender.want)
<1>3. CASE sender.broken \/ Conflict(sender.rows) \/ Cardinality(found) # 1
  <2>1. Conclude(NotFound) BY <1>3 DEF Choose
  <2>2. NotFound \in {"refused", "error", "unreachable"} BY DEF NotFound
  <2> QED BY <1>1, <2>1, <2>2, ConcludedKeeps
<1>4. CASE ~(sender.broken \/ Conflict(sender.rows) \/ Cardinality(found) # 1)
  <2>1. PICK r : r = CHOOSE q \in found : TRUE OBVIOUS
  <2>2. sender' = [sender EXCEPT !.pc = "post", !.row = r, !.rows = {}] /\ caller' = caller
    BY <1>4, <2>1 DEF Choose
  <2>3. r \in found
    <3>1. Cardinality({}) = 0 BY FS_EmptySet
    <3>2. found # {} BY <1>4, <3>1
    <3> QED BY <2>1, <3>2
  <2>4. r \in sender.rows /\ r.alive /\ r.node # 0 BY <2>3 DEF Asked, Reachable
  <2>5. /\ DOMAIN sender' = SenderFields /\ sender'.pc = "post" /\ sender'.row = r /\ sender'.rows = {}
        /\ sender'.wrote = NoProcess /\ sender'.calm = sender.calm
    BY <1>2, <2>2 DEF SenderFields
  <2>6. RowKnown(r) BY <2>4 DEF ClaudeInv, RowsRead
  <2>7. RowKnown(r)' BY <1>1, <2>6, MachineStays
  <2>8. RowKnown(sender.row)' BY <2>5, <2>7 DEF RowKnown
  <2>9. PathSame' /\ ReaderKnown' /\ PinHeld' /\ CalmRead' BY <2>5 DEF PathSame, ReaderKnown, PinHeld, CalmRead
  <2>10. CalmChosen'
    <3> SUFFICES ASSUME sender'.calm, Alive(inbox[sender.row.path].owner)'
                 PROVE  /\ inbox'[sender'.row.path].owner.pid = sender'.row.pid
                        /\ inbox'[sender'.row.path].owner.birth = sender'.row.started
      BY DEF CalmChosen
    <3>1. inbox' = inbox /\ life' = life BY <1>1 DEF machineVars
    <3>2. PICK s : s = r.path OBVIOUS
    <3>3. s \in Sockets BY <2>6, <3>2 DEF RowKnown
    <3>4. PICK o : o = inbox[s].owner OBVIOUS
    <3>5. Alive(o) BY <2>5, <3>1, <3>2, <3>4 DEF Alive
    <3>6. PICK d \in 1 .. Profiles : WillRead(d, s, o)
      BY <1>1, <1>4, <2>5, <3>3, <3>4, <3>5 DEF ClaudeInv, CalmScan
    <3>7. sender.dir \in Nat /\ Profiles \in Nat BY <1>1, ClaudeAssumption DEF ClaudeInv, Scanning
    <3>8. ~(d > sender.dir) /\ d # sender.dir BY <1>1, <3>7
    <3>9. PICK q \in sender.rows : IsOf(q, s, o) BY <3>6, <3>8 DEF WillRead
    <3>10. q = r BY <1>4, <2>4, <3>2, <3>9 DEF Conflict, IsOf
    <3> QED BY <2>5, <3>1, <3>2, <3>4, <3>9, <3>10 DEF IsOf
  <2>11. sender'.pc \in ClaudePosting BY <2>5 DEF ClaudePosting
  <2> QED BY <1>1, <1>2, <2>2, <2>4, <2>5, <2>8, <2>9, <2>10, <2>11, Posts
<1> QED BY <1>3, <1>4

(* A step of a posting sender keeps the row it posts to.                   *)
LEMMA PostsOn ==
  ASSUME ClaudeInv, UNCHANGED machineVars, sender.pc \in ClaudePosting,
         NEW pc \in ClaudePosting, NEW x, NEW y,
         sender' = [sender EXCEPT !.pc = pc, !.conn = x, !.birth = y], caller' = caller,
         PathSame', ReaderKnown', PinHeld', CalmChosen', CalmRead'
  PROVE  ClaudeInv'
<1>1. sender.pc # "done" BY DEF ClaudePosting
<1>2. DOMAIN sender = SenderFields /\ sender.wrote = NoProcess /\ caller \in {"", "unknown"} BY <1>1, Unwritten
<1>3. /\ DOMAIN sender' = SenderFields /\ sender'.pc = pc /\ sender'.rows = sender.rows
      /\ sender'.row = sender.row /\ sender'.wrote = NoProcess
  BY <1>2 DEF SenderFields
<1>4. RowKnown(sender.row) /\ sender.row.node # 0 BY DEF ClaudeInv, Chosen
<1>5. PICK r : r = sender.row OBVIOUS
<1>6. RowKnown(r)' BY <1>4, <1>5, MachineStays
<1>7. RowKnown(sender.row)' BY <1>3, <1>5, <1>6 DEF RowKnown
<1> QED BY <1>2, <1>3, <1>4, <1>7, Posts

LEMMA PostingFields ==
  ASSUME ClaudeInv, NEW pc, NEW x, NEW y, sender' = [sender EXCEPT !.pc = pc, !.conn = x, !.birth = y]
  PROVE  /\ sender'.pc = pc /\ sender'.conn = x /\ sender'.birth = y /\ sender'.row = sender.row
         /\ sender'.pin = sender.pin /\ sender'.calm = sender.calm
BY DEF ClaudeInv, SenderTyped, SenderFields

LEMMA SameAsExcept ==
  ASSUME ClaudeInv, NEW pc
  PROVE  [sender EXCEPT !.pc = pc] = [sender EXCEPT !.pc = pc, !.conn = sender.conn, !.birth = sender.birth]
BY DEF ClaudeInv, SenderTyped, SenderFields

LEMMA RequireKeeps ==
  ASSUME ClaudeInv, Require
  PROVE  ClaudeInv'
<1>1. sender.pc = "post" /\ sender.pc \in ClaudePosting /\ UNCHANGED machineVars BY DEF Require, ClaudePosting
<1>2. CASE Conclude("refused") BY <1>1, <1>2, ConcludedKeeps
<1>3. CASE Goes("connect") /\ Revalidates(sender.row)
  <2>1. sender' = [sender EXCEPT !.pc = "connect", !.conn = sender.conn, !.birth = sender.birth] /\ caller' = caller
    BY <1>3, SameAsExcept DEF Goes
  <2>2. /\ sender'.pc = "connect" /\ sender'.row = sender.row /\ sender'.calm = sender.calm
    BY <2>1, PostingFields
  <2>3. inbox' = inbox /\ life' = life BY <1>1 DEF machineVars
  <2>4. PathSame' BY <1>3, <2>2, <2>3 DEF PathSame, Revalidates
  <2>5. ReaderKnown' /\ PinHeld' /\ CalmRead' BY <2>2 DEF ReaderKnown, PinHeld, CalmRead
  <2>6. CalmChosen' BY <1>1, <2>2, <2>3 DEF ClaudeInv, CalmChosen, Alive
  <2>7. "connect" \in ClaudePosting BY DEF ClaudePosting
  <2> QED BY <1>1, <2>1, <2>4, <2>5, <2>6, <2>7, PostsOn
<1> QED BY <1>2, <1>3 DEF Require

LEMMA ConnectInboxKeeps ==
  ASSUME ClaudeInv, ConnectInbox
  PROVE  ClaudeInv'
<1>1. sender.pc = "connect" /\ sender.pc \in ClaudePosting /\ UNCHANGED machineVars
  BY DEF ConnectInbox, ClaudePosting
<1>2. PICK o : o = inbox[sender.row.path].owner OBVIOUS
<1>3. CASE ~Alive(o)
  <2>1. Conclude("unreachable") BY <1>2, <1>3 DEF ConnectInbox
  <2> QED BY <1>1, <2>1, ConcludedKeeps
<1>4. CASE Alive(o)
  <2>1. DOMAIN sender = SenderFields BY DEF ClaudeInv, SenderTyped
  <2>2. sender' = [sender EXCEPT !.pc = "connected", !.conn = o] /\ caller' = caller
    BY <1>2, <1>4 DEF ConnectInbox
  <2>3. sender' = [sender EXCEPT !.pc = "connected", !.conn = o, !.birth = sender.birth] /\ caller' = caller
    BY <2>1, <2>2 DEF SenderFields
  <2>4. /\ sender'.pc = "connected" /\ sender'.row = sender.row /\ sender'.calm = sender.calm
        /\ sender'.conn = o
    BY <2>3, PostingFields
  <2>5. RowKnown(sender.row) /\ sender.row.node # 0 BY <1>1 DEF ClaudeInv, Chosen
  <2>6. sender.row.path \in Sockets BY <2>5 DEF RowKnown
  <2>7. InboxOwner(o) BY <1>2, <1>4, <2>6, LiveOwner DEF ClaudeInv, MachineInv
  <2>8. ~reused => o = sender.row.owner \/ sender.row.node \in freed
    BY <1>1, <1>2, <2>5, <2>6 DEF ClaudeInv, PathSame, RowKnown
  <2>9. ReaderKnown'
    <3>1. freed' = freed /\ reused' = reused /\ births' = births BY <1>1 DEF machineVars
    <3> QED BY <2>4, <2>7, <2>8, <3>1 DEF ReaderKnown, InboxOwner
  <2>10. PathSame' /\ PinHeld' /\ CalmChosen' BY <2>4 DEF PathSame, PinHeld, CalmChosen
  <2>11. CalmRead' BY <1>1, <1>2, <1>4, <2>4 DEF ClaudeInv, CalmChosen, CalmRead
  <2>12. "connected" \in ClaudePosting BY DEF ClaudePosting
  <2> QED BY <1>1, <2>3, <2>9, <2>10, <2>11, <2>12, PostsOn
<1> QED BY <1>3, <1>4

LEMMA RecheckKeeps ==
  ASSUME ClaudeInv, Recheck
  PROVE  ClaudeInv'
<1>1. sender.pc = "connected" /\ sender.pc \in ClaudePosting /\ UNCHANGED machineVars BY DEF Recheck, ClaudePosting
<1>2. CASE Conclude("refused") BY <1>1, <1>2, ConcludedKeeps
<1>3. CASE ~Conclude("refused")
  <2>1. PICK pc : pc = IF sender.pin = NoPin THEN "write" ELSE "birth" OBVIOUS
  <2>2. Goes(pc) /\ Revalidates(sender.row) /\ (sender.pin # NoPin => sender.conn.pid = sender.row.pid)
    BY <1>3, <2>1 DEF Recheck
  <2>3. sender' = [sender EXCEPT !.pc = pc, !.conn = sender.conn, !.birth = sender.birth] /\ caller' = caller
    BY <2>2, SameAsExcept DEF Goes
  <2>4. /\ sender'.pc = pc /\ sender'.row = sender.row /\ sender'.calm = sender.calm
        /\ sender'.conn = sender.conn /\ sender'.pin = sender.pin
    BY <2>3, PostingFields
  <2>5. RowKnown(sender.row) /\ sender.row.node # 0 BY <1>1 DEF ClaudeInv, Chosen
  <2>6. sender.row.path \in Sockets BY <2>5 DEF RowKnown
  <2>7. inbox[sender.row.path].node = sender.row.node BY <2>2 DEF Revalidates
  <2>8. ~reused => sender.row.node \notin freed BY <2>5, <2>6, <2>7 DEF ClaudeInv, MachineInv, NodesFresh
  <2>9. ReaderKnown'
    <3>1. freed' = freed /\ reused' = reused /\ births' = births BY <1>1 DEF machineVars
    <3>2. InboxOwner(sender.conn) /\ (~reused => sender.conn = sender.row.owner \/ sender.row.node \in freed)
      BY <1>1 DEF ClaudeInv, ReaderKnown
    <3> QED BY <2>4, <2>8, <3>1, <3>2 DEF ReaderKnown, InboxOwner
  <2>10. PathSame' /\ CalmChosen' BY <2>1, <2>4 DEF PathSame, CalmChosen
  <2>11. PinHeld' BY <2>1, <2>2, <2>4 DEF PinHeld
  <2>12. CalmRead' BY <1>1, <2>1, <2>4 DEF ClaudeInv, CalmRead
  <2>13. pc \in ClaudePosting BY <2>1 DEF ClaudePosting
  <2> QED BY <1>1, <2>3, <2>9, <2>10, <2>11, <2>12, <2>13, PostsOn
<1> QED BY <1>2, <1>3

LEMMA VerifyBirthKeeps ==
  ASSUME ClaudeInv, VerifyBirth
  PROVE  ClaudeInv'
<1>1. sender.pc = "birth" /\ sender.pc \in ClaudePosting /\ UNCHANGED machineVars
  BY DEF VerifyBirth, ClaudePosting
<1>2. CASE life[sender.row.pid] = 0
  <2>1. Conclude("refused") BY <1>2 DEF VerifyBirth
  <2> QED BY <1>1, <2>1, ConcludedKeeps
<1>3. CASE life[sender.row.pid] # 0
  <2>0. PICK b : b = life[sender.row.pid] OBVIOUS
  <2>1. DOMAIN sender = SenderFields BY DEF ClaudeInv, SenderTyped
  <2>2. sender' = [sender EXCEPT !.pc = "verify", !.birth = b] /\ caller' = caller BY <1>3, <2>0 DEF VerifyBirth
  <2>3. sender' = [sender EXCEPT !.pc = "verify", !.conn = sender.conn, !.birth = b] /\ caller' = caller
    BY <2>1, <2>2 DEF SenderFields
  <2>4. /\ sender'.pc = "verify" /\ sender'.row = sender.row /\ sender'.calm = sender.calm
        /\ sender'.conn = sender.conn /\ sender'.pin = sender.pin /\ sender'.birth = b
    BY <2>3, PostingFields
  <2>5. life' = life /\ reused' = reused /\ births' = births BY <1>1 DEF machineVars
  <2>6. ReaderKnown' BY <1>1, <2>4, <2>5 DEF ClaudeInv, ReaderKnown, InboxOwner
  <2>7. PinHeld'
    <3>1. sender.pin # NoPin /\ sender.conn.pid = sender.row.pid BY <1>1 DEF ClaudeInv, PinHeld
    <3> QED BY <2>0, <2>4, <2>5, <3>1 DEF PinHeld, Alive
  <2>8. PathSame' /\ CalmChosen' BY <2>4 DEF PathSame, CalmChosen
  <2>9. CalmRead' BY <1>1, <2>4 DEF ClaudeInv, CalmRead
  <2>10. "verify" \in ClaudePosting BY DEF ClaudePosting
  <2> QED BY <1>1, <2>3, <2>6, <2>7, <2>8, <2>9, <2>10, PostsOn
<1> QED BY <1>2, <1>3

LEMMA VerifyRestKeeps ==
  ASSUME ClaudeInv, VerifyRest
  PROVE  ClaudeInv'
<1>1. sender.pc = "verify" /\ sender.pc \in ClaudePosting /\ UNCHANGED machineVars
  BY DEF VerifyRest, ClaudePosting
<1>2. CASE Conclude("refused") BY <1>1, <1>2, ConcludedKeeps
<1>3. CASE Goes("write") /\ Generation(sender.row, sender.birth) = sender.pin
  <2>1. sender' = [sender EXCEPT !.pc = "write", !.conn = sender.conn, !.birth = sender.birth] /\ caller' = caller
    BY <1>3, SameAsExcept DEF Goes
  <2>2. /\ sender'.pc = "write" /\ sender'.row = sender.row /\ sender'.calm = sender.calm
        /\ sender'.conn = sender.conn /\ sender'.pin = sender.pin
    BY <2>1, PostingFields
  <2>3. life' = life /\ reused' = reused /\ births' = births BY <1>1 DEF machineVars
  <2>4. ReaderKnown' BY <1>1, <2>2, <2>3 DEF ClaudeInv, ReaderKnown, InboxOwner
  <2>5. PinHeld'
    <3>1. sender.conn.pid = sender.row.pid /\ (Alive(sender.conn) => sender.birth = sender.conn.birth)
      BY <1>1 DEF ClaudeInv, PinHeld
    <3>2. sender.pin.pid = sender.row.pid /\ sender.pin.birth = sender.birth BY <1>3 DEF Generation
    <3> QED BY <2>2, <2>3, <3>1, <3>2 DEF PinHeld, Alive
  <2>6. PathSame' /\ CalmChosen' BY <2>2 DEF PathSame, CalmChosen
  <2>7. CalmRead' BY <1>1, <2>2 DEF ClaudeInv, CalmRead
  <2>8. "write" \in ClaudePosting BY DEF ClaudePosting
  <2> QED BY <1>1, <2>1, <2>4, <2>5, <2>6, <2>7, <2>8, PostsOn
<1> QED BY <1>2, <1>3 DEF VerifyRest

LEMMA WriteKeeps ==
  ASSUME ClaudeInv, NEW told \in {"posted", "failed"}, Write(told)
  PROVE  ClaudeInv'
<1>1. sender.pc = "write" /\ UNCHANGED machineVars /\ (told = "posted" => Alive(sender.conn)) BY DEF Write
<1>2. DOMAIN sender = SenderFields /\ sender.wrote = NoProcess /\ caller \in {"", "unknown"} BY <1>1, Unwritten
<1>3. PICK w : w = IF Alive(sender.conn) THEN sender.conn ELSE NoProcess OBVIOUS
<1>4. sender' = [sender EXCEPT !.pc = "done", !.told = told, !.wrote = w] /\ caller' \in {told, caller}
  BY <1>3 DEF Write
<1>5. /\ DOMAIN sender' = SenderFields /\ sender'.pc = "done" /\ sender'.rows = sender.rows
      /\ sender'.wrote = w /\ sender'.told = told /\ sender'.pin = sender.pin /\ sender'.calm = sender.calm
      /\ sender'.row = sender.row
  BY <1>2, <1>4 DEF SenderFields
<1>6. InboxOwner(sender.conn) /\ sender.conn # NoProcess
  BY <1>1, NothingBound DEF ClaudeInv, ReaderKnown
<1>7. CallerTold' BY <1>1, <1>2, <1>3, <1>4, <1>5, <1>6 DEF CallerTold
<1>8. WroteRight'
  <2>1. reused' = reused BY <1>1 DEF machineVars
  <2>2. w # NoProcess => w = sender.conn /\ Alive(sender.conn) BY <1>3
  <2>3. sender.conn = [pid |-> sender.conn.pid, birth |-> sender.conn.birth] BY <1>6 DEF InboxOwner
  <2>4. PinnedReachesItsProcess'
    <3>1. sender.pin # NoPin /\ Alive(sender.conn) =>
            sender.conn.pid = sender.pin.pid /\ sender.conn.birth = sender.pin.birth
      BY <1>1 DEF ClaudeInv, PinHeld
    <3> QED BY <1>5, <2>2, <2>3, <3>1 DEF PinnedReachesItsProcess, Wrote
  <2>5. InboxAsSelected'
    <3>1. ~reused => sender.conn = sender.row.owner BY <1>1 DEF ClaudeInv, ReaderKnown
    <3> QED BY <1>5, <2>1, <2>2, <3>1 DEF InboxAsSelected, Wrote
  <2>6. StaleFilesHarmless'
    <3>1. sender.calm => sender.conn.pid = sender.row.pid /\ sender.conn.birth = sender.row.started
      BY <1>1 DEF ClaudeInv, CalmRead
    <3> QED BY <1>5, <2>2, <2>3, <3>1 DEF StaleFilesHarmless, Wrote
  <2> QED BY <2>4, <2>5, <2>6 DEF WroteRight
<1> QED BY <1>1, <1>5, <1>7, <1>8, AtRest

LEMMA ClaudeBegins == ASSUME ClaudeInit PROVE ClaudeInv
<1> USE DEF ClaudeInit
<1>1. MachineInv
  <2>1. Lives
    <3>1. births \in Nat /\ DOMAIN life = Pids OBVIOUS
    <3>2. \A p \in Pids : life[p] = 0 /\ births = 0 OBVIOUS
    <3>3. \A p \in Pids : life[p] \in 0 .. births BY ONLY <3>2
    <3> QED BY <3>1, <3>3 DEF Lives
  <2>3. Inboxes BY DEF Inboxes
  <2>4. EntriesKept BY DEF EntriesKept
  <2>2. NodesApart /\ NodesFresh BY NothingBound DEF NodesApart, NodesFresh
  <2> QED BY <2>1, <2>2, <2>3, <2>4 DEF MachineInv
<1>2. sender.pc = "idle" /\ DOMAIN sender = SenderFields /\ sender.rows = {} /\ sender.wrote = NoProcess
  BY UnusedFields
<1>3. SenderTyped /\ RowsRead /\ Scanning /\ Chosen /\ PathSame /\ ReaderKnown /\ PinHeld
  BY <1>2 DEF SenderTyped, RowsRead, Scanning, Chosen, ClaudePosting, PathSame, ReaderKnown, PinHeld
<1>4. CalmScan /\ CalmChosen /\ CalmRead /\ CallerTold
  BY <1>2 DEF CalmScan, CalmChosen, CalmRead, CallerTold
<1>5. WroteRight BY <1>2, UnwrittenRight
<1> QED BY <1>1, <1>3, <1>4, <1>5 DEF ClaudeInv

LEMMA MachineKeeps == ASSUME ClaudeInv, Machine PROVE ClaudeInv'
<1>1. MachineInv BY DEF ClaudeInv
<1>2. CASE \E p \in Pids : ProcessBegins(p)
  <2>1. MachineInv' /\ MachineFrame /\ sender' = [sender EXCEPT !.calm = FALSE] BY <1>1, <1>2, ProcessBeginsKeeps
  <2> QED BY <2>1, MachineKeepsSender
<1>3. CASE \E p \in Pids, o \in BOOLEAN : ProcessEnds(p, o)
  <2>1. MachineInv' /\ MachineFrame /\ MachineCalm /\ sender' = sender BY <1>1, <1>3, EndsKeeps
  <2> QED BY <2>1, MachineKeepsSender
<1>4. CASE \E p \in Pids, s \in Sockets, n \in 1 .. MaxNodes : OpensInbox(p, s, n)
  <2>1. MachineInv' /\ MachineFrame /\ sender' = [sender EXCEPT !.calm = FALSE] BY <1>1, <1>4, OpensKeeps
  <2> QED BY <2>1, MachineKeepsSender
<1>5. CASE \E p \in Pids, d \in 1 .. Profiles, s \in Sockets, n \in Names : Registers(p, d, s, n)
  <2>1. MachineInv' /\ MachineFrame /\ sender' = [sender EXCEPT !.calm = FALSE] BY <1>1, <1>5, RegistersKeeps
  <2> QED BY <2>1, MachineKeepsSender
<1>6. CASE \E d \in 1 .. Profiles : ProfileSwapped(d)
  <2>1. MachineInv' /\ MachineFrame /\ sender' = [sender EXCEPT !.calm = FALSE] BY <1>1, <1>6, SwappedKeeps
  <2> QED BY <2>1, MachineKeepsSender
<1> QED BY <1>2, <1>3, <1>4, <1>5, <1>6 DEF Machine

LEMMA ClaudeStep == ASSUME ClaudeInv, [ClaudeNext]_claudeVars PROVE ClaudeInv'
<1>1. CASE Machine BY <1>1, MachineKeeps
<1>2. CASE Sending
  <2>1. CASE ListBirth \/ ListRest \/ \E d \in 1 .. Profiles, p \in Pids : ListRow(d, p) BY <2>1, ListingKeeps
  <2>2. CASE \E w \in Uses, t \in Wanted, pinned \in BOOLEAN : Begin(w, t, pinned) BY <2>2, BeginKeeps
  <2>3. CASE \E t \in Wanted : LaunchFails(t) BY <2>3, LaunchFailsKeeps
  <2>4. CASE ScanProfile BY <2>4, ScanProfileKeeps
  <2>5. CASE ReadEntry BY <2>5, ReadEntryKeeps
  <2>6. CASE LookAtInbox BY <2>6, LookAtInboxKeeps
  <2>7. CASE Choose BY <2>7, ChooseKeeps
  <2>8. CASE Require BY <2>8, RequireKeeps
  <2>9. CASE ConnectInbox BY <2>9, ConnectInboxKeeps
  <2>10. CASE Recheck BY <2>10, RecheckKeeps
  <2>11. CASE VerifyBirth BY <2>11, VerifyBirthKeeps
  <2>12. CASE VerifyRest BY <2>12, VerifyRestKeeps
  <2>13. CASE \E told \in {"posted", "failed"} : Write(told) BY <2>13, WriteKeeps
  <2>14. CASE SenderKilled \/ Answered \/ AnswerLost BY <2>14, AnswersKeep
  <2> QED BY <1>2, <2>1, <2>2, <2>3, <2>4, <2>5, <2>6, <2>7, <2>8, <2>9, <2>10, <2>11, <2>12, <2>13, <2>14
         DEF Sending
<1>3. CASE UNCHANGED claudeVars
  <2>1. UNCHANGED machineVars /\ sender' = sender /\ caller' = caller BY <1>3 DEF claudeVars, machineVars
  <2>2. MachineInv' /\ \A o : (InboxOwner(o)' <=> InboxOwner(o)) /\ (Alive(o)' <=> Alive(o)) BY <2>1, MachineStays
  <2>3. \A r : RowKnown(r)' <=> RowKnown(r) BY <2>1, MachineStays
  <2>4. SenderTyped' /\ RowsRead' /\ Scanning' /\ Chosen' /\ CallerTold'
    BY <2>1, <2>3 DEF ClaudeInv, SenderTyped, RowsRead, Scanning, Chosen, CallerTold
  <2>5. PathSame' /\ ReaderKnown' /\ PinHeld'
    BY <2>1, <2>2 DEF ClaudeInv, PathSame, ReaderKnown, PinHeld, machineVars
  <2>6. CalmScan' /\ CalmChosen' /\ CalmRead'
    BY <2>1, <2>2 DEF ClaudeInv, CalmScan, CalmChosen, CalmRead, WillRead, machineVars
  <2>7. WroteRight'
    BY <2>1 DEF ClaudeInv, WroteRight, PinnedReachesItsProcess, InboxAsSelected, StaleFilesHarmless, Wrote, machineVars
  <2> QED BY <2>2, <2>4, <2>5, <2>6, <2>7 DEF ClaudeInv
<1> QED BY <1>1, <1>2, <1>3 DEF ClaudeNext

LEMMA ClaudeInvSafe == ASSUME ClaudeInv PROVE ClaudeSafe
<1>1. ToldTrue BY DEF ClaudeInv, CallerTold, ToldTrue, Wrote
<1> QED BY <1>1 DEF ClaudeInv, WroteRight, ClaudeSafe

(* Posting to a Claude session on this machine or over SSH: a message     *)
(* pinned to a listed generation is read by that very process or by       *)
(* nobody, any message is read by the owner of the inbox that was seen    *)
(* while file numbers do not come back, dead sessions' files do no harm   *)
(* while no session comes, and what the caller is told is true.           *)
THEOREM MessagesReachTheirSession == ClaudeSpec => []ClaudeSafe
<1>1. ClaudeInit => ClaudeInv BY ClaudeBegins
<1>2. ClaudeInv /\ [ClaudeNext]_claudeVars => ClaudeInv' BY ClaudeStep
<1>3. ClaudeInv => ClaudeSafe BY ClaudeInvSafe
<1> QED BY <1>1, <1>2, <1>3, PTL DEF ClaudeSpec

-----------------------------------------------------------------------------
(* The relay's rooms.  A handler inside its room has the seat of its role. *)
Inside == {"waiting", "woken", "attached", "closing"}
Seat(r, x) == room[r].members[x]
Empty(r) == \A x \in Roles : Seat(r, x) = NoSock

(* Where a handler is says what it holds: its room is fresh until it       *)
(* starts, it has its seat while it is inside, nothing once it leaves; an  *)
(* open connection has its place until then.                               *)
HandlerRight(s) ==
  LET c == sock[s] IN
  /\ c.pc = "new" => c = NewSock
  /\ c.pc \in {"new", "accepted"} => room[s] = NewRoom
  /\ c.pc = "accepted" => c.slot = NoSock
  /\ c.pc # "new" => c.ticket \in issued \ sessions
  /\ c.pc \in Inside => c.slot \in Socks /\ Seat(c.slot, Role(s)) = s
  /\ c.pc = "busy" => c.slot \in Socks /\ Seat(c.slot, Role(s)) # s
  /\ c.pc \in {"new", "leaving", "done"} => c.slot = NoSock /\ s \notin connections
  /\ c.pc = "done" => ~c.open
  /\ c.pc \in {"woken", "attached"} => room[c.slot].ready
  /\ c.open /\ c.pc \notin {"new", "leaving", "done"} => s \in connections

(* Whoever has a seat is inside, in that role, for the room's own key; an  *)
(* unpaired room has one seat taken and nobody is through its wait; one    *)
(* that was paired and has an empty seat is closing the other.             *)
SeatsRight(r) ==
  /\ Empty(r) => room[r] = NewRoom
  /\ \A x \in Roles : Seat(r, x) # NoSock =>
       LET m == Seat(r, x) IN
       /\ m \in Socks /\ sock[m].pc \in Inside /\ sock[m].slot = r
       /\ Role(m) = x /\ Key(m) = Key(r)
       /\ ~room[r].ready => Seat(r, OtherRole(x)) = NoSock /\ sock[m].pc \in {"waiting", "closing"}
       /\ room[r].ready /\ Seat(r, OtherRole(x)) = NoSock => ~sock[m].open

(* The room that waits under a key is unpaired and its member waits for    *)
(* that key; and who waits unpaired and in time can be joined.             *)
WaitingRight ==
  /\ \A k \in Rooms : waiting[k] # NoSock =>
       /\ ~room[waiting[k]].ready
       /\ \E s \in Socks : sock[s].pc = "waiting" /\ sock[s].slot = waiting[k] /\ Key(s) = k
  /\ \A s \in Socks : sock[s].pc = "waiting" /\ ~room[sock[s].slot].ready /\ ~room[sock[s].slot].late
                        => waiting[Key(s)] = sock[s].slot

(* A partner is the other seat of the room, or has left it.                *)
PartnerRight(s) ==
  /\ sock[s].pc = "attached" => sock[s].partner # NoSock
  /\ sock[s].partner # NoSock =>
       LET o == sock[s].partner IN
       /\ sock[s].pc \in {"attached", "closing"} /\ room[sock[s].slot].ready
       /\ Key(o) = Key(s) /\ Role(o) = OtherRole(Role(s))
       /\ \/ Seat(sock[s].slot, OtherRole(Role(s))) = o
          \/ Seat(sock[s].slot, OtherRole(Role(s))) = NoSock /\ sock[o].pc \in {"leaving", "done"}

(* The places taken are within the limits.                                 *)
SameUser(t) == {u \in Tickets : RoomOf[u].user = RoomOf[t].user}
SameDevice(t) == {u \in Tickets : DeviceOf[u] = DeviceOf[t]}
PlacesRight ==
  /\ IsFiniteSet(connections) /\ Cardinality(connections) <= Limits.global
  /\ \A t \in Tickets : Held(SameUser(t)) <= Limits.user /\ Held(SameDevice(t)) <= Limits.device

RoomInv ==
  /\ RoomTypeOK
  /\ TicketsOnce
  /\ \A s \in Socks : HandlerRight(s)
  /\ \A r \in Socks : SeatsRight(r)
  /\ WaitingRight
  /\ \A s \in Socks : PartnerRight(s)
  /\ PlacesRight

LEMMA RoleFacts ==
  \A x \in Roles : /\ OtherRole(x) \in Roles /\ OtherRole(x) # x /\ OtherRole(OtherRole(x)) = x
                   /\ \A y \in Roles : y # x => y = OtherRole(x)
BY DEF Roles, OtherRole

(* A connection that was made has a ticket, and through it a role and key. *)
LEMMA Ticketed ==
  ASSUME RoomTypeOK, NEW s \in Socks, HandlerRight(s), sock[s].pc # "new"
  PROVE  sock[s].ticket \in Tickets /\ Role(s) \in Roles /\ Key(s) \in Rooms
BY TicketAssumption DEF RoomTypeOK, HandlerRight, Role, Key, Rooms

LEMMA NewRoomFacts ==
  /\ NewRoom \in Room /\ NewSock \in Sock
  /\ \A x \in Roles : NewRoom.members[x] = NoSock
  /\ ~NewRoom.ready /\ ~NewRoom.late
  /\ NewSock.pc = "new" /\ ~NewSock.open /\ NewSock.slot = NoSock /\ NewSock.partner = NoSock
BY DEF NewRoom, NewSock, Room, Sock, PCs

LEMMA RoomsInitially == RoomInit => RoomInv
<1> SUFFICES ASSUME RoomInit PROVE RoomInv
  OBVIOUS
<1>1. \A s \in Socks : sock[s] = NewSock /\ room[s] = NewRoom BY DEF RoomInit
<1>2. connections = {} /\ issued = {} /\ sessions = {} /\ expired = {} /\ revoked = {}
  BY DEF RoomInit
<1>3. \A k \in Rooms : waiting[k] = NoSock BY DEF RoomInit
<1>4. RoomTypeOK BY NewRoomFacts DEF RoomInit, RoomTypeOK
<1>5. \A s \in Socks : HandlerRight(s)
  BY <1>1, <1>2, NewRoomFacts DEF HandlerRight, Inside
<1>6. \A r \in Socks : SeatsRight(r) BY <1>1, NewRoomFacts DEF SeatsRight, Seat, Empty
<1>7. WaitingRight BY <1>1, <1>3, NewRoomFacts DEF WaitingRight
<1>8. \A s \in Socks : PartnerRight(s) BY <1>1, NewRoomFacts DEF PartnerRight
<1>9. TicketsOnce BY <1>1, <1>2, NewRoomFacts DEF TicketsOnce, Admitted
<1>10. PlacesRight
  <2>1. IsFiniteSet(connections) /\ Cardinality(connections) = 0 BY <1>2, FS_EmptySet
  <2>2. \A T : {c \in connections : sock[c].ticket \in T} = {} BY <1>2
  <2>3. \A t \in Tickets : Held(SameUser(t)) = 0 /\ Held(SameDevice(t)) = 0
    BY <2>2, FS_EmptySet DEF Held
  <2> QED BY <2>1, <2>3, LimitsAssumption DEF PlacesRight
<1> QED BY <1>4, <1>5, <1>6, <1>7, <1>8, <1>9, <1>10 DEF RoomInv

(* Places stay within the limits when some are given back.                 *)
LEMMA PlacesGivenBack ==
  ASSUME PlacesRight, connections' \subseteq connections, \A c \in connections : sock'[c].ticket = sock[c].ticket
  PROVE  PlacesRight'
<1>1. IsFiniteSet(connections') /\ Cardinality(connections') <= Cardinality(connections)
  BY FS_Subset, Zenon DEF PlacesRight
<1>2. Cardinality(connections) \in Nat /\ Cardinality(connections') \in Nat
  BY <1>1, FS_CardinalityType DEF PlacesRight
<1>3. ASSUME NEW T PROVE Held(T)' <= Held(T) /\ Held(T) \in Nat /\ Held(T)' \in Nat
  <2> DEFINE A == {c \in connections : sock[c].ticket \in T}
             B == {c \in connections' : sock'[c].ticket \in T}
  <2>1. B \subseteq A /\ A \subseteq connections
    OBVIOUS
  <2>2. IsFiniteSet(A) BY <2>1, FS_Subset DEF PlacesRight
  <2>3. IsFiniteSet(B) /\ Cardinality(B) <= Cardinality(A) BY <2>1, <2>2, FS_Subset
  <2> QED BY <2>2, <2>3, FS_CardinalityType DEF Held
<1>4. ASSUME NEW t \in Tickets PROVE Held(SameUser(t))' <= Limits.user /\ Held(SameDevice(t))' <= Limits.device
  <2>1. SameUser(t)' = SameUser(t) /\ SameDevice(t)' = SameDevice(t)
    BY DEF SameUser, SameDevice
  <2>2. Held(SameUser(t))' <= Held(SameUser(t)) /\ Held(SameUser(t)) \in Nat /\ Held(SameUser(t))' \in Nat
    BY <1>3
  <2>3. Held(SameDevice(t))' <= Held(SameDevice(t)) /\ Held(SameDevice(t)) \in Nat /\ Held(SameDevice(t))' \in Nat
    BY <1>3
  <2> QED BY <2>2, <2>3, LimitsAssumption DEF PlacesRight
<1> QED BY <1>1, <1>2, <1>4, LimitsAssumption DEF PlacesRight

(* A step of one handler, or of its connection: nobody takes a seat, and   *)
(* only a handler that gives up takes its room out of `waiting`.           *)
LEMMA OneMoves ==
  ASSUME RoomInv, NEW s \in Socks, NEW n \in Sock, sock' = [sock EXCEPT ![s] = n],
         UNCHANGED <<issued, expired, sessions, revoked, room>>,
         n.ticket = sock[s].ticket, n.slot = sock[s].slot, n.open => sock[s].open,
         sock[s].pc # "new", n.pc # "new",
         connections' \in {connections, connections \ {s}},
         HandlerRight(s)', PartnerRight(s)',
         n.pc \in Inside <=> sock[s].pc \in Inside,
         n.pc = "waiting" => sock[s].pc = "waiting",
         sock[s].pc \in {"leaving", "done"} => n.pc \in {"leaving", "done"},
         sock[s].pc \in Inside /\ ~room[sock[s].slot].ready => n.pc \in {"waiting", "closing"},
         \/ waiting' = waiting /\ (sock[s].pc = "waiting" => n.pc = "waiting" \/ room[sock[s].slot].ready)
         \/ waiting' = WithoutRoom(waiting, Key(s), sock[s].slot) /\ sock[s].pc = "waiting" /\ n.pc = "closing"
  PROVE  RoomInv'
<1> USE DEF RoomInv
<1>1. sock'[s] = n /\ \A c \in Socks : c # s => sock'[c] = sock[c] BY DEF RoomTypeOK
<1>2. \A c \in Socks : sock'[c].ticket = sock[c].ticket /\ sock'[c].slot = sock[c].slot
  BY <1>1
<1>3. \A c \in Socks : Key(c)' = Key(c) /\ Role(c)' = Role(c) BY <1>2 DEF Key, Role
<1>4. /\ sock[s].ticket \in Tickets /\ Role(s) \in Roles /\ Key(s) \in Rooms BY Ticketed
<1>5. \A r, x : Seat(r, x)' = Seat(r, x) BY DEF Seat
<1>6. waiting' \in [Rooms -> Socks \cup {NoSock}] /\ \A k \in Rooms : waiting'[k] \in {waiting[k], NoSock}
  BY <1>4 DEF WithoutRoom, RoomTypeOK
<1>7. RoomTypeOK' BY <1>6 DEF RoomTypeOK
<1>8. TicketsOnce'
  <2>1. Admitted' = Admitted BY <1>1 DEF Admitted
  <2>2. \A c \in Admitted : sock'[c].ticket = sock[c].ticket BY <1>2 DEF Admitted
  <2> QED BY <2>1, <2>2 DEF TicketsOnce
<1>9. ASSUME NEW c \in Socks PROVE HandlerRight(c)'
  <2>1. CASE c = s BY <2>1
  <2>2. CASE c # s
    <3>1. sock'[c] = sock[c] /\ Role(c)' = Role(c) /\ (c \in connections' <=> c \in connections)
      BY <1>1, <1>3, <2>2
    <3>2. HandlerRight(c)
      OBVIOUS
    <3> QED BY <3>1, <3>2, <1>5 DEF HandlerRight
  <2> QED BY <2>1, <2>2
<1>10. ASSUME NEW r \in Socks PROVE SeatsRight(r)'
  <2>1. Empty(r)' <=> Empty(r) BY <1>5 DEF Empty
  <2>2. ASSUME NEW x \in Roles, NEW m, m = Seat(r, x), m # NoSock
        PROVE  /\ m \in Socks /\ sock'[m].pc \in Inside /\ sock'[m].slot = r
               /\ Role(m)' = x /\ Key(m)' = Key(r)'
               /\ ~room[r].ready => Seat(r, OtherRole(x)) = NoSock /\ sock'[m].pc \in {"waiting", "closing"}
               /\ room[r].ready /\ Seat(r, OtherRole(x)) = NoSock => ~sock'[m].open
    <3>1. /\ m \in Socks /\ sock[m].pc \in Inside /\ sock[m].slot = r /\ Role(m) = x /\ Key(m) = Key(r)
          /\ ~room[r].ready => Seat(r, OtherRole(x)) = NoSock /\ sock[m].pc \in {"waiting", "closing"}
          /\ room[r].ready /\ Seat(r, OtherRole(x)) = NoSock => ~sock[m].open
      BY <2>2 DEF SeatsRight
    <3>2. sock'[m].pc \in Inside /\ sock'[m].slot = r BY <3>1, <1>1, <1>2
    <3>3. Role(m)' = x /\ Key(m)' = Key(r)' BY <3>1, <1>3
    <3>4. ~room[r].ready => sock'[m].pc \in {"waiting", "closing"} BY <3>1, <1>1
    <3>5. ~sock[m].open => ~sock'[m].open BY <3>1, <1>1
    <3> QED BY <3>1, <3>2, <3>3, <3>4, <3>5
  <2>3. SeatsRight(r)
    OBVIOUS
  <2> QED BY <2>1, <2>2, <2>3, <1>5 DEF SeatsRight
<1>11. WaitingRight'
  <2>1. ASSUME NEW k \in Rooms, waiting'[k] # NoSock
        PROVE  /\ ~room'[waiting'[k]].ready
               /\ \E c \in Socks : sock'[c].pc = "waiting" /\ sock'[c].slot = waiting'[k] /\ Key(c)' = k
    <3>1. waiting'[k] = waiting[k] /\ ~room[waiting[k]].ready
      BY <2>1, <1>6 DEF WaitingRight
    <3>2. PICK c \in Socks : sock[c].pc = "waiting" /\ sock[c].slot = waiting[k] /\ Key(c) = k
      BY <2>1, <3>1 DEF WaitingRight
    <3>3. c = s => n.pc = "waiting"
      BY <3>1, <3>2, <2>1, <1>4 DEF WithoutRoom, RoomTypeOK
    <3> QED BY <3>1, <3>2, <3>3, <1>1, <1>2, <1>3
  <2>2. ASSUME NEW c \in Socks, sock'[c].pc = "waiting", ~room[sock'[c].slot].ready, ~room[sock'[c].slot].late
        PROVE  waiting'[Key(c)'] = sock'[c].slot
    <3>1. sock[c].pc = "waiting" /\ sock'[c].slot = sock[c].slot BY <2>2, <1>1, <1>2
    <3>2. waiting[Key(c)] = sock[c].slot BY <2>2, <3>1 DEF WaitingRight
    <3>3. CASE waiting' = waiting BY <3>1, <3>2, <3>3, <1>3
    <3>4. CASE waiting' = WithoutRoom(waiting, Key(s), sock[s].slot) /\ sock[s].pc = "waiting" /\ n.pc = "closing"
      <4>1. c # s BY <3>4, <2>2, <1>1
      <4>2. Seat(sock[c].slot, Role(c)) = c /\ Seat(sock[s].slot, Role(s)) = s /\ sock[c].slot \in Socks
        BY <3>1, <3>4 DEF HandlerRight, Inside
      <4>3. Role(c) \in Roles /\ Key(c) \in Rooms BY <3>1, Ticketed
      <4>4. c # NoSock /\ s # NoSock BY TicketAssumption
      <4>5. sock[c].slot # sock[s].slot
        <5> SUFFICES ASSUME sock[c].slot = sock[s].slot PROVE FALSE
          OBVIOUS
        <5>1. Role(c) # Role(s) BY <4>1, <4>2
        <5>2. Role(s) = OtherRole(Role(c)) BY <5>1, <4>3, <1>4, RoleFacts
        <5>3. Seat(sock[c].slot, OtherRole(Role(c))) = NoSock
          BY <4>2, <4>3, <4>4, <2>2, <3>1 DEF SeatsRight
        <5> QED BY <5>2, <5>3, <4>2, <4>4
      <4> QED BY <4>3, <4>5, <3>1, <3>2, <3>4, <1>3, <1>4 DEF WithoutRoom, RoomTypeOK
    <3> QED BY <3>3, <3>4
  <2> QED BY <2>1, <2>2 DEF WaitingRight
<1>12. ASSUME NEW c \in Socks PROVE PartnerRight(c)'
  <2>1. CASE c = s BY <2>1
  <2>2. CASE c # s
    <3>1. sock'[c] = sock[c] /\ Role(c)' = Role(c) /\ Key(c)' = Key(c)
      BY <1>1, <1>3, <2>2
    <3>2. ASSUME NEW o, o = sock[c].partner, o # NoSock
          PROVE  /\ Key(o)' = Key(o) /\ Role(o)' = Role(o)
                 /\ sock[o].pc \in {"leaving", "done"} => sock'[o].pc \in {"leaving", "done"}
      <4>1. o \in Socks BY <3>2 DEF RoomTypeOK, Sock
      <4> QED BY <4>1, <1>1, <1>3
    <3>3. PartnerRight(c)
      OBVIOUS
    <3> QED BY <3>1, <3>2, <3>3, <1>5 DEF PartnerRight
  <2> QED BY <2>1, <2>2
<1>13. PlacesRight'
  <2>1. connections \subseteq Socks /\ connections' \subseteq connections
    BY DEF RoomTypeOK
  <2>2. \A c \in connections : sock'[c].ticket = sock[c].ticket BY <2>1, <1>2
  <2> QED BY <2>1, <2>2, PlacesGivenBack
<1> QED BY <1>7, <1>8, <1>9, <1>10, <1>11, <1>12, <1>13

(* A handler or its connection goes on where it is.                        *)
LEMMA HandlerMoves ==
  ASSUME RoomInv, NEW s \in Socks, NEW n \in Sock, sock' = [sock EXCEPT ![s] = n],
         UNCHANGED <<issued, expired, sessions, revoked, room, waiting>>,
         n.ticket = sock[s].ticket, n.slot = sock[s].slot, n.partner = sock[s].partner,
         n.open => sock[s].open, sock[s].pc # "new",
         connections' \in {connections, connections \ {s}}, s \in connections' \/ ~n.open \/ n.pc = sock[s].pc,
         connections' = connections \/ ~n.open,
         \/ n.pc = sock[s].pc
         \/ sock[s].pc = "waiting" /\ n.pc = "woken" /\ room[n.slot].ready
         \/ sock[s].pc \in {"woken", "attached"} /\ n.pc = "closing"
         \/ sock[s].pc \in {"leaving", "accepted"} /\ n.pc = "done" /\ ~n.open /\ s \notin connections'
  PROVE  RoomInv'
<1> USE DEF RoomInv
<1>1. sock'[s] = n BY DEF RoomTypeOK
<1>2. Role(s)' = Role(s) /\ Key(s)' = Key(s) /\ \A r, x : Seat(r, x)' = Seat(r, x)
  BY <1>1 DEF Role, Key, Seat
<1>3. HandlerRight(s)
  OBVIOUS
<1>4. n.pc # "new" /\ (n.pc \in Inside <=> sock[s].pc \in Inside) BY DEF Inside
<1>5. HandlerRight(s)'
  <2>1. CASE n.pc = sock[s].pc BY <2>1, <1>1, <1>2, <1>3 DEF HandlerRight
  <2>2. CASE sock[s].pc = "waiting" /\ n.pc = "woken" /\ room[n.slot].ready
    BY <2>2, <1>1, <1>2, <1>3 DEF HandlerRight, Inside
  <2>3. CASE sock[s].pc \in {"woken", "attached"} /\ n.pc = "closing"
    BY <2>3, <1>1, <1>2, <1>3 DEF HandlerRight, Inside
  <2>4. CASE sock[s].pc \in {"leaving", "accepted"} /\ n.pc = "done" /\ ~n.open /\ s \notin connections'
    BY <2>4, <1>1, <1>2, <1>3 DEF HandlerRight, Inside
  <2> QED BY <2>1, <2>2, <2>3, <2>4
<1>6. PartnerRight(s)'
  <2>1. PartnerRight(s)
    OBVIOUS
  <2>2. n.partner # NoSock => n.pc \in {"attached", "closing"} BY <2>1 DEF PartnerRight
  <2>3. ASSUME NEW o, o = n.partner, o # NoSock
        PROVE  /\ room[n.slot].ready /\ Key(o)' = Key(s) /\ Role(o)' = OtherRole(Role(s))
               /\ \/ Seat(n.slot, OtherRole(Role(s))) = o
                  \/ Seat(n.slot, OtherRole(Role(s))) = NoSock /\ sock'[o].pc \in {"leaving", "done"}
    <3>1. o \in Socks /\ (o = s => sock'[o].ticket = sock[o].ticket) /\ (o # s => sock'[o] = sock[o])
      BY <2>3, <1>1 DEF RoomTypeOK, Sock
    <3>2. Key(o)' = Key(o) /\ Role(o)' = Role(o) BY <3>1 DEF Key, Role
    <3>3. sock[o].pc \in {"leaving", "done"} => sock'[o].pc \in {"leaving", "done"}
      BY <3>1, <1>1
    <3> QED BY <3>2, <3>3, <2>1, <2>3 DEF PartnerRight
  <2>4. n.pc = "attached" => n.partner # NoSock BY <2>1 DEF PartnerRight
  <2> QED BY <2>2, <2>3, <2>4, <1>1, <1>2 DEF PartnerRight
<1>7. sock[s].pc = "waiting" => n.pc = "waiting" \/ room[sock[s].slot].ready
  OBVIOUS
<1>8. sock[s].pc \in Inside /\ ~room[sock[s].slot].ready => n.pc \in {"waiting", "closing"}
  <2>1. ASSUME sock[s].pc \in Inside, ~room[sock[s].slot].ready PROVE sock[s].pc \in {"waiting", "closing"}
    BY <2>1, <1>3 DEF HandlerRight, Inside
  <2> QED BY <2>1
<1> QED BY <1>4, <1>5, <1>6, <1>7, <1>8, OneMoves

LEMMA SockFields ==
  ASSUME RoomTypeOK, NEW s \in Socks
  PROVE  /\ sock[s] \in Sock
         /\ sock[s] = [pc |-> sock[s].pc, open |-> sock[s].open, ticket |-> sock[s].ticket,
                       slot |-> sock[s].slot, partner |-> sock[s].partner]
BY DEF RoomTypeOK, Sock

LEMMA StepWakes ==
  ASSUME RoomInv, NEW s \in Socks, Wake(s)
  PROVE  RoomInv'
<1>1. sock[s].pc = "waiting" /\ UNCHANGED <<issued, expired, sessions, revoked, connections, room>>
  BY DEF Wake
<1>2. RoomTypeOK /\ HandlerRight(s) /\ PartnerRight(s) BY DEF RoomInv
<1>3. sock[s] \in Sock BY <1>2, SockFields
<1>4. CASE room[sock[s].slot].ready /\ sock' = [sock EXCEPT ![s].pc = "woken"] /\ UNCHANGED waiting
  <2> DEFINE n == [sock[s] EXCEPT !.pc = "woken"]
  <2>1. n \in Sock /\ sock' = [sock EXCEPT ![s] = n] BY <1>3, <1>4 DEF Sock, PCs
  <2>2. /\ n.pc = "woken" /\ n.ticket = sock[s].ticket /\ n.slot = sock[s].slot /\ n.partner = sock[s].partner
        /\ n.open = sock[s].open
    BY <1>3 DEF Sock
  <2>3. s \in connections \/ ~n.open BY <2>2, <1>1, <1>2 DEF HandlerRight
  <2> HIDE DEF n
  <2> QED BY <2>1, <2>2, <2>3, <1>1, <1>4, HandlerMoves
<1>5. CASE sock' = [sock EXCEPT ![s].pc = "closing"] /\ waiting' = WithoutRoom(waiting, Key(s), sock[s].slot)
  <2> DEFINE n == [sock[s] EXCEPT !.pc = "closing"]
  <2>1. n \in Sock /\ sock' = [sock EXCEPT ![s] = n] BY <1>3, <1>5 DEF Sock, PCs
  <2>2. /\ n.pc = "closing" /\ n.ticket = sock[s].ticket /\ n.slot = sock[s].slot /\ n.partner = sock[s].partner
        /\ n.open = sock[s].open
    BY <1>3 DEF Sock
  <2>3. sock'[s] = n BY <2>1, <1>2 DEF RoomTypeOK
  <2> HIDE DEF n
  <2>4. Role(s)' = Role(s) /\ \A r, x : Seat(r, x)' = Seat(r, x)
    BY <2>2, <2>3, <1>1 DEF Role, Seat
  <2>5. HandlerRight(s)' BY <2>2, <2>3, <2>4, <1>1, <1>2 DEF HandlerRight, Inside
  <2>6. sock[s].partner = NoSock BY <1>1, <1>2 DEF PartnerRight
  <2>7. PartnerRight(s)' BY <2>2, <2>3, <2>6 DEF PartnerRight
  <2> QED BY <2>1, <2>2, <2>5, <2>7, <1>1, <1>5, OneMoves DEF Inside
<1> QED BY <1>4, <1>5 DEF Wake

LEMMA StepAttaches ==
  ASSUME RoomInv, NEW s \in Socks, Attach(s)
  PROVE  RoomInv'
<1> DEFINE other == Seat(sock[s].slot, OtherRole(Role(s)))
<1>1. sock[s].pc = "woken" /\ UNCHANGED <<issued, expired, sessions, revoked, connections, waiting, room>>
  BY DEF Attach
<1>2. RoomTypeOK /\ HandlerRight(s) /\ PartnerRight(s) BY DEF RoomInv
<1>3. sock[s] \in Sock BY <1>2, SockFields
<1>4. CASE sock' = [sock EXCEPT ![s].pc = "closing"]
  <2> DEFINE n == [sock[s] EXCEPT !.pc = "closing"]
  <2>1. n \in Sock /\ sock' = [sock EXCEPT ![s] = n] BY <1>3, <1>4 DEF Sock, PCs
  <2>2. /\ n.pc = "closing" /\ n.ticket = sock[s].ticket /\ n.slot = sock[s].slot /\ n.partner = sock[s].partner
        /\ n.open = sock[s].open
    BY <1>3 DEF Sock
  <2>3. s \in connections \/ ~n.open BY <2>2, <1>1, <1>2 DEF HandlerRight
  <2> HIDE DEF n
  <2> QED BY <2>1, <2>2, <2>3, <1>1, HandlerMoves
<1>5. CASE other # NoSock /\ sock' = [sock EXCEPT ![s].pc = "attached", ![s].partner = other]
  <2>1. /\ sock[s].slot \in Socks /\ Seat(sock[s].slot, Role(s)) = s /\ room[sock[s].slot].ready
    BY <1>1, <1>2 DEF HandlerRight, Inside
  <2>2. Role(s) \in Roles /\ OtherRole(Role(s)) \in Roles /\ OtherRole(Role(s)) # Role(s)
    BY <1>1, <1>2, Ticketed, RoleFacts
  <2>3. PICK o \in Socks : o = other /\ Role(o) = OtherRole(Role(s)) /\ Key(o) = Key(sock[s].slot)
    BY <1>5, <2>1, <2>2 DEF RoomInv, SeatsRight
  <2>4. Key(s) = Key(sock[s].slot)
    <3>1. s # NoSock BY TicketAssumption
    <3> QED BY <3>1, <2>1, <2>2 DEF RoomInv, SeatsRight
  <2> DEFINE n == [sock[s] EXCEPT !.pc = "attached", !.partner = o]
  <2>5. n \in Sock /\ sock' = [sock EXCEPT ![s] = n] BY <1>3, <1>5, <2>3 DEF Sock, PCs
  <2>6. /\ n.pc = "attached" /\ n.ticket = sock[s].ticket /\ n.slot = sock[s].slot /\ n.partner = o
        /\ n.open = sock[s].open
    BY <1>3 DEF Sock
  <2>7. sock'[s] = n BY <2>5, <1>2 DEF RoomTypeOK
  <2> HIDE DEF n
  <2>8. Role(s)' = Role(s) /\ Key(s)' = Key(s) /\ \A r, x : Seat(r, x)' = Seat(r, x)
    BY <2>6, <2>7, <1>1 DEF Role, Key, Seat
  <2>9. HandlerRight(s)' BY <2>6, <2>7, <2>8, <2>1, <1>1, <1>2 DEF HandlerRight, Inside
  <2>10. Role(o)' = Role(o) /\ Key(o)' = Key(o)
    BY <2>5, <2>6, <1>2 DEF Role, Key, RoomTypeOK
  <2>11. o # NoSock BY <2>3, <1>5
  <2>12. PartnerRight(s)'
    BY <2>6, <2>7, <2>8, <2>10, <2>11, <2>1, <2>3, <2>4, <1>1 DEF PartnerRight
  <2> QED BY <2>5, <2>6, <2>9, <2>12, <2>1, <1>1, OneMoves DEF Inside
<1> QED BY <1>4, <1>5 DEF Attach, Seat

LEMMA StepGoesOn ==
  ASSUME RoomInv, NEW s \in Socks,
         StreamEnds(s) \/ CloseOwn(s) \/ ReleaseSlot(s) \/ WatchCloses(s) \/ Disconnect(s)
  PROVE  RoomInv'
<1>1. RoomTypeOK /\ HandlerRight(s) BY DEF RoomInv
<1>2. sock[s] \in Sock BY <1>1, SockFields
<1>3. CASE StreamEnds(s)
  <2> DEFINE n == [sock[s] EXCEPT !.pc = "closing"]
  <2>1. n \in Sock /\ sock' = [sock EXCEPT ![s] = n] /\ sock[s].pc = "attached"
    BY <1>2, <1>3 DEF Sock, PCs, StreamEnds
  <2>2. /\ n.pc = "closing" /\ n.ticket = sock[s].ticket /\ n.slot = sock[s].slot /\ n.partner = sock[s].partner
        /\ n.open = sock[s].open
    BY <1>2 DEF Sock
  <2>3. s \in connections \/ ~n.open BY <2>1, <2>2, <1>1 DEF HandlerRight
  <2>4. UNCHANGED <<issued, expired, sessions, revoked, connections, waiting, room>>
    BY <1>3 DEF StreamEnds
  <2> HIDE DEF n
  <2> QED BY <2>1, <2>2, <2>3, <2>4, HandlerMoves
<1>4. CASE CloseOwn(s)
  <2> DEFINE n == [sock[s] EXCEPT !.pc = "done", !.open = FALSE]
  <2>1. n \in Sock /\ sock' = [sock EXCEPT ![s] = n] /\ sock[s].pc = "leaving"
    BY <1>2, <1>4 DEF Sock, PCs, CloseOwn
  <2>2. /\ n.pc = "done" /\ n.ticket = sock[s].ticket /\ n.slot = sock[s].slot /\ n.partner = sock[s].partner
        /\ n.open = FALSE
    BY <1>2 DEF Sock
  <2>3. s \notin connections BY <2>1, <1>1 DEF HandlerRight
  <2>4. UNCHANGED <<issued, expired, sessions, revoked, connections, waiting, room>>
    BY <1>4 DEF CloseOwn
  <2> HIDE DEF n
  <2> QED BY <2>1, <2>2, <2>3, <2>4, HandlerMoves
<1>5. CASE ReleaseSlot(s)
  <2> DEFINE n == [sock[s] EXCEPT !.pc = IF sock[s].pc = "accepted" THEN "done" ELSE sock[s].pc]
  <2>1. n \in Sock /\ sock' = [sock EXCEPT ![s] = n]
    BY <1>2, <1>5 DEF Sock, PCs, ReleaseSlot
  <2>2. /\ n.pc = (IF sock[s].pc = "accepted" THEN "done" ELSE sock[s].pc)
        /\ n.ticket = sock[s].ticket /\ n.slot = sock[s].slot /\ n.partner = sock[s].partner
        /\ n.open = sock[s].open
    BY <1>2 DEF Sock
  <2>3. ~sock[s].open /\ s \in connections /\ connections' = connections \ {s} /\ sock[s].pc # "new"
    BY <1>5, <1>1 DEF ReleaseSlot, HandlerRight
  <2>4. UNCHANGED <<issued, expired, sessions, revoked, waiting, room>>
    BY <1>5 DEF ReleaseSlot
  <2> HIDE DEF n
  <2> QED BY <2>1, <2>2, <2>3, <2>4, HandlerMoves
<1>6. CASE WatchCloses(s) \/ Disconnect(s)
  <2> DEFINE n == [sock[s] EXCEPT !.open = FALSE]
  <2>1. n \in Sock /\ sock' = [sock EXCEPT ![s] = n] /\ sock[s].open
    BY <1>2, <1>6 DEF Sock, WatchCloses, Disconnect
  <2>2. /\ n.pc = sock[s].pc /\ n.ticket = sock[s].ticket /\ n.slot = sock[s].slot /\ n.partner = sock[s].partner
        /\ n.open = FALSE
    BY <1>2 DEF Sock
  <2>3. sock[s].pc # "new" BY <2>1, <1>1, NewRoomFacts DEF HandlerRight
  <2>4. UNCHANGED <<issued, expired, sessions, revoked, connections, waiting, room>>
    BY <1>6 DEF WatchCloses, Disconnect
  <2> HIDE DEF n
  <2> QED BY <2>1, <2>2, <2>3, <2>4, HandlerMoves
<1> QED BY <1>3, <1>4, <1>5, <1>6

(* Outside: tickets and devices, which are no handler's.                   *)
LEMMA StepOutside ==
  ASSUME RoomInv, UNCHANGED <<connections, waiting, room, sock>>,
         issued \subseteq issued', RoomTypeOK', TicketsOnce', issued \ sessions \subseteq issued' \ sessions'
  PROVE  RoomInv'
<1> USE DEF RoomInv
<1>1. \A s \in Socks : Key(s)' = Key(s) /\ Role(s)' = Role(s) BY DEF Key, Role
<1>2. \A r, x : Seat(r, x)' = Seat(r, x) BY DEF Seat
<1>3. ASSUME NEW s \in Socks PROVE HandlerRight(s)' BY <1>1, <1>2 DEF HandlerRight
<1>4. ASSUME NEW r \in Socks PROVE SeatsRight(r)'
  BY DEF SeatsRight, Seat, Empty, Key, Role
<1>5. WaitingRight' BY <1>1 DEF WaitingRight
<1>6. ASSUME NEW s \in Socks PROVE PartnerRight(s)' BY DEF PartnerRight, Seat, Key, Role
<1>7. PlacesRight' BY PlacesGivenBack
<1> QED BY <1>3, <1>4, <1>5, <1>6, <1>7

LEMMA StepTickets ==
  ASSUME RoomInv, NEW t \in Tickets, NEW s, Session(t) \/ TicketExpires(t) \/ Refuse(s, t)
  PROVE  RoomInv'
<1>1. /\ UNCHANGED <<connections, waiting, room, sock>> /\ issued \subseteq issued'
      /\ issued \ sessions \subseteq issued' \ sessions'
  BY DEF RoomInv, RoomTypeOK, Session, TicketExpires, Refuse, AfterRefusal
<1>2. RoomTypeOK'
  BY DEF RoomInv, RoomTypeOK, Session, TicketExpires, Refuse, AfterRefusal
<1>3. TicketsOnce'
  <2>1. Admitted' = Admitted BY <1>1 DEF Admitted
  <2>2. \A u \in issued' \ expired' : u \in sessions' \/ (u \in issued \ expired /\ u \notin sessions)
    BY DEF RoomInv, RoomTypeOK, Session, TicketExpires, Refuse, AfterRefusal
  <2> QED BY <1>1, <2>1, <2>2 DEF RoomInv, TicketsOnce
<1> QED BY <1>1, <1>2, <1>3, StepOutside

LEMMA StepWithdraws ==
  ASSUME RoomInv, NEW d \in Devices, WithdrawDevice(d)
  PROVE  RoomInv'
<1>1. UNCHANGED <<issued, expired, sessions, connections, waiting, room, sock>>
  BY DEF WithdrawDevice
<1>2. RoomTypeOK' BY DEF RoomInv, RoomTypeOK, WithdrawDevice
<1>3. TicketsOnce' BY <1>1 DEF RoomInv, TicketsOnce, Admitted
<1> QED BY <1>1, <1>2, <1>3, StepOutside

LEMMA StepDeadline ==
  ASSUME RoomInv, NEW q \in Socks, Deadline(q)
  PROVE  RoomInv'
<1> USE DEF RoomInv
<1>1. PICK k0 \in Rooms : waiting[k0] = q BY DEF Deadline
<1>2. UNCHANGED <<issued, expired, sessions, revoked, connections, waiting, sock>>
  BY DEF Deadline
<1> DEFINE n == [room[q] EXCEPT !.late = TRUE]
<1>3. room[q] \in Room BY DEF RoomTypeOK
<1>4. n \in Room /\ n.members = room[q].members /\ n.ready = room[q].ready /\ n.late
  BY <1>3 DEF Room
<1>5. room' = [room EXCEPT ![q] = n] BY DEF Deadline
<1> HIDE DEF n
<1>6. room'[q] = n /\ \A r \in Socks : r # q => room'[r] = room[r]
  BY <1>5 DEF RoomTypeOK
<1>7. \A r \in Socks : /\ room'[r].members = room[r].members /\ room'[r].ready = room[r].ready
                       /\ room[r].late => room'[r].late
  BY <1>4, <1>6
<1>8. \A r \in Socks : \A x : Seat(r, x)' = Seat(r, x) BY <1>7 DEF Seat
<1>9. \A s \in Socks : Key(s)' = Key(s) /\ Role(s)' = Role(s) BY <1>2 DEF Key, Role
<1>10. PICK m \in Socks : sock[m].pc = "waiting" /\ sock[m].slot = q
  BY <1>1, TicketAssumption DEF WaitingRight
<1>11. Role(m) \in Roles /\ Seat(q, Role(m)) = m /\ m # NoSock
  BY <1>10, Ticketed, TicketAssumption DEF HandlerRight, Inside
<1>12. ~Empty(q) /\ room[q] # NewRoom BY <1>11, NewRoomFacts DEF Empty, Seat
<1>13. RoomTypeOK' /\ TicketsOnce'
  BY <1>2, <1>4, <1>5 DEF RoomTypeOK, TicketsOnce, Admitted
<1>14. ASSUME NEW s \in Socks PROVE HandlerRight(s)'
  <2>1. HandlerRight(s)
    OBVIOUS
  <2>2. sock[s].pc \in {"new", "accepted"} => s # q BY <2>1, <1>12 DEF HandlerRight
  <2>3. sock[s].pc \in Inside \cup {"busy"} => sock[s].slot \in Socks
    BY <2>1 DEF HandlerRight, Inside
  <2> QED BY <2>1, <2>2, <2>3, <1>2, <1>6, <1>7, <1>8, <1>9 DEF HandlerRight, Inside
<1>15. ASSUME NEW r \in Socks PROVE SeatsRight(r)'
  <2>1. Empty(r)' <=> Empty(r) BY <1>8 DEF Empty
  <2>2. Empty(r) => room'[r] = room[r] BY <1>6, <1>12
  <2>3. ASSUME NEW x \in Roles, NEW m1, m1 = Seat(r, x), m1 # NoSock
        PROVE  Role(m1)' = Role(m1) /\ Key(m1)' = Key(m1)
    BY <2>3, <1>9 DEF SeatsRight
  <2>4. SeatsRight(r) /\ Key(r)' = Key(r) BY <1>9
  <2> QED BY <2>1, <2>2, <2>3, <2>4, <1>2, <1>7, <1>8 DEF SeatsRight
<1>16. WaitingRight'
  <2>1. \A k \in Rooms : waiting[k] # NoSock => waiting[k] \in Socks BY DEF RoomTypeOK
  <2>2. \A s \in Socks : sock[s].pc = "waiting" => sock[s].slot \in Socks
    BY DEF HandlerRight, Inside
  <2> QED BY <2>1, <2>2, <1>2, <1>7, <1>9 DEF WaitingRight
<1>17. ASSUME NEW s \in Socks PROVE PartnerRight(s)'
  <2>1. sock[s].partner # NoSock => sock[s].partner \in Socks /\ sock[s].slot \in Socks
    BY DEF PartnerRight, HandlerRight, Inside, RoomTypeOK, Sock
  <2>2. PartnerRight(s)
    OBVIOUS
  <2>3. ASSUME NEW o, o = sock[s].partner, o # NoSock
        PROVE  Key(o)' = Key(o) /\ Role(o)' = Role(o)
    BY <2>1, <2>3, <1>9
  <2> QED BY <2>1, <2>2, <2>3, <1>2, <1>7, <1>8, <1>9 DEF PartnerRight
<1>18. PlacesRight' BY <1>2, PlacesGivenBack
<1> QED BY <1>13, <1>14, <1>15, <1>16, <1>17, <1>18

(* The three limits leave room for the one that is let in.                 *)
LEMMA OneMorePlace ==
  ASSUME PlacesRight, RoomTypeOK, NEW s \in Socks, NEW t \in Tickets, ~Full(t), s \notin connections,
         connections' = connections \cup {s}, sock'[s].ticket = t,
         \A c \in connections : sock'[c].ticket = sock[c].ticket
  PROVE  PlacesRight'
<1>1. IsFiniteSet(connections') /\ Cardinality(connections') = Cardinality(connections) + 1
  BY FS_AddElement DEF PlacesRight
<1>2. Cardinality(connections) < Limits.global /\ Cardinality(connections) \in Nat
  BY FS_CardinalityType, LimitsAssumption DEF Full, PlacesRight
<1>3. ASSUME NEW T PROVE /\ Held(T) \in Nat /\ Held(T)' = IF t \in T THEN Held(T) + 1 ELSE Held(T)
  <2> DEFINE A == {c \in connections : sock[c].ticket \in T}
             B == {c \in connections' : sock'[c].ticket \in T}
  <2>1. IsFiniteSet(A) BY FS_Subset DEF PlacesRight
  <2>2. B = IF t \in T THEN A \cup {s} ELSE A
    OBVIOUS
  <2>3. s \notin A
    OBVIOUS
  <2>4. Cardinality(A \cup {s}) = Cardinality(A) + 1 BY <2>1, <2>3, FS_AddElement
  <2>5. Cardinality(A) \in Nat BY <2>1, FS_CardinalityType
  <2>6. Held(T) = Cardinality(A) /\ Held(T)' = Cardinality(B) BY DEF Held
  <2> HIDE DEF A, B
  <2> QED BY <2>2, <2>4, <2>5, <2>6
<1>4. ASSUME NEW u \in Tickets PROVE Held(SameUser(u))' <= Limits.user /\ Held(SameDevice(u))' <= Limits.device
  <2>1. SameUser(u)' = SameUser(u) /\ SameDevice(u)' = SameDevice(u)
    BY DEF SameUser, SameDevice
  <2>2. t \in SameUser(u) => SameUser(u) = {v \in Tickets : RoomOf[v].user = RoomOf[t].user}
    BY DEF SameUser
  <2>3. t \in SameDevice(u) => SameDevice(u) = {v \in Tickets : DeviceOf[v] = DeviceOf[t]}
    BY DEF SameDevice
  <2>4. t \in SameUser(u) => ~(Held(SameUser(u)) >= Limits.user) BY <2>2 DEF Full
  <2>5. t \in SameDevice(u) => ~(Held(SameDevice(u)) >= Limits.device) BY <2>3 DEF Full
  <2>6. Held(SameUser(u)) <= Limits.user /\ Held(SameDevice(u)) <= Limits.device
    BY DEF PlacesRight
  <2>7. /\ Held(SameUser(u)) \in Nat
        /\ Held(SameUser(u))' = IF t \in SameUser(u) THEN Held(SameUser(u)) + 1 ELSE Held(SameUser(u))
    BY <1>3
  <2>8. /\ Held(SameDevice(u)) \in Nat
        /\ Held(SameDevice(u))' = IF t \in SameDevice(u) THEN Held(SameDevice(u)) + 1 ELSE Held(SameDevice(u))
    BY <1>3
  <2> QED BY <2>4, <2>5, <2>6, <2>7, <2>8, LimitsAssumption
<1> QED BY <1>1, <1>2, <1>4, LimitsAssumption DEF PlacesRight

(* Who is not inside is in no seat and nobody's partner.                   *)
LEMMA Unseated ==
  ASSUME RoomInv, NEW s \in Socks, sock[s].pc \notin Inside
  PROVE  /\ \A r \in Socks, x \in Roles : Seat(r, x) # s
         /\ sock[s].pc \notin {"leaving", "done"} => \A c \in Socks : sock[c].partner # s
<1>1. s # NoSock BY TicketAssumption
<1>2. \A r \in Socks, x \in Roles : Seat(r, x) # s BY <1>1 DEF RoomInv, SeatsRight
<1>3. ASSUME NEW c \in Socks, sock[c].partner = s, sock[s].pc \notin {"leaving", "done"} PROVE FALSE
  <2>1. sock[c].pc \in Inside /\ PartnerRight(c) /\ HandlerRight(c)
    BY <1>1, <1>3 DEF RoomInv, PartnerRight, Inside
  <2>2. sock[c].slot \in Socks BY <2>1 DEF HandlerRight
  <2>3. sock[c].pc # "new" BY <2>1 DEF Inside
  <2>4. Role(c) \in Roles /\ OtherRole(Role(c)) \in Roles
    BY <2>1, <2>3, Ticketed, RoleFacts DEF RoomInv
  <2> QED BY <2>1, <2>2, <2>4, <1>1, <1>2, <1>3 DEF PartnerRight
<1> QED BY <1>2, <1>3

LEMMA StepAccepts ==
  ASSUME RoomInv, NEW s \in Socks, NEW t \in issued, sock[s].pc = "new", Accept(s, t)
  PROVE  RoomInv'
<1> USE DEF RoomInv
<1>1. t \in Tickets /\ t \in sessions /\ ~Full(t) /\ sessions' = sessions \ {t} /\ connections' = connections \cup {s}
      /\ UNCHANGED <<issued, expired, revoked, waiting, room>>
  BY DEF Accept, Redeemed, RoomTypeOK
<1> DEFINE n == [NewSock EXCEPT !.pc = "accepted", !.open = TRUE, !.ticket = t]
<1>2. /\ n \in Sock /\ n.pc = "accepted" /\ n.open = TRUE /\ n.ticket = t /\ n.slot = NoSock /\ n.partner = NoSock
      /\ sock' = [sock EXCEPT ![s] = n]
  BY <1>1 DEF NewSock, Sock, PCs, Accept
<1> HIDE DEF n
<1>3. sock'[s] = n /\ \A c \in Socks : c # s => sock'[c] = sock[c]
  BY <1>2 DEF RoomTypeOK
<1>4. sock[s].pc \notin Inside BY DEF Inside
<1>5. \A r, x : Seat(r, x)' = Seat(r, x) BY <1>1 DEF Seat
<1>6. \A c \in Socks : c # s => Role(c)' = Role(c) /\ Key(c)' = Key(c)
  BY <1>3 DEF Role, Key
<1>7. s \notin connections /\ room[s] = NewRoom BY DEF HandlerRight
<1>8. Empty(s) BY <1>7, NewRoomFacts DEF Empty, Seat
<1>9. RoomTypeOK' BY <1>1, <1>2 DEF RoomTypeOK
<1>10. TicketsOnce'
  <2>1. Admitted' = Admitted \cup {s} /\ s \notin Admitted BY <1>2, <1>3 DEF Admitted
  <2>2. \A c \in Admitted : sock'[c].ticket = sock[c].ticket /\ sock[c].ticket \notin sessions
    BY <1>3, <2>1 DEF Admitted, HandlerRight
  <2>3. sock'[s].ticket = t BY <1>2, <1>3
  <2> QED BY <1>1, <2>1, <2>2, <2>3 DEF TicketsOnce
<1>11. ASSUME NEW c \in Socks PROVE HandlerRight(c)'
  <2>1. CASE c = s BY <2>1, <1>1, <1>2, <1>3, <1>7 DEF HandlerRight, Inside, RoomTypeOK
  <2>2. CASE c # s
    <3>1. HandlerRight(c) /\ sock'[c] = sock[c] /\ Role(c)' = Role(c) /\ (c \in connections' <=> c \in connections)
      BY <2>2, <1>1, <1>3, <1>6
    <3>2. issued \ sessions \subseteq issued' \ sessions' BY <1>1
    <3> QED BY <3>1, <3>2, <1>1, <1>5 DEF HandlerRight
  <2> QED BY <2>1, <2>2
<1>12. ASSUME NEW r \in Socks PROVE SeatsRight(r)'
  <2>1. Empty(r)' <=> Empty(r) BY <1>5 DEF Empty
  <2>2. ASSUME NEW x \in Roles, NEW m, m = Seat(r, x), m # NoSock
        PROVE  sock'[m] = sock[m] /\ Role(m)' = Role(m) /\ Key(m)' = Key(m) /\ Key(r)' = Key(r)
    <3>1. m \in Socks /\ m # s BY <2>2, <1>4, Unseated DEF SeatsRight
    <3>2. r # s BY <2>2, <1>8 DEF Empty
    <3> QED BY <3>1, <3>2, <1>3, <1>6
  <2>3. SeatsRight(r)
    OBVIOUS
  <2> QED BY <2>1, <2>2, <2>3, <1>1, <1>5 DEF SeatsRight
<1>13. WaitingRight'
  <2>1. \A c \in Socks : sock'[c].pc = "waiting" => c # s BY <1>2, <1>3
  <2>2. \A c \in Socks : sock[c].pc = "waiting" => c # s
    OBVIOUS
  <2> QED BY <2>1, <2>2, <1>1, <1>3, <1>6 DEF WaitingRight
<1>14. ASSUME NEW c \in Socks PROVE PartnerRight(c)'
  <2>1. CASE c = s BY <2>1, <1>2, <1>3 DEF PartnerRight
  <2>2. CASE c # s
    <3>1. PartnerRight(c) /\ sock'[c] = sock[c] /\ Role(c)' = Role(c) /\ Key(c)' = Key(c)
      BY <2>2, <1>3, <1>6
    <3>2. ASSUME NEW o, o = sock[c].partner, o # NoSock
          PROVE  sock'[o] = sock[o] /\ Role(o)' = Role(o) /\ Key(o)' = Key(o)
      <4>1. o \in Socks BY <3>2 DEF RoomTypeOK, Sock
      <4>2. o # s BY <3>2, <1>4, Unseated
      <4> QED BY <4>1, <4>2, <1>3, <1>6
    <3> QED BY <3>1, <3>2, <1>1, <1>5 DEF PartnerRight
  <2> QED BY <2>1, <2>2
<1>15. PlacesRight'
  <2>1. sock'[s].ticket = t BY <1>2, <1>3
  <2>2. \A c \in connections : sock'[c].ticket = sock[c].ticket
    BY <1>3, <1>7 DEF RoomTypeOK
  <2> QED BY <2>1, <2>2, <1>1, <1>7, OneMorePlace
<1> QED BY <1>9, <1>10, <1>11, <1>12, <1>13, <1>14, <1>15

(* The room a handler joins is its own, which is fresh, or one that waits  *)
(* under its key with the other role in it or its own.                     *)
LEMMA JoinedFacts ==
  ASSUME RoomInv, NEW s \in Socks, sock[s].pc = "accepted"
  PROVE  LET r == Joined(s) IN
         /\ r \in Socks /\ Key(r) = Key(s) /\ ~room[r].ready
         /\ r = s => room[s] = NewRoom /\ (waiting[Key(s)] = NoSock \/ room[waiting[Key(s)]].late)
         /\ r # s => /\ r = waiting[Key(s)] /\ sock[r].pc \notin {"new", "accepted"}
                     /\ \E m \in Socks, x \in Roles : Seat(r, x) = m /\ sock[m].pc = "waiting"
<1> USE DEF RoomInv
<1>1. Key(s) \in Rooms BY Ticketed
<1>2. room[s] = NewRoom BY DEF HandlerRight
<1>3. CASE Joined(s) = s
  <2>1. waiting[Key(s)] # s
    <3> SUFFICES ASSUME waiting[Key(s)] = s PROVE FALSE
      OBVIOUS
    <3>1. PICK m \in Socks : sock[m].pc = "waiting" /\ sock[m].slot = s
      BY <1>1, TicketAssumption DEF WaitingRight
    <3>2. Role(m) \in Roles /\ Seat(s, Role(m)) = m /\ m # NoSock
      BY <3>1, Ticketed, TicketAssumption DEF HandlerRight, Inside
    <3> QED BY <3>2, <1>2, NewRoomFacts DEF Seat
  <2> QED BY <2>1, <1>3, <1>2, NewRoomFacts DEF Joined
<1>4. CASE Joined(s) # s
  <2> DEFINE r == waiting[Key(s)]
  <2>1. Joined(s) = r /\ r # NoSock /\ ~room[r].late BY <1>4 DEF Joined
  <2>2. r \in Socks BY <1>1, <2>1 DEF RoomTypeOK
  <2>3. PICK m \in Socks : sock[m].pc = "waiting" /\ sock[m].slot = r /\ Key(m) = Key(s)
    BY <1>1, <2>1 DEF WaitingRight
  <2>4. Role(m) \in Roles /\ Seat(r, Role(m)) = m /\ m # NoSock
    BY <2>3, Ticketed, TicketAssumption DEF HandlerRight, Inside
  <2>5. Key(r) = Key(s) BY <2>2, <2>3, <2>4 DEF SeatsRight
  <2>6. room[r] # NewRoom BY <2>4, NewRoomFacts DEF Seat
  <2>7. sock[r].pc \notin {"new", "accepted"} BY <2>2, <2>6 DEF HandlerRight
  <2>8. ~room[r].ready BY <1>1, <2>1 DEF WaitingRight
  <2> QED BY <2>1, <2>2, <2>3, <2>4, <2>5, <2>7, <2>8
<1> QED BY <1>3, <1>4

LEMMA StepTurnedAway ==
  ASSUME RoomInv, NEW s \in Socks, sock[s].pc = "accepted", NEW r \in Socks, Occupied(s, r), TurnAway(s, r),
         UNCHANGED <<issued, expired, sessions, revoked, connections>>
  PROVE  RoomInv'
<1> USE DEF RoomInv
<1> DEFINE n == [sock[s] EXCEPT !.pc = "busy", !.slot = r]
<1>1. sock[s] \in Sock BY SockFields
<1>2. /\ n \in Sock /\ n.pc = "busy" /\ n.open = sock[s].open /\ n.ticket = sock[s].ticket /\ n.slot = r
      /\ n.partner = sock[s].partner
      /\ sock' = [sock EXCEPT ![s] = n]
  BY <1>1 DEF Sock, PCs, TurnAway
<1> HIDE DEF n
<1>3. sock'[s] = n /\ \A c \in Socks : c # s => sock'[c] = sock[c]
  BY <1>2 DEF RoomTypeOK
<1>4. UNCHANGED <<waiting, room>> BY DEF TurnAway
<1>5. \A q, x : Seat(q, x)' = Seat(q, x) BY <1>4 DEF Seat
<1>6. \A c \in Socks : Role(c)' = Role(c) /\ Key(c)' = Key(c)
  BY <1>2, <1>3 DEF Role, Key
<1>7. sock[s].pc \notin Inside BY DEF Inside
<1>8. Role(s) \in Roles BY Ticketed
<1>9. Seat(r, Role(s)) # s BY <1>7, <1>8, Unseated
<1>10. RoomTypeOK' BY <1>2, <1>4 DEF RoomTypeOK
<1>11. TicketsOnce'
  <2>1. Admitted' = Admitted BY <1>2, <1>3 DEF Admitted
  <2>2. \A c \in Socks : sock'[c].ticket = sock[c].ticket BY <1>2, <1>3
  <2> QED BY <2>1, <2>2 DEF TicketsOnce, Admitted
<1>12. ASSUME NEW c \in Socks PROVE HandlerRight(c)'
  <2>1. HandlerRight(c)
    OBVIOUS
  <2>2. CASE c = s BY <2>1, <2>2, <1>2, <1>3, <1>5, <1>6, <1>9 DEF HandlerRight, Inside
  <2>3. CASE c # s BY <2>1, <2>3, <1>3, <1>4, <1>5, <1>6 DEF HandlerRight
  <2> QED BY <2>2, <2>3
<1>13. ASSUME NEW q \in Socks PROVE SeatsRight(q)'
  <2>1. Empty(q)' <=> Empty(q) BY <1>5 DEF Empty
  <2>2. ASSUME NEW x \in Roles, NEW m, m = Seat(q, x), m # NoSock
        PROVE  sock'[m] = sock[m] /\ Role(m)' = Role(m) /\ Key(m)' = Key(m) /\ Key(q)' = Key(q)
    <3>1. m \in Socks /\ m # s BY <2>2, <1>7, Unseated DEF SeatsRight
    <3> QED BY <3>1, <1>3, <1>6
  <2>3. SeatsRight(q)
    OBVIOUS
  <2> QED BY <2>1, <2>2, <2>3, <1>4, <1>5 DEF SeatsRight
<1>14. WaitingRight'
  <2>1. \A c \in Socks : sock'[c].pc = "waiting" => c # s BY <1>2, <1>3
  <2>2. \A c \in Socks : sock[c].pc = "waiting" => c # s
    OBVIOUS
  <2> QED BY <2>1, <2>2, <1>3, <1>4, <1>6 DEF WaitingRight
<1>15. ASSUME NEW c \in Socks PROVE PartnerRight(c)'
  <2>1. PartnerRight(c) /\ PartnerRight(s)
    OBVIOUS
  <2>2. CASE c = s BY <2>1, <2>2, <1>2, <1>3 DEF PartnerRight
  <2>3. CASE c # s
    <3>1. ASSUME NEW o, o = sock[c].partner, o # NoSock
          PROVE  sock'[o] = sock[o] /\ Role(o)' = Role(o) /\ Key(o)' = Key(o)
      <4>1. o \in Socks BY <3>1 DEF RoomTypeOK, Sock
      <4>2. o # s BY <3>1, <1>7, Unseated
      <4> QED BY <4>1, <4>2, <1>3, <1>6
    <3> QED BY <3>1, <2>1, <2>3, <1>3, <1>4, <1>5, <1>6 DEF PartnerRight
  <2> QED BY <2>2, <2>3
<1>16. PlacesRight'
  <2>1. \A c \in connections : sock'[c].ticket = sock[c].ticket
    BY <1>2, <1>3 DEF RoomTypeOK
  <2> QED BY <2>1, PlacesGivenBack
<1> QED BY <1>10, <1>11, <1>12, <1>13, <1>14, <1>15, <1>16

(* A newcomer takes the empty seat of its role: it opens a room of its own *)
(* or makes the waiting one complete.                                      *)
LEMMA StepEnters ==
  ASSUME RoomInv, NEW s \in Socks, sock[s].pc = "accepted", sock[s].open, NEW r, r = Joined(s), ~Occupied(s, r),
         Enter(s, r), UNCHANGED <<issued, expired, sessions, revoked, connections>>
  PROVE  RoomInv'
<1> USE DEF RoomInv
<1>1. /\ r \in Socks /\ Key(r) = Key(s) /\ ~room[r].ready
      /\ r = s => room[s] = NewRoom /\ (waiting[Key(s)] = NoSock \/ room[waiting[Key(s)]].late)
      /\ r # s => /\ r = waiting[Key(s)] /\ sock[r].pc \notin {"new", "accepted"}
                  /\ \E m \in Socks, x \in Roles : Seat(r, x) = m /\ sock[m].pc = "waiting"
  BY JoinedFacts
<1>2. Role(s) \in Roles /\ Key(s) \in Rooms /\ sock[s] \in Sock /\ s # NoSock
  BY Ticketed, SockFields, TicketAssumption
<1>3. OtherRole(Role(s)) \in Roles /\ OtherRole(Role(s)) # Role(s) /\ \A y \in Roles : y # Role(s) => y = OtherRole(Role(s))
  BY <1>2, RoleFacts
<1>4. Seat(r, Role(s)) = NoSock BY DEF Occupied, Seat
<1> DEFINE n == [sock[s] EXCEPT !.pc = "waiting", !.slot = r]
           pairs == Seat(r, OtherRole(Role(s))) # NoSock
           taken == [room[r] EXCEPT !.members[Role(s)] = s]
           g == [taken EXCEPT !.ready = pairs]
<1>5. /\ n \in Sock /\ n.pc = "waiting" /\ n.open = sock[s].open /\ n.ticket = sock[s].ticket /\ n.slot = r
      /\ n.partner = sock[s].partner
      /\ sock' = [sock EXCEPT ![s] = n]
  BY <1>1, <1>2 DEF Sock, PCs, Enter
<1>6. room[r] \in Room BY <1>1 DEF RoomTypeOK
<1>7. /\ taken \in Room /\ taken.late = room[r].late
      /\ taken.members = [room[r].members EXCEPT ![Role(s)] = s]
  BY <1>2, <1>6 DEF Room
<1>8. taken.members[OtherRole(Role(s))] = Seat(r, OtherRole(Role(s)))
  BY <1>3, <1>6, <1>7 DEF Seat, Room
<1>9. room' = [room EXCEPT ![r] = g] /\ waiting' = [waiting EXCEPT ![Key(s)] = IF pairs THEN NoSock ELSE r]
  BY <1>8 DEF Enter
<1>10. g \in Room /\ g.members = taken.members /\ g.ready = pairs /\ g.late = room[r].late
  <2> HIDE DEF taken
  <2> QED BY <1>7 DEF Room
<1> HIDE DEF n, taken, g
<1>11. sock'[s] = n /\ \A c \in Socks : c # s => sock'[c] = sock[c]
  BY <1>5 DEF RoomTypeOK
<1>12. room'[r] = g /\ \A q \in Socks : q # r => room'[q] = room[q]
  BY <1>1, <1>9 DEF RoomTypeOK
<1>x. PICK x0 : x0 = Role(s)
  OBVIOUS
<1>y. PICK y0 : y0 = OtherRole(x0)
  OBVIOUS
<1>k. PICK k0 : k0 = Key(s)
  OBVIOUS
<1>p. PICK p : p = pairs
  OBVIOUS
<1>13. /\ Seat(r, x0)' = s
       /\ \A x \in Roles : x # x0 => Seat(r, x)' = Seat(r, x)
       /\ \A q \in Socks, x \in Roles : q # r => Seat(q, x)' = Seat(q, x)
  <2>1. room'[r].members = [room[r].members EXCEPT ![x0] = s]
    BY <1>7, <1>10, <1>12, <1>x
  <2>2. DOMAIN room[r].members = Roles BY <1>6 DEF Room
  <2>3. \A x \in Roles : room'[r].members[x] = IF x = x0 THEN s ELSE room[r].members[x]
    BY <2>1, <2>2
  <2>4. \A q \in Socks, x \in Roles : q # r => Seat(q, x)' = Seat(q, x)
    BY <1>12 DEF Seat
  <2>5. \A x \in Roles : Seat(r, x)' = IF x = x0 THEN s ELSE Seat(r, x) BY <2>3 DEF Seat
  <2> QED BY <2>4, <2>5, <1>2, <1>x
<1>14. \A c \in Socks : Role(c)' = Role(c) /\ Key(c)' = Key(c)
  BY <1>5, <1>11 DEF Role, Key
<1>15. RoomTypeOK'
  <2>1. room' \in [Socks -> Room] BY <1>9, <1>10 DEF RoomTypeOK
  <2>2. waiting' \in [Rooms -> Socks \cup {NoSock}] BY <1>1, <1>2, <1>9 DEF RoomTypeOK
  <2> QED BY <2>1, <2>2, <1>5 DEF RoomTypeOK
<1>16. /\ x0 \in Roles /\ y0 \in Roles /\ y0 # x0 /\ OtherRole(x0) = y0 /\ OtherRole(y0) = x0
       /\ \A x \in Roles : x = x0 \/ x = y0
  BY <1>2, <1>x, <1>y, RoleFacts
<1>17. /\ Seat(r, x0) = NoSock /\ Seat(r, y0)' = Seat(r, y0) /\ Seat(r, x0)' = s
       /\ p = (Seat(r, y0) # NoSock) /\ room'[r].ready = p /\ room'[r].late = room[r].late
  BY <1>4, <1>10, <1>12, <1>13, <1>16, <1>x, <1>y, <1>p
<1>18. /\ k0 \in Rooms /\ Key(r) = k0 /\ Key(s) = k0
       /\ waiting'[k0] = (IF p THEN NoSock ELSE r) /\ \A k \in Rooms : k # k0 => waiting'[k] = waiting[k]
  BY <1>1, <1>2, <1>9, <1>k, <1>p DEF RoomTypeOK
<1> HIDE DEF pairs
<1>19. \A c \in Socks : sock[c].pc \in Inside => c # s BY DEF Inside
<1>20. TicketsOnce'
  <2>1. Admitted' = Admitted BY <1>5, <1>11 DEF Admitted
  <2>2. \A c \in Socks : sock'[c].ticket = sock[c].ticket BY <1>5, <1>11
  <2> QED BY <2>1, <2>2 DEF TicketsOnce, Admitted
<1>21. ASSUME NEW c \in Socks PROVE HandlerRight(c)'
  <2>1. HandlerRight(c)
    OBVIOUS
  <2>2. CASE c = s
    <3>1. sock[s].ticket \in issued \ sessions /\ s \in connections
      BY <2>1, <2>2 DEF HandlerRight
    <3>2. Role(s)' = x0 BY <1>14, <1>x
    <3>3. r \in Socks /\ Seat(r, x0)' = s BY <1>1, <1>13
    <3> QED BY <2>2, <3>1, <3>2, <3>3, <1>5, <1>11 DEF HandlerRight
  <2>3. CASE c # s
    <3>1. sock'[c] = sock[c] BY <2>3, <1>11
    <3>2. sock[c].pc \in {"new", "accepted"} => room'[c] = room[c] BY <1>1, <1>12, <2>3
    <3>3. c # NoSock BY TicketAssumption
    <3>4. \A q \in Socks, x \in Roles : Seat(q, x)' = Seat(q, x) \/ (q = r /\ x = x0 /\ Seat(q, x)' = s /\ Seat(q, x) = NoSock)
      BY <1>13, <1>17
    <3>5. sock[c].pc # "new" => Role(c) \in Roles /\ Role(c)' = Role(c)
      BY <1>14, Ticketed
    <3>6. PICK z : z = Role(c)
      OBVIOUS
    <3>7. Role(c)' = z BY <3>6, <1>14
    <3>8. sock[c].pc \in {"woken", "attached"} => sock[c].slot \in Socks /\ room[sock[c].slot].ready
      BY <2>1 DEF HandlerRight, Inside
    <3>9. sock[c].pc \in {"woken", "attached"} => room'[sock[c].slot].ready
      BY <3>8, <1>1, <1>12
    <3>10. sock[c].pc \in Inside => sock[c].slot \in Socks /\ Seat(sock[c].slot, z)' = c
      <4> SUFFICES ASSUME sock[c].pc \in Inside PROVE sock[c].slot \in Socks /\ Seat(sock[c].slot, z)' = c
        OBVIOUS
      <4>1. PICK q \in Socks : q = sock[c].slot BY <2>1 DEF HandlerRight
      <4>2. Seat(q, z) = c /\ z \in Roles
        BY <2>1, <4>1, <3>5, <3>6 DEF HandlerRight, Inside
      <4>3. Seat(q, z)' = c BY <4>2, <3>3, <3>4
      <4> QED BY <4>1, <4>3, <3>1 DEF Seat
    <3>11. sock[c].pc = "busy" => sock[c].slot \in Socks /\ Seat(sock[c].slot, z)' # c
      <4> SUFFICES ASSUME sock[c].pc = "busy" PROVE sock[c].slot \in Socks /\ Seat(sock[c].slot, z)' # c
        OBVIOUS
      <4>1. PICK q \in Socks : q = sock[c].slot BY <2>1 DEF HandlerRight
      <4>2. Seat(q, z) # c /\ z \in Roles BY <2>1, <4>1, <3>5, <3>6 DEF HandlerRight
      <4>3. Seat(q, z)' # c BY <4>2, <2>3, <3>4
      <4> QED BY <4>1, <4>3, <3>1 DEF Seat
    <3>12. sock'[c].pc \in Inside => room'[sock'[c].slot].members[z] = c
      BY <3>10, <3>1 DEF Seat
    <3>13. sock'[c].pc = "busy" => room'[sock'[c].slot].members[z] # c
      BY <3>11, <3>1 DEF Seat
    <3>14. RoleOf[sock'[c].ticket] = z BY <3>7 DEF Role
    <3> QED
      BY <2>1, <3>1, <3>2, <3>9, <3>10, <3>11, <3>12, <3>13, <3>14 DEF HandlerRight, Seat, Role
  <2> QED BY <2>2, <2>3
<1>22. ASSUME NEW q \in Socks PROVE SeatsRight(q)'
  <2>1. SeatsRight(q)
    OBVIOUS
  <2>2. ASSUME q # r PROVE SeatsRight(q)'
    <3>1. Empty(q)' <=> Empty(q) BY <2>2, <1>13 DEF Empty
    <3>2. ASSUME NEW x \in Roles, NEW m, m = Seat(q, x), m # NoSock
          PROVE  sock'[m] = sock[m] /\ Role(m)' = Role(m) /\ Key(m)' = Key(m) /\ Key(q)' = Key(q)
      <4>1. m \in Socks /\ m # s BY <3>2, <2>1, <1>19 DEF SeatsRight
      <4> QED BY <4>1, <1>11, <1>14
    <3>3. room'[q] = room[q] /\ \A x \in Roles : Seat(q, x)' = Seat(q, x) /\ Seat(q, OtherRole(x))' = Seat(q, OtherRole(x))
      BY <2>2, <1>12, <1>13, RoleFacts
    <3> QED BY <2>1, <3>1, <3>2, <3>3 DEF SeatsRight
  <2>3. ASSUME q = r PROVE SeatsRight(q)'
    <3>1. ~Empty(r)' BY <1>2, <1>16, <1>17 DEF Empty
    <3>2. /\ s \in Socks /\ sock'[s].pc = "waiting" /\ sock'[s].slot = r /\ Role(s)' = x0 /\ Key(s)' = Key(r)'
      BY <1>1, <1>5, <1>11, <1>14, <1>x
    <3>3. ASSUME NEW m, m = Seat(r, y0), m # NoSock
          PROVE  /\ m \in Socks /\ sock'[m].pc \in Inside /\ sock'[m].slot = r
                 /\ Role(m)' = y0 /\ Key(m)' = Key(r)' /\ p
      <4>1. m \in Socks /\ sock[m].pc \in Inside /\ sock[m].slot = r /\ Role(m) = y0 /\ Key(m) = Key(r)
        BY <2>1, <2>3, <3>3, <1>16 DEF SeatsRight
      <4>2. sock'[m] = sock[m] BY <4>1, <1>11, <1>19
      <4> QED BY <4>1, <4>2, <3>3, <1>1, <1>14, <1>17
    <3>4. ASSUME NEW x \in Roles, NEW m, m = Seat(r, x)', m # NoSock
          PROVE  /\ m \in Socks /\ sock'[m].pc \in Inside /\ sock'[m].slot = r
                 /\ Role(m)' = x /\ Key(m)' = Key(r)'
                 /\ ~room'[r].ready => Seat(r, OtherRole(x))' = NoSock /\ sock'[m].pc \in {"waiting", "closing"}
                 /\ room'[r].ready /\ Seat(r, OtherRole(x))' = NoSock => ~sock'[m].open
      <4>1. CASE x = x0
        <5>1. m = s BY <4>1, <3>4, <1>17
        <5>2. Seat(r, OtherRole(x))' = Seat(r, y0) BY <4>1, <1>16, <1>17
        <5> QED BY <4>1, <5>1, <5>2, <3>2, <1>17 DEF Inside
      <4>2. CASE x = y0
        <5>1. m = Seat(r, y0) BY <4>2, <3>4, <1>17
        <5>2. Seat(r, OtherRole(x))' = s BY <4>2, <1>16, <1>17
        <5>3. /\ m \in Socks /\ sock'[m].pc \in Inside /\ sock'[m].slot = r
              /\ Role(m)' = y0 /\ Key(m)' = Key(r)' /\ p
          BY <5>1, <3>3, <3>4
        <5> QED BY <4>2, <5>2, <5>3, <1>2, <1>17
      <4> QED BY <4>1, <4>2, <1>16
    <3> QED BY <2>3, <3>1, <3>4 DEF SeatsRight
  <2> QED BY <2>2, <2>3
<1>23. WaitingRight'
  <2>1. ASSUME NEW k \in Rooms, waiting'[k] # NoSock
        PROVE  /\ ~room'[waiting'[k]].ready
               /\ \E c \in Socks : sock'[c].pc = "waiting" /\ sock'[c].slot = waiting'[k] /\ Key(c)' = k
    <3>1. CASE k = k0
      <4>1. ~p /\ waiting'[k] = r BY <3>1, <2>1, <1>18
      <4>2. sock'[s].pc = "waiting" /\ sock'[s].slot = r /\ Key(s)' = k
        BY <3>1, <1>5, <1>11, <1>14, <1>18
      <4> QED BY <4>1, <4>2, <1>17
    <3>2. CASE k # k0
      <4>1. waiting'[k] = waiting[k] BY <3>2, <1>18
      <4>2. PICK w \in Socks : w = waiting[k] BY <2>1, <4>1 DEF RoomTypeOK
      <4>3. ~room[w].ready /\ \E c \in Socks : sock[c].pc = "waiting" /\ sock[c].slot = w /\ Key(c) = k
        BY <2>1, <4>1, <4>2 DEF WaitingRight
      <4>4. PICK c \in Socks : sock[c].pc = "waiting" /\ sock[c].slot = w /\ Key(c) = k
        BY <4>3
      <4>5. Role(c) \in Roles /\ Seat(w, Role(c)) = c /\ c # NoSock
        BY <4>4, Ticketed, TicketAssumption DEF HandlerRight, Inside
      <4>6. Key(c) = Key(w) BY <4>5 DEF SeatsRight
      <4>7. w # r /\ c # s BY <3>2, <4>4, <4>6, <1>18
      <4> QED BY <4>1, <4>2, <4>3, <4>4, <4>7, <1>11, <1>12, <1>14
    <3> QED BY <3>1, <3>2
  <2>2. ASSUME NEW c \in Socks, sock'[c].pc = "waiting", ~room'[sock'[c].slot].ready, ~room'[sock'[c].slot].late
        PROVE  waiting'[Key(c)'] = sock'[c].slot
    <3>1. CASE c = s
      <4>1. sock'[c].slot = r /\ Key(c)' = k0 BY <3>1, <1>5, <1>11, <1>14, <1>18
      <4> QED BY <4>1, <2>2, <1>17, <1>18
    <3>2. CASE c # s
      <4>1. sock'[c] = sock[c] /\ sock[c].pc = "waiting" /\ Key(c)' = Key(c)
        BY <3>2, <2>2, <1>11, <1>14
      <4>2. PICK q \in Socks : q = sock[c].slot BY <4>1 DEF HandlerRight, Inside
      <4>3. Role(c) \in Roles /\ Key(c) \in Rooms /\ Seat(q, Role(c)) = c /\ c # NoSock
        BY <4>1, <4>2, Ticketed, TicketAssumption DEF HandlerRight, Inside
      <4>4. q # r
        <5> SUFFICES ASSUME q = r PROVE FALSE
          OBVIOUS
        <5>1. Role(c) = y0 BY <4>3, <1>16, <1>17
        <5>2. p BY <4>3, <5>1, <1>17
        <5> QED BY <4>1, <4>2, <5>2, <2>2, <1>17
      <4>5. waiting[Key(c)] = q /\ ~room[q].late
        BY <4>1, <4>2, <4>4, <2>2, <1>12 DEF WaitingRight
      <4>6. Key(c) # k0
        <5> SUFFICES ASSUME Key(c) = k0 PROVE FALSE
          OBVIOUS
        <5>1. waiting[Key(s)] = q /\ q # NoSock BY <4>5, <1>k, TicketAssumption
        <5>2. Joined(s) = q BY <5>1, <4>5 DEF Joined
        <5> QED BY <5>2, <4>4
      <4> QED BY <4>1, <4>2, <4>3, <4>5, <4>6, <1>18
    <3> QED BY <3>1, <3>2
  <2> QED BY <2>1, <2>2 DEF WaitingRight
<1>24. ASSUME NEW c \in Socks PROVE PartnerRight(c)'
  <2>1. PartnerRight(c) /\ PartnerRight(s)
    OBVIOUS
  <2>2. CASE c = s BY <2>1, <2>2, <1>5, <1>11 DEF PartnerRight
  <2>3. CASE c # s
    <3>1. ASSUME NEW o, o = sock[c].partner, o # NoSock
          PROVE  sock'[o] = sock[o] /\ Role(o)' = Role(o) /\ Key(o)' = Key(o)
      <4>1. o \in Socks BY <3>1 DEF RoomTypeOK, Sock
      <4>2. o # s BY <3>1, Unseated DEF Inside
      <4> QED BY <4>1, <4>2, <1>11, <1>14
    <3>2. sock[c].partner # NoSock => sock[c].slot \in Socks /\ sock[c].slot # r /\ sock[c].pc # "new"
      BY <2>1, <1>1 DEF PartnerRight, HandlerRight, Inside
    <3>3. PICK q : q = sock[c].slot
      OBVIOUS
    <3>4. PICK z : z = OtherRole(Role(c))
      OBVIOUS
    <3>5. sock[c].partner # NoSock => room'[q] = room[q] /\ z \in Roles /\ Seat(q, z)' = Seat(q, z)
      BY <3>2, <3>3, <3>4, <1>12, <1>13, Ticketed, RoleFacts
    <3>6. sock'[c] = sock[c] /\ Role(c)' = Role(c) /\ Key(c)' = Key(c)
      BY <2>3, <1>11, <1>14
    <3>7. /\ room'[sock'[c].slot].members[OtherRole(RoleOf[sock'[c].ticket])] = Seat(q, z)'
          /\ room'[sock'[c].slot] = room'[q]
      BY <3>3, <3>4, <3>6 DEF Seat, Role
    <3>8. Seat(sock[c].slot, OtherRole(Role(c))) = Seat(q, z) BY <3>3, <3>4
    <3>9. PICK o : o = sock[c].partner
      OBVIOUS
    <3>10. Seat(sock[c].slot, OtherRole(Role(c)))' = Seat(q, z)' BY <3>7 DEF Seat, Role
    <3>11. o # NoSock => Seat(sock[c].slot, OtherRole(Role(c)))' = Seat(sock[c].slot, OtherRole(Role(c)))
      BY <3>5, <3>8, <3>9, <3>10
    <3>12. o # NoSock => sock'[o] = sock[o] /\ Role(o)' = Role(o) /\ Key(o)' = Key(o)
      BY <3>1, <3>9
    <3>13. o # NoSock => room'[sock'[c].slot].ready = room[sock[c].slot].ready
      BY <3>3, <3>5, <3>6, <3>9
    <3>14. o # NoSock =>
             /\ sock[c].pc \in {"attached", "closing"} /\ room[sock[c].slot].ready
             /\ Key(o) = Key(c) /\ Role(o) = OtherRole(Role(c))
             /\ \/ Seat(sock[c].slot, OtherRole(Role(c))) = o
                \/ Seat(sock[c].slot, OtherRole(Role(c))) = NoSock /\ sock[o].pc \in {"leaving", "done"}
      BY <2>1, <3>9 DEF PartnerRight
    <3>15. o # NoSock =>
             /\ sock'[c].pc \in {"attached", "closing"} /\ room'[sock'[c].slot].ready
             /\ Key(o)' = Key(c)' /\ Role(o)' = OtherRole(Role(c)')
             /\ \/ Seat(sock[c].slot, OtherRole(Role(c)))' = o
                \/ Seat(sock[c].slot, OtherRole(Role(c)))' = NoSock /\ sock'[o].pc \in {"leaving", "done"}
      BY <3>6, <3>11, <3>12, <3>13, <3>14
    <3>16. sock'[c].partner = o /\ (sock'[c].pc = "attached" => o # NoSock)
      BY <2>1, <3>6, <3>9 DEF PartnerRight
    <3> QED BY <3>15, <3>16 DEF PartnerRight
  <2> QED BY <2>2, <2>3
<1>25. PlacesRight'
  <2>1. \A c \in connections : sock'[c].ticket = sock[c].ticket
    BY <1>5, <1>11 DEF RoomTypeOK
  <2> QED BY <2>1, PlacesGivenBack
<1> QED BY <1>15, <1>20, <1>21, <1>22, <1>23, <1>24, <1>25

(* A handler turned away leaves its room as it is.                         *)
LEMMA StepFinishesApart ==
  ASSUME RoomInv, NEW s \in Socks, sock[s].pc = "busy", sock' = [sock EXCEPT ![s] = Out(s)],
         connections' = connections \ {s}, UNCHANGED <<issued, expired, sessions, revoked, waiting, room>>
  PROVE  RoomInv'
<1> USE DEF RoomInv
<1> DEFINE n == Out(s)
<1>1. sock[s] \in Sock BY SockFields
<1>2. /\ n \in Sock /\ n.pc = "leaving" /\ n.ticket = sock[s].ticket /\ n.slot = NoSock /\ n.partner = NoSock
      /\ sock' = [sock EXCEPT ![s] = n]
  BY <1>1 DEF Sock, PCs, Out
<1> HIDE DEF n
<1>3. sock'[s] = n /\ \A c \in Socks : c # s => sock'[c] = sock[c]
  BY <1>2 DEF RoomTypeOK
<1>5. \A q, x : Seat(q, x)' = Seat(q, x) BY DEF Seat
<1>6. \A c \in Socks : Role(c)' = Role(c) /\ Key(c)' = Key(c)
  BY <1>2, <1>3 DEF Role, Key
<1>7. sock[s].pc \notin Inside BY DEF Inside
<1>10. RoomTypeOK' BY <1>2 DEF RoomTypeOK
<1>11. TicketsOnce'
  <2>1. Admitted' = Admitted BY <1>2, <1>3 DEF Admitted
  <2>2. \A c \in Socks : sock'[c].ticket = sock[c].ticket BY <1>2, <1>3
  <2> QED BY <2>1, <2>2 DEF TicketsOnce, Admitted
<1>12. ASSUME NEW c \in Socks PROVE HandlerRight(c)'
  <2>1. HandlerRight(c)
    OBVIOUS
  <2>2. CASE c = s BY <2>1, <2>2, <1>2, <1>3 DEF HandlerRight, Inside
  <2>3. CASE c # s BY <2>1, <2>3, <1>3, <1>5, <1>6 DEF HandlerRight
  <2> QED BY <2>2, <2>3
<1>13. ASSUME NEW q \in Socks PROVE SeatsRight(q)'
  <2>1. Empty(q)' <=> Empty(q) BY <1>5 DEF Empty
  <2>2. ASSUME NEW x \in Roles, NEW m, m = Seat(q, x), m # NoSock
        PROVE  sock'[m] = sock[m] /\ Role(m)' = Role(m) /\ Key(m)' = Key(m) /\ Key(q)' = Key(q)
    <3>1. m \in Socks /\ m # s BY <2>2, <1>7, Unseated DEF SeatsRight
    <3> QED BY <3>1, <1>3, <1>6
  <2>3. SeatsRight(q)
    OBVIOUS
  <2> QED BY <2>1, <2>2, <2>3, <1>5 DEF SeatsRight
<1>14. WaitingRight'
  <2>1. \A c \in Socks : sock'[c].pc = "waiting" => c # s BY <1>2, <1>3
  <2>2. \A c \in Socks : sock[c].pc = "waiting" => c # s
    OBVIOUS
  <2> QED BY <2>1, <2>2, <1>3, <1>6 DEF WaitingRight
<1>15. ASSUME NEW c \in Socks PROVE PartnerRight(c)'
  <2>1. PartnerRight(c)
    OBVIOUS
  <2>2. CASE c = s BY <2>2, <1>2, <1>3 DEF PartnerRight
  <2>3. CASE c # s
    <3>1. ASSUME NEW o, o = sock[c].partner, o # NoSock
          PROVE  sock'[o] = sock[o] /\ Role(o)' = Role(o) /\ Key(o)' = Key(o)
      <4>1. o \in Socks BY <3>1 DEF RoomTypeOK, Sock
      <4>2. o # s BY <3>1, <1>7, Unseated
      <4> QED BY <4>1, <4>2, <1>3, <1>6
    <3> QED BY <3>1, <2>1, <2>3, <1>3, <1>5, <1>6 DEF PartnerRight
  <2> QED BY <2>2, <2>3
<1>16. PlacesRight'
  <2>1. \A c \in connections : sock'[c].ticket = sock[c].ticket
    BY <1>2, <1>3 DEF RoomTypeOK
  <2> QED BY <2>1, PlacesGivenBack
<1> QED BY <1>10, <1>11, <1>12, <1>13, <1>14, <1>15, <1>16

(* A handler that ends gives up its seat; whoever has the other one was    *)
(* paired with it and is closed; nobody waits in that room.                *)
LEMMA StepFinishesSeated ==
  ASSUME RoomInv, NEW s \in Socks, sock[s].pc = "closing", Cleared(s),
         UNCHANGED <<issued, expired, sessions, revoked>>
  PROVE  RoomInv'
<1> USE DEF RoomInv
<1>r. PICK r : r = sock[s].slot
  OBVIOUS
<1>x. PICK x0 : x0 = Role(s)
  OBVIOUS
<1>y. PICK y0 : y0 = OtherRole(x0)
  OBVIOUS
<1>k. PICK k0 : k0 = Key(s)
  OBVIOUS
<1>o. PICK other : other = Seat(r, y0)
  OBVIOUS
<1>1. /\ r \in Socks /\ Seat(r, x0) = s /\ x0 \in Roles /\ k0 \in Rooms /\ s # NoSock /\ sock[s] \in Sock
  BY <1>r, <1>x, <1>k, Ticketed, SockFields, TicketAssumption DEF HandlerRight, Inside
<1>2. /\ y0 \in Roles /\ y0 # x0 /\ OtherRole(x0) = y0 /\ OtherRole(y0) = x0 /\ \A x \in Roles : x = x0 \/ x = y0
  BY <1>1, <1>y, RoleFacts
<1>3. /\ connections' = connections \ {s}
      /\ room' = [room EXCEPT ![r] = Left(r, x0)]
      /\ waiting' = WithoutRoom(waiting, k0, r)
      /\ sock' = [c \in Socks |-> CASE c = s -> Out(s)
                                    [] c = other -> [sock[c] EXCEPT !.open = FALSE]
                                    [] OTHER -> sock[c]]
  BY <1>1, <1>2, <1>r, <1>x, <1>k, <1>o DEF Cleared, Seat
<1>4. other # NoSock => /\ other \in Socks /\ sock[other].pc \in Inside /\ sock[other].slot = r /\ Role(other) = y0
                        /\ Key(other) = Key(r) /\ room[r].ready /\ other # s
  BY <1>1, <1>2, <1>o, <1>x DEF SeatsRight
<1>5. \A c \in Socks : sock[c] \in Sock BY SockFields
<1>6. sock'[s].pc = "leaving" /\ sock'[s].slot = NoSock /\ sock'[s].partner = NoSock
      /\ sock'[s].ticket = sock[s].ticket /\ sock'[s] \in Sock /\ sock'[s].open = sock[s].open
  <2>1. PICK n : n = Out(s)
    OBVIOUS
  <2>2. /\ n \in Sock /\ n.pc = "leaving" /\ n.ticket = sock[s].ticket /\ n.slot = NoSock /\ n.partner = NoSock
        /\ n.open = sock[s].open
    BY <2>1, <1>1 DEF Out, Sock, PCs
  <2>3. other # s BY <1>1, <1>4
  <2>4. sock'[s] = n BY <2>1, <2>3, <1>3
  <2> QED BY <2>2, <2>4
<1>7. \A c \in Socks : c # s => /\ sock'[c].pc = sock[c].pc /\ sock'[c].slot = sock[c].slot /\ sock'[c] \in Sock
                                /\ sock'[c].partner = sock[c].partner /\ sock'[c].ticket = sock[c].ticket
                                /\ (sock'[c].open => sock[c].open) /\ (c # other => sock'[c] = sock[c])
                                /\ (c = other => ~sock'[c].open)
  <2> SUFFICES ASSUME NEW c \in Socks, c # s
               PROVE  /\ sock'[c].pc = sock[c].pc /\ sock'[c].slot = sock[c].slot /\ sock'[c] \in Sock
                      /\ sock'[c].partner = sock[c].partner /\ sock'[c].ticket = sock[c].ticket
                      /\ (sock'[c].open => sock[c].open) /\ (c # other => sock'[c] = sock[c])
                      /\ (c = other => ~sock'[c].open)
    OBVIOUS
  <2>1. sock'[c] = IF c = other THEN [sock[c] EXCEPT !.open = FALSE] ELSE sock[c]
    BY <1>3
  <2> QED BY <2>1, <1>5 DEF Sock
<1>8. \A c \in Socks : sock'[c].ticket = sock[c].ticket BY <1>6, <1>7
<1>9. \A c \in Socks : Role(c)' = Role(c) /\ Key(c)' = Key(c) BY <1>8 DEF Role, Key
<1>10. /\ room[r] \in Room /\ DOMAIN room[r].members = Roles
  BY <1>1 DEF RoomTypeOK, Room
<1>11. /\ room'[r] = Left(r, x0) /\ \A q \in Socks : q # r => room'[q] = room[q]
  BY <1>1, <1>3 DEF RoomTypeOK
<1>12. other = NoSock => room'[r] = NewRoom BY <1>2, <1>11, <1>o DEF Left, Seat
<1>13. other # NoSock => /\ room'[r] = [room[r] EXCEPT !.members[x0] = NoSock]
                         /\ room'[r].ready = room[r].ready /\ room'[r].late = room[r].late
                         /\ room'[r].members = [room[r].members EXCEPT ![x0] = NoSock] /\ room'[r] \in Room
  <2> SUFFICES ASSUME other # NoSock
               PROVE  /\ room'[r] = [room[r] EXCEPT !.members[x0] = NoSock]
                      /\ room'[r].ready = room[r].ready /\ room'[r].late = room[r].late
                      /\ room'[r].members = [room[r].members EXCEPT ![x0] = NoSock] /\ room'[r] \in Room
    OBVIOUS
  <2>1. room'[r] = [room[r] EXCEPT !.members[x0] = NoSock]
    BY <1>2, <1>11, <1>o DEF Left, Seat
  <2>2. PICK g : g = [room[r] EXCEPT !.members[x0] = NoSock]
    OBVIOUS
  <2>3. /\ g \in Room /\ g.ready = room[r].ready /\ g.late = room[r].late
        /\ g.members = [room[r].members EXCEPT ![x0] = NoSock]
    BY <2>2, <1>1, <1>10 DEF Room
  <2> QED BY <2>1, <2>2, <2>3
<1>14. /\ Seat(r, x0)' = NoSock /\ Seat(r, y0)' = other
       /\ \A q \in Socks, x \in Roles : q # r => Seat(q, x)' = Seat(q, x)
  <2>1. CASE other = NoSock BY <2>1, <1>1, <1>2, <1>11, <1>12, NewRoomFacts DEF Seat
  <2>2. CASE other # NoSock BY <2>2, <1>1, <1>2, <1>10, <1>11, <1>13, <1>o DEF Seat
  <2> QED BY <2>1, <2>2
<1>15. RoomTypeOK'
  <2>1. Left(r, x0) \in Room BY <1>11, <1>12, <1>13, NewRoomFacts
  <2>2. room' \in [Socks -> Room] BY <2>1, <1>3 DEF RoomTypeOK
  <2>3. waiting' \in [Rooms -> Socks \cup {NoSock}]
    BY <1>1, <1>3 DEF WithoutRoom, RoomTypeOK
  <2>4. sock' \in [Socks -> Sock] BY <1>3, <1>6, <1>7
  <2> QED BY <2>2, <2>3, <2>4, <1>3 DEF RoomTypeOK
<1>16. TicketsOnce'
  <2>1. Admitted' = Admitted BY <1>6, <1>7 DEF Admitted
  <2> QED BY <2>1, <1>8 DEF TicketsOnce, Admitted
(* Who is inside another handler's room has the other seat of it.          *)
<1>17. ASSUME NEW c \in Socks, c # s, sock[c].pc \in Inside, sock[c].slot = r
       PROVE  c = other /\ Role(c) = y0 /\ room[r].ready /\ other # NoSock
  <2>1. Role(c) \in Roles /\ Seat(r, Role(c)) = c /\ c # NoSock
    BY <1>17, Ticketed, TicketAssumption DEF HandlerRight, Inside
  <2>2. Role(c) = y0 BY <2>1, <1>1, <1>2, <1>17
  <2> QED BY <2>1, <2>2, <1>4, <1>o
<1>18. ASSUME NEW c \in Socks PROVE HandlerRight(c)'
  <2>1. HandlerRight(c)
    OBVIOUS
  <2>2. CASE c = s BY <2>1, <2>2, <1>3, <1>6 DEF HandlerRight, Inside
  <2>3. CASE c # s
    <3>1. sock'[c].pc = sock[c].pc /\ sock'[c].slot = sock[c].slot /\ sock'[c].ticket = sock[c].ticket
          /\ (sock'[c].open => sock[c].open)
      BY <2>3, <1>7
    <3>2. sock[c].pc \notin Inside => sock'[c] = sock[c]
      BY <2>3, <1>4, <1>7, TicketAssumption
    <3>3. sock[c].pc \in {"new", "accepted"} => room'[c] = room[c]
      <4>1. sock[c].pc \in {"new", "accepted"} => c # r
        BY <2>1, <1>1, NewRoomFacts DEF HandlerRight, Seat
      <4> QED BY <4>1, <1>11
    <3>4. c # NoSock BY TicketAssumption
    <3>5. PICK z : z = Role(c)
      OBVIOUS
    <3>6. Role(c)' = z /\ (sock[c].pc # "new" => z \in Roles) BY <3>5, <1>9, Ticketed
    <3>7. \A q \in Socks, x \in Roles : Seat(q, x)' = Seat(q, x) \/ (q = r /\ x = x0 /\ Seat(q, x)' = NoSock /\ Seat(q, x) = s)
      BY <1>1, <1>2, <1>14, <1>o
    <3>8. sock[c].pc \in {"woken", "attached"} => room'[sock[c].slot].ready
      BY <2>1, <2>3, <1>11, <1>13, <1>17 DEF HandlerRight, Inside
    <3>9. sock[c].pc \in Inside => sock[c].slot \in Socks /\ Seat(sock[c].slot, z)' = c
      <4> SUFFICES ASSUME sock[c].pc \in Inside PROVE sock[c].slot \in Socks /\ Seat(sock[c].slot, z)' = c
        OBVIOUS
      <4>1. PICK q \in Socks : q = sock[c].slot BY <2>1 DEF HandlerRight
      <4>2. Seat(q, z) = c /\ z \in Roles
        BY <2>1, <4>1, <3>5, <3>6 DEF HandlerRight, Inside
      <4>3. Seat(q, z)' = c BY <4>2, <2>3, <3>7
      <4> QED BY <4>1, <4>3, <3>1 DEF Seat
    <3>10. sock[c].pc = "busy" => sock[c].slot \in Socks /\ Seat(sock[c].slot, z)' # c
      <4> SUFFICES ASSUME sock[c].pc = "busy" PROVE sock[c].slot \in Socks /\ Seat(sock[c].slot, z)' # c
        OBVIOUS
      <4>1. PICK q \in Socks : q = sock[c].slot BY <2>1 DEF HandlerRight
      <4>2. Seat(q, z) # c /\ z \in Roles BY <2>1, <4>1, <3>5, <3>6 DEF HandlerRight
      <4>3. Seat(q, z)' # c BY <4>2, <3>4, <3>7
      <4> QED BY <4>1, <4>3, <3>1 DEF Seat
    <3>11. sock'[c].pc \in Inside => room'[sock'[c].slot].members[z] = c
      BY <3>9, <3>1 DEF Seat
    <3>12. sock'[c].pc = "busy" => room'[sock'[c].slot].members[z] # c
      BY <3>10, <3>1 DEF Seat
    <3>13. RoleOf[sock'[c].ticket] = z BY <3>6 DEF Role
    <3>14. c \in connections' <=> c \in connections BY <2>3, <1>3
    <3>15. sock'[c].pc = "new" => sock'[c] = NewSock
      BY <2>1, <3>1, <3>2 DEF HandlerRight, Inside
    <3> QED
      BY <2>1, <3>1, <3>3, <3>8, <3>9, <3>10, <3>11, <3>12, <3>13, <3>14, <3>15 DEF HandlerRight, Seat, Role
  <2> QED BY <2>2, <2>3
<1>19. ASSUME NEW q \in Socks PROVE SeatsRight(q)'
  <2>1. SeatsRight(q)
    OBVIOUS
  <2>2. ASSUME q # r PROVE SeatsRight(q)'
    <3>1. Empty(q)' <=> Empty(q) BY <2>2, <1>14 DEF Empty
    <3>2. ASSUME NEW x \in Roles, NEW m, m = Seat(q, x), m # NoSock
          PROVE  /\ m \in Socks /\ sock'[m].pc = sock[m].pc /\ sock'[m].slot = sock[m].slot /\ (sock'[m].open => sock[m].open)
                 /\ Role(m)' = Role(m) /\ Key(m)' = Key(m) /\ Key(q)' = Key(q)
      <4>1. m \in Socks /\ m # s BY <3>2, <2>1, <2>2, <1>r DEF SeatsRight
      <4> QED BY <4>1, <1>7, <1>9
    <3>3. room'[q] = room[q] /\ \A x \in Roles : Seat(q, x)' = Seat(q, x) /\ Seat(q, OtherRole(x))' = Seat(q, OtherRole(x))
      BY <2>2, <1>11, <1>14, RoleFacts
    <3> QED BY <2>1, <3>1, <3>2, <3>3 DEF SeatsRight
  <2>3. ASSUME q = r PROVE SeatsRight(q)'
    <3>1. Empty(r)' => room'[r] = NewRoom BY <1>2, <1>12, <1>14 DEF Empty
    <3>2. ASSUME NEW x \in Roles, NEW m, m = Seat(r, x)', m # NoSock
          PROVE  /\ m \in Socks /\ sock'[m].pc \in Inside /\ sock'[m].slot = r
                 /\ Role(m)' = x /\ Key(m)' = Key(r)' /\ room'[r].ready /\ ~sock'[m].open
      <4>1. x = y0 /\ m = other BY <3>2, <1>2, <1>14
      <4>2. Key(r)' = Key(r) /\ Role(m)' = Role(m) /\ Key(m)' = Key(m)
        BY <4>1, <3>2, <1>1, <1>4, <1>9
      <4> QED BY <4>1, <4>2, <3>2, <1>4, <1>7, <1>13
    <3> QED BY <2>3, <3>1, <3>2 DEF SeatsRight
  <2> QED BY <2>2, <2>3
<1>20. \A k \in Rooms : /\ waiting'[k] \in {waiting[k], NoSock}
                        /\ waiting[k] # r => waiting'[k] = waiting[k]
  BY <1>1, <1>3 DEF WithoutRoom, RoomTypeOK
<1>21. WaitingRight'
  <2>1. ASSUME NEW k \in Rooms, waiting'[k] # NoSock
        PROVE  /\ ~room'[waiting'[k]].ready
               /\ \E c \in Socks : sock'[c].pc = "waiting" /\ sock'[c].slot = waiting'[k] /\ Key(c)' = k
    <3>1. waiting'[k] = waiting[k] BY <2>1, <1>20
    <3>2. PICK w \in Socks : w = waiting[k] BY <2>1, <3>1 DEF RoomTypeOK
    <3>3. ~room[w].ready /\ \E c \in Socks : sock[c].pc = "waiting" /\ sock[c].slot = w /\ Key(c) = k
      BY <2>1, <3>1, <3>2 DEF WaitingRight
    <3>4. PICK c \in Socks : sock[c].pc = "waiting" /\ sock[c].slot = w /\ Key(c) = k
      BY <3>3
    <3>5. c # s /\ w # r BY <3>3, <3>4, <1>17 DEF Inside
    <3> QED BY <3>1, <3>2, <3>3, <3>4, <3>5, <1>7, <1>9, <1>11
  <2>2. ASSUME NEW c \in Socks, sock'[c].pc = "waiting", ~room'[sock'[c].slot].ready, ~room'[sock'[c].slot].late
        PROVE  waiting'[Key(c)'] = sock'[c].slot
    <3>1. c # s BY <2>2, <1>6
    <3>2. sock'[c].slot = sock[c].slot /\ sock[c].pc = "waiting" /\ Key(c)' = Key(c)
      BY <3>1, <2>2, <1>7, <1>9
    <3>3. sock[c].slot \in Socks /\ Key(c) \in Rooms
      BY <3>2, Ticketed DEF HandlerRight, Inside
    <3>4. sock[c].slot # r BY <3>1, <3>2, <2>2, <1>13, <1>17 DEF Inside
    <3>5. waiting[Key(c)] = sock[c].slot
      BY <3>2, <3>3, <3>4, <2>2, <1>11 DEF WaitingRight
    <3> QED BY <3>2, <3>3, <3>4, <3>5, <1>20
  <2> QED BY <2>1, <2>2 DEF WaitingRight
<1>22. ASSUME NEW c \in Socks PROVE PartnerRight(c)'
  <2>1. PartnerRight(c)
    OBVIOUS
  <2>2. CASE c = s BY <2>2, <1>6 DEF PartnerRight
  <2>3. CASE c # s
    <3>1. PICK o : o = sock[c].partner
      OBVIOUS
    <3>2. PICK q : q = sock[c].slot
      OBVIOUS
    <3>3. PICK z : z = OtherRole(Role(c))
      OBVIOUS
    <3>4. sock'[c].pc = sock[c].pc /\ sock'[c].slot = q /\ sock'[c].partner = o /\ Role(c)' = Role(c) /\ Key(c)' = Key(c)
      BY <2>3, <3>1, <3>2, <1>7, <1>9
    <3>5. SUFFICES ASSUME o # NoSock
                   PROVE  /\ room'[q].ready /\ Key(o)' = Key(c)' /\ Role(o)' = z
                          /\ Seat(q, z)' = o \/ (Seat(q, z)' = NoSock /\ sock'[o].pc \in {"leaving", "done"})
      <4>1. Seat(sock'[c].slot, OtherRole(RoleOf[sock'[c].ticket])) = Seat(q, z)
        BY <3>3, <3>4 DEF Role
      <4>2. Seat(sock[c].slot, OtherRole(Role(c)))' = Seat(q, z)'
        BY <4>1, <3>3, <3>4 DEF Seat, Role
      <4>3. sock'[c].pc = "attached" => sock'[c].partner # NoSock
        BY <2>1, <3>1, <3>4 DEF PartnerRight
      <4>4. sock'[c].partner # NoSock => sock'[c].pc \in {"attached", "closing"}
        BY <2>1, <3>1, <3>4 DEF PartnerRight
      <4>5. OtherRole(Role(c)') = z BY <3>3, <3>4
      <4> QED BY <3>4, <4>2, <4>3, <4>4, <4>5 DEF PartnerRight
    <3>6. /\ sock[c].pc \in {"attached", "closing"} /\ room[q].ready /\ Key(o) = Key(c) /\ Role(o) = z
          /\ Seat(q, z) = o \/ (Seat(q, z) = NoSock /\ sock[o].pc \in {"leaving", "done"})
      BY <2>1, <3>1, <3>2, <3>3, <3>5 DEF PartnerRight
    <3>7. q \in Socks /\ o \in Socks /\ z \in Roles
      <4>1. sock[c].pc \in Inside /\ sock[c].pc # "new" BY <3>6 DEF Inside
      <4>2. q \in Socks BY <4>1, <3>2 DEF HandlerRight
      <4>3. o \in Socks BY <3>1, <3>5, <1>5 DEF Sock
      <4>4. Role(c) \in Roles BY <4>1, Ticketed
      <4> QED BY <4>2, <4>3, <4>4, <3>3, RoleFacts
    <3>8. room'[q].ready BY <2>3, <3>2, <3>6, <3>7, <1>11, <1>13, <1>17 DEF Inside
    <3>9. Key(o)' = Key(c)' /\ Role(o)' = z BY <3>4, <3>6, <3>7, <1>9
    <3>10. Seat(q, z)' = Seat(q, z) \/ (Seat(q, z)' = NoSock /\ Seat(q, z) = s)
      BY <3>7, <1>1, <1>2, <1>14, <1>o
    <3>11. sock[o].pc \in {"leaving", "done"} => sock'[o].pc \in {"leaving", "done"}
      BY <3>7, <1>6, <1>7
    <3> QED BY <3>6, <3>8, <3>9, <3>10, <3>11, <1>1, <1>6
  <2> QED BY <2>2, <2>3
<1>23. PlacesRight'
  <2>1. \A c \in connections : sock'[c].ticket = sock[c].ticket BY <1>8 DEF RoomTypeOK
  <2>2. connections' \subseteq connections BY <1>3
  <2> QED BY <2>1, <2>2, PlacesGivenBack
<1> QED BY <1>15, <1>16, <1>18, <1>19, <1>21, <1>22, <1>23

LEMMA StepFinishes ==
  ASSUME RoomInv, NEW s \in Socks, Finish(s)
  PROVE  RoomInv'
<1>1. HandlerRight(s) BY DEF RoomInv
<1>2. CASE sock[s].pc = "busy"
  <2>1. sock' = [sock EXCEPT ![s] = Out(s)] /\ connections' = connections \ {s} /\ UNCHANGED <<room, waiting>>
    BY <1>1, <1>2 DEF Finish, Cleared, HandlerRight, Seat
  <2> QED BY <1>2, <2>1, StepFinishesApart DEF Finish
<1>3. CASE sock[s].pc = "closing" BY <1>3, StepFinishesSeated DEF Finish
<1> QED BY <1>2, <1>3 DEF Finish

LEMMA StepStarts ==
  ASSUME RoomInv, NEW s \in Socks, StartRoom(s)
  PROVE  RoomInv'
<1>1. sock[s].pc = "accepted" /\ sock[s].open BY DEF StartRoom
<1>2. PICK r : r = Joined(s)
  OBVIOUS
<1>3. r \in Socks BY <1>1, <1>2, JoinedFacts
<1>4. CASE Occupied(s, r)
  <2>1. TurnAway(s, r) BY <1>2, <1>4 DEF StartRoom
  <2> QED BY <1>1, <1>3, <1>4, <2>1, StepTurnedAway DEF StartRoom
<1>5. CASE ~Occupied(s, r)
  <2>1. Enter(s, r) BY <1>2, <1>5 DEF StartRoom
  <2> QED BY <1>1, <1>2, <1>5, <2>1, StepEnters DEF StartRoom
<1> QED BY <1>4, <1>5

LEMMA RoomStep ==
  RoomInv /\ [RoomNext]_roomVars => RoomInv'
<1> SUFFICES ASSUME RoomInv, [RoomNext]_roomVars PROVE RoomInv'
  OBVIOUS
<1>1. CASE UNCHANGED roomVars
  <2>1. RoomTypeOK' /\ TicketsOnce'
    BY <1>1 DEF RoomInv, RoomTypeOK, TicketsOnce, Admitted, roomVars
  <2> QED BY <1>1, <2>1, StepOutside DEF roomVars
<1>2. ASSUME NEW t \in Tickets, Session(t) \/ TicketExpires(t) PROVE RoomInv'
  BY <1>2, StepTickets
<1>3. ASSUME NEW d \in Devices, WithdrawDevice(d) PROVE RoomInv' BY <1>3, StepWithdraws
<1>4. ASSUME NEW s \in Socks, Connect(s) PROVE RoomInv'
  <2>1. PICK t \in issued : Refuse(s, t) \/ Accept(s, t) BY <1>4 DEF Connect
  <2>2. t \in Tickets BY DEF RoomInv, RoomTypeOK
  <2> QED BY <1>4, <2>1, <2>2, StepTickets, StepAccepts DEF Connect
<1>5. ASSUME NEW s \in Socks, Handler(s) PROVE RoomInv'
  BY <1>5, StepStarts, StepWakes, StepAttaches, StepFinishes, StepGoesOn DEF Handler
<1>6. ASSUME NEW s \in Socks, StreamEnds(s) \/ ReleaseSlot(s) \/ WatchCloses(s) \/ Disconnect(s) PROVE RoomInv'
  BY <1>6, StepGoesOn
<1>7. ASSUME NEW s \in Socks, Deadline(s) PROVE RoomInv' BY <1>7, StepDeadline
<1> QED BY <1>1, <1>2, <1>3, <1>4, <1>5, <1>6, <1>7 DEF RoomNext

LEMMA LimitsHeld == RoomInv => WithinLimits
<1> SUFFICES ASSUME RoomInv PROVE WithinLimits
  OBVIOUS
<1> DEFINE used == {s \in Admitted : sock[s].open /\ sock[s].pc # "leaving"}
<1>1. ASSUME NEW s \in used PROVE s \in connections /\ sock[s].ticket \in Tickets
  <2>1. s \in Socks /\ sock[s].pc # "new" /\ HandlerRight(s) /\ RoomTypeOK
    BY DEF Admitted, RoomInv
  <2> QED BY <2>1, Ticketed DEF HandlerRight
<1>2. IsFiniteSet(connections) /\ Cardinality(connections) <= Limits.global
  BY DEF RoomInv, PlacesRight
<1>3. ASSUME NEW T, Held(T) \in Nat, NEW b \in Nat, Held(T) <= b, NEW B, B \subseteq used, \A c \in B : sock[c].ticket \in T
      PROVE  Cardinality(B) <= b
  <2> DEFINE A == {c \in connections : sock[c].ticket \in T}
  <2>1. B \subseteq A /\ A \subseteq connections BY <1>1, <1>3
  <2>2. IsFiniteSet(A) BY <2>1, <1>2, FS_Subset
  <2>3. IsFiniteSet(B) /\ Cardinality(B) <= Cardinality(A) BY <2>1, <2>2, FS_Subset
  <2>4. Cardinality(B) \in Nat /\ Cardinality(A) \in Nat /\ Cardinality(A) = Held(T)
    BY <2>2, <2>3, FS_CardinalityType DEF Held
  <2> QED BY <2>3, <2>4, <1>3
<1>4. \A T : Held(T) \in Nat
  <2> SUFFICES ASSUME NEW T PROVE Held(T) \in Nat
    OBVIOUS
  <2>1. IsFiniteSet({c \in connections : sock[c].ticket \in T}) BY <1>2, FS_Subset
  <2> QED BY <2>1, FS_CardinalityType DEF Held
<1>5. ASSUME NEW s \in used
      PROVE  /\ Cardinality({c \in used : Key(c).user = Key(s).user}) <= Limits.user
             /\ Cardinality({c \in used : DeviceOf[sock[c].ticket] = DeviceOf[sock[s].ticket]}) <= Limits.device
  <2>1. PICK t \in Tickets : t = sock[s].ticket BY <1>1
  <2>2. Held(SameUser(t)) <= Limits.user /\ Held(SameDevice(t)) <= Limits.device
    BY DEF RoomInv, PlacesRight
  <2>3. Limits.user \in Nat /\ Limits.device \in Nat BY LimitsAssumption
  <2>4. \A c \in {d \in used : Key(d).user = Key(s).user} : sock[c].ticket \in SameUser(t)
    BY <1>1, <2>1 DEF SameUser, Key
  <2>5. \A c \in {d \in used : DeviceOf[sock[d].ticket] = DeviceOf[sock[s].ticket]} : sock[c].ticket \in SameDevice(t)
    BY <1>1, <2>1 DEF SameDevice
  <2> HIDE DEF used
  <2>6. Cardinality({c \in used : Key(c).user = Key(s).user}) <= Limits.user
    BY <2>2, <2>3, <2>4, <1>3, <1>4
  <2>7. Cardinality({c \in used : DeviceOf[sock[c].ticket] = DeviceOf[sock[s].ticket]}) <= Limits.device
    BY <2>2, <2>3, <2>5, <1>3, <1>4
  <2> QED BY <2>6, <2>7
<1> QED BY <1>1, <1>2, <1>5 DEF WithinLimits

LEMMA WaitingHeld == RoomInv => WaitingAlive
<1> SUFFICES ASSUME RoomInv, NEW k \in Rooms, waiting[k] # NoSock
             PROVE  LET r == room[waiting[k]] IN
                    \E s \in Socks : /\ {r.members[x] : x \in Roles} \ {NoSock} = {s}
                                     /\ sock[s].pc = "waiting" /\ sock[s].slot = waiting[k] /\ Key(s) = k
                                     /\ ~r.ready
  BY DEF WaitingAlive
<1>1. PICK w \in Socks : w = waiting[k] BY DEF RoomInv, RoomTypeOK
<1>2. ~room[w].ready /\ \E s \in Socks : sock[s].pc = "waiting" /\ sock[s].slot = w /\ Key(s) = k
  BY <1>1 DEF RoomInv, WaitingRight
<1>3. PICK s \in Socks : sock[s].pc = "waiting" /\ sock[s].slot = w /\ Key(s) = k
  BY <1>2
<1>4. PICK x0 \in Roles : x0 = Role(s) BY <1>3, Ticketed DEF RoomInv
<1>5. Seat(w, x0) = s /\ s # NoSock
  BY <1>3, <1>4, TicketAssumption DEF RoomInv, HandlerRight, Inside
<1>6. Seat(w, OtherRole(x0)) = NoSock BY <1>2, <1>5 DEF RoomInv, SeatsRight
<1>7. \A x \in Roles : x = x0 \/ x = OtherRole(x0) BY <1>4, RoleFacts
<1>8. {room[w].members[x] : x \in Roles} \ {NoSock} = {s}
  BY <1>4, <1>5, <1>6, <1>7 DEF Seat
<1> QED BY <1>1, <1>2, <1>3, <1>8

(* Who forwards has the other seat's handler, or one that is through, as   *)
(* its partner, and that one has no other partner.                         *)
LEMMA PartnerFacts ==
  ASSUME RoomInv, NEW s \in Socks, sock[s].pc = "attached", NEW o, o = sock[s].partner
  PROVE  /\ o \in Socks /\ Key(o) = Key(s) /\ Role(o) = OtherRole(Role(s)) /\ room[sock[s].slot].ready
         /\ \/ sock[o].pc \in Inside /\ sock[o].slot = sock[s].slot
            \/ sock[o].pc \in {"leaving", "done"} /\ ~sock[s].open
         /\ sock[o].partner \in {NoSock, s}
<1> USE DEF RoomInv
<1>1. PICK q \in Socks : q = sock[s].slot BY DEF HandlerRight, Inside
<1>2. PICK x0 \in Roles : x0 = Role(s) BY Ticketed
<1>3. PICK y0 \in Roles : y0 = OtherRole(x0) /\ OtherRole(y0) = x0 BY RoleFacts
<1>4. Seat(q, x0) = s /\ s # NoSock
  BY <1>1, <1>2, TicketAssumption DEF HandlerRight, Inside
<1>5. /\ o # NoSock /\ Key(o) = Key(s) /\ Role(o) = y0 /\ room[q].ready
      /\ Seat(q, y0) = o \/ (Seat(q, y0) = NoSock /\ sock[o].pc \in {"leaving", "done"})
  BY <1>1, <1>2, <1>3 DEF PartnerRight
<1>6. o \in Socks BY <1>5, SockFields DEF Sock
<1>7. CASE Seat(q, y0) = o
  <2>1. sock[o].pc \in Inside /\ sock[o].slot = q BY <1>5, <1>7 DEF SeatsRight
  <2>2. ASSUME NEW p, p = sock[o].partner, p # NoSock PROVE p = s
    BY <2>1, <2>2, <1>3, <1>4, <1>5, <1>6 DEF PartnerRight
  <2> QED BY <2>1, <2>2, <1>1, <1>2, <1>3, <1>5, <1>6
<1>8. CASE Seat(q, y0) = NoSock /\ sock[o].pc \in {"leaving", "done"}
  <2>1. ~sock[s].open BY <1>3, <1>4, <1>5, <1>8 DEF SeatsRight
  <2>2. sock[o].partner = NoSock BY <1>6, <1>8 DEF PartnerRight
  <2> QED BY <2>1, <2>2, <1>1, <1>2, <1>3, <1>5, <1>6, <1>8
<1> QED BY <1>5, <1>7, <1>8

LEMMA ForwardingHeld == RoomInv => ForwardsToItsOwn
<1> SUFFICES ASSUME RoomInv, NEW s \in Socks, sock[s].pc = "attached", NEW o, o = sock[s].partner
             PROVE  /\ Key(o) = Key(s) /\ Role(o) = OtherRole(Role(s))
                    /\ sock[o].pc \notin {"leaving", "done"} => sock[o].slot = sock[s].slot
                    /\ sock[o].partner \in {NoSock, s}
  BY DEF ForwardsToItsOwn
<1> QED BY PartnerFacts

LEMMA NothingLeft == RoomInv => NothingLeftBehind
<1> SUFFICES ASSUME RoomInv, \A c \in Socks : ~GoesOn(c), NEW s \in connections
             PROVE  /\ sock[s].open /\ Active(sock[s].ticket)
                    /\ sock[s].pc = "waiting" => \E k \in Rooms : waiting[k] = sock[s].slot
                    /\ sock[s].pc = "attached" => sock[sock[s].partner].partner = s
  BY DEF NothingLeftBehind
<1>1. s \in Socks /\ RoomTypeOK /\ HandlerRight(s) /\ sock[s].pc \in PCs
  BY SockFields DEF RoomInv, RoomTypeOK, Sock
<1>2. ~GoesOn(s) BY <1>1
<1>3. sock[s].open /\ sock[s].pc \in {"waiting", "attached"} /\ Active(sock[s].ticket)
  BY <1>1, <1>2 DEF GoesOn, HandlerRight, PCs, Watching
<1>4. ASSUME sock[s].pc = "waiting" PROVE \E k \in Rooms : waiting[k] = sock[s].slot
  <2>1. waiting[Key(s)] = sock[s].slot
    BY <1>1, <1>2, <1>4 DEF RoomInv, WaitingRight, GoesOn
  <2> QED BY <2>1, <1>1, <1>4, Ticketed
<1>5. ASSUME sock[s].pc = "attached" PROVE sock[sock[s].partner].partner = s
  <2>1. PICK o : o = sock[s].partner
    OBVIOUS
  <2>2. /\ o \in Socks /\ sock[o].pc \in Inside /\ sock[o].slot = sock[s].slot /\ room[sock[s].slot].ready
        /\ sock[o].partner \in {NoSock, s}
    BY <2>1, <1>1, <1>3, <1>5, PartnerFacts
  <2>3. ~GoesOn(o) BY <2>2
  <2>4. sock[o].pc = "attached" BY <2>2, <2>3 DEF GoesOn, Inside
  <2>5. sock[o].partner # NoSock BY <2>2, <2>4 DEF RoomInv, PartnerRight
  <2> QED BY <2>1, <2>2, <2>5
<1> QED BY <1>3, <1>4, <1>5

LEMMA LateRoomsClosed ==
  RoomInv /\ [RoomNext]_roomVars => \A r \in Socks : room[r].late /\ ~room[r].ready => ~room'[r].ready
<1> SUFFICES ASSUME RoomInv, [RoomNext]_roomVars, NEW r \in Socks, room[r].late, ~room[r].ready
             PROVE  ~room'[r].ready
  OBVIOUS
<1> USE DEF RoomInv
<1>1. CASE UNCHANGED room BY <1>1
<1>2. ASSUME NEW s \in Socks, StartRoom(s) PROVE ~room'[r].ready
  <2>1. PICK q : q = Joined(s)
    OBVIOUS
  <2>2. CASE Occupied(s, q) BY <2>1, <2>2, <1>2 DEF StartRoom, TurnAway
  <2>3. CASE ~Occupied(s, q)
    <3>1. ~room[q].late
      <4>1. CASE q = s BY <4>1, <1>2, NewRoomFacts DEF HandlerRight, StartRoom
      <4>2. CASE q # s BY <4>2, <2>1 DEF Joined
      <4> QED BY <4>1, <4>2
    <3>2. Enter(s, q) BY <2>1, <2>3, <1>2 DEF StartRoom
    <3>3. \A p \in Socks : p # q => room'[p] = room[p] BY <3>2 DEF Enter, RoomTypeOK
    <3> QED BY <3>1, <3>3
  <2> QED BY <2>2, <2>3
<1>3. ASSUME NEW s \in Socks, Finish(s) PROVE ~room'[r].ready
  <2>1. PICK q : q = sock[s].slot
    OBVIOUS
  <2>2. PICK x : x = Role(s)
    OBVIOUS
  <2>3. UNCHANGED room \/ room' = [room EXCEPT ![q] = Left(q, x)]
    BY <2>1, <2>2, <1>3 DEF Finish, Cleared
  <2>4. r = q => ~Left(q, x).ready BY NewRoomFacts DEF Left, RoomTypeOK, Room
  <2> QED BY <2>3, <2>4 DEF RoomTypeOK
<1>4. ASSUME NEW q \in Socks, Deadline(q) PROVE ~room'[r].ready
  BY <1>4 DEF Deadline, RoomTypeOK, Room
<1>5. ASSUME NEW s \in Socks, Wake(s) \/ Attach(s) \/ CloseOwn(s) \/ Connect(s) \/ StreamEnds(s) \/ ReleaseSlot(s)
                              \/ WatchCloses(s) \/ Disconnect(s)
      PROVE  UNCHANGED room
  BY <1>5 DEF Wake, Attach, CloseOwn, Connect, Refuse, Accept, StreamEnds, ReleaseSlot, WatchCloses, Disconnect
<1>6. ASSUME NEW t \in Tickets, Session(t) \/ TicketExpires(t) PROVE UNCHANGED room
  BY <1>6 DEF Session, TicketExpires
<1>7. ASSUME NEW d \in Devices, WithdrawDevice(d) PROVE UNCHANGED room
  BY <1>7 DEF WithdrawDevice
<1> QED BY <1>1, <1>2, <1>3, <1>4, <1>5, <1>6, <1>7 DEF RoomNext, Handler, roomVars

(* What the relay guarantees: admissions within the limits, rooms that can *)
(* be joined as long as they wait and no longer, frames that stay in their *)
(* room, and nothing left behind in a place or a room once the loop has    *)
(* nothing more to do (relay.py), for any tickets, connections and limits. *)
THEOREM RoomsKept == RoomSpec => RoomsSafe
<1>1. RoomInit => RoomInv BY RoomsInitially
<1>2. RoomInv /\ [RoomNext]_roomVars => RoomInv' BY RoomStep
<1>3. RoomInv => /\ RoomTypeOK
                 /\ TicketsOnce
                 /\ WithinLimits
                 /\ WaitingAlive
                 /\ ForwardsToItsOwn
                 /\ NothingLeftBehind
  BY LimitsHeld, WaitingHeld, ForwardingHeld, NothingLeft DEF RoomInv
<1>4. RoomInv /\ [RoomNext]_roomVars
        => [\A r \in Socks : room[r].late /\ ~room[r].ready => ~room'[r].ready]_roomVars
  BY LateRoomsClosed
<1> QED BY <1>1, <1>2, <1>3, <1>4, PTL DEF RoomSpec, RoomsSafe, LateRoomsStayClosed
=============================================================================
