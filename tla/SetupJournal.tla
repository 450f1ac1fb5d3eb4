--------------------------- MODULE SetupJournal ---------------------------
(***************************************************************************)
(* Guided setup of a device (session_peer_relay/setup.py): commands that   *)
(* each do one thing under a lock, a private journal in which a command    *)
(* records what it is about to do before it does it, and the things done:  *)
(* an identity, an enrollment at the control service, a receiver policy,   *)
(* pairing offers, invitation files and a pairing.                         *)
(*                                                                         *)
(* A command may end at any step, killed, interrupted or by an error that  *)
(* decides nothing; its lock goes with it and its effects stay.  A save of *)
(* the journal replaces the file, so it happens or it does not.  A command *)
(* that is refused before it changes anything is no step.                  *)
(***************************************************************************)
EXTENDS Integers, FiniteSets

CONSTANTS
  Runs,         \* invocations that may run at a time
  MaxOffers,    \* bound: offers ever attempted, each with its own new id
  MaxInvites,   \* bound: invitation files ever attempted
  MaxIdentities,\* bound: identities ever generated
  Intents,      \* an origin and a name to enroll with
  Policies,     \* policies an operator may approve or write
  Invitations   \* invitation files a client may be given

(* "unset" stands for what was never given; 0 for no run.                   *)
ASSUME SetupAssumption == /\ MaxOffers \in Nat /\ MaxInvites \in Nat /\ MaxIdentities \in Nat
                          /\ "unset" \notin Intents \cup Policies \cup Invitations /\ 0 \notin Runs

VARIABLES
  files,     \* the identity whose key, certificate and database are there
  traces,    \* something else is in the directory
  generated, \* identities generated so far
  setupLock, \* the run that holds setup.lock, 0: none
  idLock,    \* the run that holds identity.lock, 0: none
  journal,   \* setup.json
  offerRow,  \* each offer in the store
  offersTried,
  shownLinks,\* offers whose link was shown and whose command said so
  minted,    \* invitations in the store
  savedInvites, \* those whose file was published
  policyFile,
  enrollSent,\* what was sent to the control service
  enrolled,  \* and what it has committed
  peerState, \* the receiver, in the client's store
  pairTried, \* invitations a pairing was attempted with
  run        \* each invocation

setupVars == <<files, traces, generated, setupLock, idLock, journal, offerRow, offersTried, shownLinks,
               minted, savedInvites, policyFile, enrollSent, enrolled, peerState, pairTried, run>>
identityVars == <<files, traces, generated, idLock>>
offerVars == <<offerRow, offersTried, shownLinks>>
inviteVars == <<minted, savedInvites>>
enrollVars == <<enrollSent, enrolled>>
pairVars == <<peerState, pairTried>>

NoJournal == [identity |-> 0, offer |-> "none", offerId |-> 0, enroll |-> "none", intent |-> "unset", op |-> 0,
              invite |-> "none", pair |-> "unset", paired |-> "none"]
NoRun == [pc |-> "idle", id |-> 0, what |-> "unset"]
Ended == {"consumed", "cancelled", "expired"}

SetupInit ==
  /\ files = [key |-> 0, cert |-> 0, db |-> 0] /\ traces = FALSE /\ generated = 0
  /\ setupLock = 0 /\ idLock = 0 /\ journal = NoJournal
  /\ offerRow = [o \in 1 .. MaxOffers |-> "none"] /\ offersTried = 0 /\ shownLinks = {}
  /\ minted = 0 /\ savedInvites = 0 /\ policyFile = "unset" /\ enrollSent = {} /\ enrolled = {}
  /\ peerState = "unknown" /\ pairTried = {} /\ run = [p \in Runs |-> NoRun]

In(p, pc) == run[p].pc = pc
Step(p, pc) == run' = [run EXCEPT ![p].pc = pc]
(* The run is over and lets go of its locks.                               *)
Over(p) == /\ run' = [run EXCEPT ![p] = NoRun]
           /\ setupLock' = IF setupLock = p THEN 0 ELSE setupLock
Present == {f \in {"key", "cert", "db"} : files[f] # 0}

-----------------------------------------------------------------------------
(* Initialisation.  The state is looked at, and the store opened, before    *)
(* setup.lock is taken.                                                     *)

Fresh == Present = {} /\ ~traces
Whole == Present = {"key", "cert", "db"}
InitChecks(p) ==
  /\ In(p, "idle") /\ (Fresh \/ Whole)
  /\ Step(p, "identity")
  /\ UNCHANGED <<files, traces, generated, setupLock, idLock, journal, offerVars, inviteVars, policyFile, enrollVars, pairVars>>
(* initialize: half an identity is an error, a whole one is loaded, and     *)
(* none is generated, all under identity.lock.                              *)
TakesIdentityLock(p) ==
  /\ In(p, "identity") /\ idLock = 0 /\ traces' = TRUE
  /\ IF files.key = 0 /\ files.cert = 0
     THEN /\ generated < MaxIdentities /\ generated' = generated + 1
          /\ files' = [files EXCEPT !.key = generated + 1] /\ idLock' = p /\ Step(p, "certificate")
          /\ UNCHANGED setupLock
     ELSE /\ IF files.key # 0 /\ files.key = files.cert THEN Step(p, "open") /\ UNCHANGED setupLock ELSE Over(p)
          /\ UNCHANGED <<files, generated, idLock>>
  /\ UNCHANGED <<journal, offerVars, inviteVars, policyFile, enrollVars, pairVars>>
WritesCertificate(p) ==
  /\ In(p, "certificate")
  /\ files' = [files EXCEPT !.cert = files.key] /\ idLock' = 0 /\ Step(p, "open")
  /\ UNCHANGED <<traces, generated, setupLock, journal, offerVars, inviteVars, policyFile, enrollVars, pairVars>>
OpensStore(p) ==
  /\ In(p, "open") /\ files' = [files EXCEPT !.db = IF @ = 0 THEN files.cert ELSE @] /\ Step(p, "initialised")
  /\ UNCHANGED <<traces, generated, idLock, setupLock, journal, offerVars, inviteVars, policyFile, enrollVars, pairVars>>
(* Workflow.attach and the journal, under setup.lock.                       *)
Attached == journal.identity \in {0, files.db}
SavesInit(p) ==
  /\ In(p, "initialised")
  /\ journal' = IF setupLock = 0 /\ Attached THEN [journal EXCEPT !.identity = files.db] ELSE journal
  /\ Over(p)
  /\ UNCHANGED <<identityVars, offerVars, inviteVars, policyFile, enrollVars, pairVars>>

-----------------------------------------------------------------------------
(* Every other command: setup.lock without waiting, the whole state, the    *)
(* identity of the journal.                                                 *)
TakesLockMutant(p) == TRUE
TakesLock(p) == setupLock = 0
Starts(p, pc, id, what) ==
  /\ In(p, "idle") /\ TakesLock(p) /\ Whole /\ Attached
  /\ setupLock' = p /\ run' = [run EXCEPT ![p] = [pc |-> pc, id |-> id, what |-> what]]
Saves(j) == journal' = [j EXCEPT !.identity = files.db]

(* offer: the id is in the journal before the store is asked, and only a    *)
(* definite refusal says that no offer has it.                              *)
OfferStarts(p) ==
  /\ journal.offer # "pending" /\ offersTried < MaxOffers /\ offersTried' = offersTried + 1
  /\ Starts(p, "pend", offersTried + 1, "unset")
  /\ UNCHANGED <<identityVars, journal, offerRow, shownLinks, inviteVars, policyFile, enrollVars, pairVars>>
PendsOffer(p) ==
  /\ In(p, "pend") /\ Saves([journal EXCEPT !.offer = "pending", !.offerId = run[p].id]) /\ Step(p, "create")
  /\ UNCHANGED <<identityVars, setupLock, offerVars, inviteVars, policyFile, enrollVars, pairVars>>
CreatesOffer(p, accepted) ==
  /\ In(p, "create")
  /\ IF accepted THEN offerRow' = [offerRow EXCEPT ![run[p].id] = "open"] /\ Step(p, "show")
     ELSE Step(p, "record") /\ UNCHANGED offerRow
  /\ UNCHANGED <<identityVars, setupLock, journal, offersTried, shownLinks, inviteVars, policyFile, enrollVars, pairVars>>
NotCreated(p) ==
  /\ In(p, "record") /\ run[p].what = "unset" /\ Saves([journal EXCEPT !.offer = "not_created"]) /\ Over(p)
  /\ UNCHANGED <<identityVars, offerVars, inviteVars, policyFile, enrollVars, pairVars>>
(* The link is on the terminal; then the journal says so.                   *)
ShowsLink(p) ==
  /\ In(p, "show") /\ shownLinks' = shownLinks \cup {run[p].id}
  /\ run' = [run EXCEPT ![p].pc = "record", ![p].what = "complete"]
  /\ UNCHANGED <<identityVars, setupLock, journal, offerRow, offersTried, inviteVars, policyFile, enrollVars, pairVars>>

(* offer-status and offer-cancel, of the journal's offer or another.        *)
ReconcilesOffer(p, o, cancels) ==
  LET known == offerRow[o] \notin {"none", "pruned"}
      status == IF cancels /\ offerRow[o] = "open" THEN "cancelled" ELSE offerRow[o]
      records == IF known THEN status ELSE IF cancels THEN "stopped_unknown" ELSE "open"
      again == ~known /\ journal.offer = "not_created"
  IN /\ known \/ o = journal.offerId
     /\ offerRow' = IF known THEN [offerRow EXCEPT ![o] = status] ELSE offerRow
     /\ ~again
     /\ IF o = journal.offerId /\ records # "open" THEN Starts(p, "record", o, records)
        ELSE In(p, "idle") /\ TakesLock(p) /\ Whole /\ Attached /\ UNCHANGED <<run, setupLock>>
     /\ UNCHANGED <<identityVars, journal, offersTried, shownLinks, inviteVars, policyFile, enrollVars, pairVars>>
RecordsOffer(p) ==
  /\ In(p, "record") /\ run[p].what # "unset" /\ Saves([journal EXCEPT !.offer = run[p].what]) /\ Over(p)
  /\ UNCHANGED <<identityVars, offerVars, inviteVars, policyFile, enrollVars, pairVars>>
(* The rest of an offer's life.                                             *)
OfferMoves(o, to) ==
  /\ \/ offerRow[o] = "open" /\ to \in {"consumed", "expired"}
     \/ offerRow[o] \in Ended /\ to = "pruned"
  /\ offerRow' = [offerRow EXCEPT ![o] = to]
  /\ UNCHANGED <<identityVars, setupLock, journal, offersTried, shownLinks, inviteVars, policyFile, enrollVars, pairVars, run>>

-----------------------------------------------------------------------------
(* enroll: one operation, prepared, then unknown, then sent.                *)
EnrollStarts(p, i) ==
  /\ journal.intent \in {"unset", i} /\ journal.enroll # "committed"
  /\ Starts(p, IF journal.enroll = "none" THEN "prepare" ELSE "doubt", 0, i)
  /\ UNCHANGED <<identityVars, journal, offerVars, inviteVars, policyFile, enrollVars, pairVars>>
Prepares(p) ==
  /\ In(p, "prepare")
  /\ Saves([journal EXCEPT !.enroll = "prepared", !.intent = run[p].what, !.op = Cardinality(enrollSent) + 1])
  /\ Step(p, "doubt")
  /\ UNCHANGED <<identityVars, setupLock, offerVars, inviteVars, policyFile, enrollVars, pairVars>>
DoubtsEnrollment(p) ==
  /\ In(p, "doubt") /\ Saves([journal EXCEPT !.enroll = "unknown"]) /\ Step(p, "enrol")
  /\ UNCHANGED <<identityVars, setupLock, offerVars, inviteVars, policyFile, enrollVars, pairVars>>
SendsEnrollment(p) ==
  /\ In(p, "enrol")
  /\ enrollSent' = enrollSent \cup {[op |-> journal.op, intent |-> journal.intent, identity |-> files.db]}
  /\ Step(p, "receipt")
  /\ UNCHANGED <<identityVars, setupLock, journal, offerVars, inviteVars, policyFile, enrolled, pairVars>>
ServiceEnrols(e) ==
  /\ e \notin enrolled /\ enrolled' = enrolled \cup {e}
  /\ UNCHANGED <<identityVars, setupLock, journal, offerVars, inviteVars, policyFile, enrollSent, pairVars, run>>
KeepsReceipt(p) ==
  /\ In(p, "receipt") /\ \E e \in enrolled : e.op = journal.op
  /\ Saves([journal EXCEPT !.enroll = "committed"]) /\ Over(p)
  /\ UNCHANGED <<identityVars, offerVars, inviteVars, policyFile, enrollVars, pairVars>>

-----------------------------------------------------------------------------
(* policy: seen to be absent or the same, then published only if absent.    *)
PolicyStarts(p, v) ==
  /\ policyFile \in {"unset", v} /\ Starts(p, "publish", 0, v)
  /\ UNCHANGED <<identityVars, journal, offerVars, inviteVars, policyFile, enrollVars, pairVars>>
Publishes(p) == IF policyFile = "unset" THEN run[p].what ELSE policyFile
PublishesPolicy(p) ==
  /\ In(p, "publish") /\ policyFile' = Publishes(p) /\ Over(p)
  /\ UNCHANGED <<identityVars, journal, offerVars, inviteVars, enrollVars, pairVars>>
OperatorWritesPolicy(v) ==
  /\ policyFile = "unset" /\ policyFile' = v
  /\ UNCHANGED <<identityVars, setupLock, journal, offerVars, inviteVars, enrollVars, pairVars, run>>

(* invite: a pending invitation is never followed by another.               *)
InviteStarts(p) ==
  /\ journal.invite # "pending" /\ minted < MaxInvites /\ Starts(p, "promise", 0, "unset")
  /\ UNCHANGED <<identityVars, journal, offerVars, inviteVars, policyFile, enrollVars, pairVars>>
PendsInvite(p) ==
  /\ In(p, "promise") /\ Saves([journal EXCEPT !.invite = "pending"]) /\ Step(p, "mint")
  /\ UNCHANGED <<identityVars, setupLock, offerVars, inviteVars, policyFile, enrollVars, pairVars>>
Mints(p) ==
  /\ In(p, "mint") /\ minted' = minted + 1 /\ Step(p, "deliver")
  /\ UNCHANGED <<identityVars, setupLock, journal, offerVars, savedInvites, policyFile, enrollVars, pairVars>>
SavesInvite(p) ==
  /\ In(p, "deliver") /\ savedInvites' = savedInvites + 1 /\ Step(p, "delivered")
  /\ UNCHANGED <<identityVars, setupLock, journal, offerVars, minted, policyFile, enrollVars, pairVars>>
CompletesInvite(p) ==
  /\ In(p, "delivered") /\ Saves([journal EXCEPT !.invite = "complete"]) /\ Over(p)
  /\ UNCHANGED <<identityVars, offerVars, inviteVars, policyFile, enrollVars, pairVars>>

(* pair with an invitation file: the first one entered is the only one.     *)
PairStarts(p, v) ==
  /\ journal.pair \in {"unset", v} /\ peerState # "revoked" /\ Starts(p, "intend", 0, v)
  /\ UNCHANGED <<identityVars, journal, offerVars, inviteVars, policyFile, enrollVars, pairVars>>
IntendsPair(p) ==
  /\ In(p, "intend") /\ Saves([journal EXCEPT !.pair = run[p].what, !.paired = "pending"])
  /\ Step(p, IF peerState = "paired" THEN "trusted" ELSE "pair")
  /\ UNCHANGED <<identityVars, setupLock, offerVars, inviteVars, policyFile, enrollVars, pairVars>>
(* pair() of the client; it may pair and still fail to say so.              *)
Pairs(p, ok, told) ==
  /\ In(p, "pair") /\ pairTried' = pairTried \cup {run[p].what} /\ (told => ok)
  /\ peerState' = IF ok THEN "paired" ELSE peerState
  /\ IF told THEN Step(p, "trusted") /\ UNCHANGED setupLock ELSE Over(p)
  /\ UNCHANGED <<identityVars, journal, offerVars, inviteVars, policyFile, enrollVars>>
CompletesPair(p) ==
  /\ In(p, "trusted") /\ Saves([journal EXCEPT !.paired = "complete"]) /\ Over(p)
  /\ UNCHANGED <<identityVars, offerVars, inviteVars, policyFile, enrollVars, pairVars>>
RevokesPeer ==
  /\ peerState = "paired" /\ peerState' = "revoked"
  /\ UNCHANGED <<identityVars, setupLock, journal, offerVars, inviteVars, policyFile, enrollVars, pairTried, run>>

-----------------------------------------------------------------------------
Killed(p) ==
  /\ ~In(p, "idle") /\ Over(p) /\ idLock' = IF idLock = p THEN 0 ELSE idLock
  /\ UNCHANGED <<files, traces, generated, journal, offerVars, inviteVars, policyFile, enrollVars, pairVars>>
(* The operator loses a file while nothing runs.                            *)
LosesFile(f) ==
  /\ files[f] # 0 /\ files' = [files EXCEPT ![f] = 0]
  /\ \A p \in Runs : In(p, "idle")
  /\ UNCHANGED <<traces, generated, setupLock, idLock, journal, offerVars, inviteVars, policyFile, enrollVars, pairVars, run>>

RunInit(p) == InitChecks(p) \/ TakesIdentityLock(p) \/ WritesCertificate(p) \/ OpensStore(p) \/ SavesInit(p)
RunOffer(p) ==
  \/ OfferStarts(p) \/ PendsOffer(p) \/ \E ok \in BOOLEAN : CreatesOffer(p, ok)
  \/ NotCreated(p) \/ ShowsLink(p) \/ RecordsOffer(p)
  \/ \E o \in 1 .. offersTried, cancels \in BOOLEAN : ReconcilesOffer(p, o, cancels)
RunEnroll(p) ==
  \/ \E i \in Intents : EnrollStarts(p, i)
  \/ Prepares(p) \/ DoubtsEnrollment(p) \/ SendsEnrollment(p) \/ KeepsReceipt(p)
RunPolicy(p) == (\E v \in Policies : PolicyStarts(p, v)) \/ PublishesPolicy(p)
RunInvite(p) == InviteStarts(p) \/ PendsInvite(p) \/ Mints(p) \/ SavesInvite(p) \/ CompletesInvite(p)
RunPair(p) ==
  \/ \E v \in Invitations : PairStarts(p, v)
  \/ IntendsPair(p) \/ CompletesPair(p) \/ \E ok, told \in BOOLEAN : Pairs(p, ok, told)
SetupNext ==
  \/ \E p \in Runs : \/ RunInit(p) \/ RunOffer(p) \/ RunEnroll(p) \/ RunPolicy(p) \/ RunInvite(p) \/ RunPair(p)
                     \/ Killed(p)
  \/ \E o \in 1 .. MaxOffers, to \in Ended \cup {"pruned"} : OfferMoves(o, to)
  \/ \E e \in enrollSent : ServiceEnrols(e)
  \/ \E v \in Policies : OperatorWritesPolicy(v)
  \/ RevokesPeer
  \/ \E f \in {"key", "cert", "db"} : LosesFile(f)
SetupSpec == SetupInit /\ [][SetupNext]_setupVars

-----------------------------------------------------------------------------
(* An offer that can still pair somebody was shown, or it is the journal's  *)
(* and pending, so that no other can be made before its fate is known.      *)
OffersAccounted ==
  \A o \in 1 .. MaxOffers : offerRow[o] = "open" => o \in shownLinks \/ (journal.offerId = o /\ journal.offer = "pending")
(* What the journal says became of its offer is so, and stays so.           *)
JournalTrue ==
  journal.offerId # 0 =>
    /\ journal.offer = "not_created" => offerRow[journal.offerId] = "none"
    /\ journal.offer = "stopped_unknown" => offerRow[journal.offerId] \in {"none", "pruned"}
    /\ journal.offer \in Ended => offerRow[journal.offerId] \in {journal.offer, "pruned"}
    /\ journal.offer = "complete" => journal.offerId \in shownLinks
(* However often it is interrupted and repeated, one enrollment is asked    *)
(* for, with one intent and identity, and "committed" is what happened.     *)
EnrolledOnce ==
  /\ Cardinality(enrollSent) <= 1
  /\ journal.enroll = "committed" => \E e \in enrolled : e.op = journal.op /\ e.intent = journal.intent
(* At most one secret is lost between the store and its file; pairing is    *)
(* tried with one invitation; no lost file is answered by a new identity,   *)
(* and the journal belongs to the identity there is.                        *)
NothingTwice ==
  /\ minted <= savedInvites + 1
  /\ Cardinality(pairTried) <= 1 /\ (journal.paired = "complete" => peerState \in {"paired", "revoked"})
  /\ generated <= 1 /\ journal.identity \in {0, 1}
(* A policy that is there is never replaced.                                *)
PolicyKept == [][policyFile # "unset" => policyFile' = policyFile]_policyFile

(* Guided setup, stopped anywhere and run again, or twice at a time, does   *)
(* nothing twice, keeps what was there and never says what is not so.       *)
SetupSafe == [](OffersAccounted /\ JournalTrue /\ EnrolledOnce /\ NothingTwice) /\ PolicyKept
=============================================================================
