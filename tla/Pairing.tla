------------------------------ MODULE Pairing ------------------------------
(***************************************************************************)
(* Pairing of client devices with one receiving device (store.Store's      *)
(* invitations, offers, reservations and peers; app.pair and finish_pair). *)
(* An invitation is a private file, which any client that is given it may  *)
(* use, or a link, which its offer binds to one client's current key.      *)
(*                                                                         *)
(* The receiver handles one request at a time and every pairing operation  *)
(* of a device is one SQLite transaction, which first retires what has     *)
(* expired and keeps that also when the operation itself is refused.       *)
(* Between a client's own transactions and its two network requests        *)
(* anything may happen.  Keys are first-generation ones: a device's        *)
(* principal is its key.  Rate limits and capacities are refusals that may *)
(* come at any time.                                                       *)
(* Definitions named ...Mutant are deliberately wrong forms of the next    *)
(* one, used only to show that a property notices the mistake.             *)
(***************************************************************************)
EXTENDS Naturals, FiniteSets

CONSTANTS
  Clients,     \* client devices
  Files,       \* ids of invitations in private files
  Links,       \* ids of invitations in links, which have an offer
  Procs,       \* invocations of `device pair`
  Faults,      \* what may happen besides
  None         \* no value

Invites == Files \cup Links
AllFaults == {"loss", "crash", "cancel", "revoke", "week"}

ASSUME FilesAreNoLinks == Files \cap Links = {}
ASSUME FaultsAssumption == Faults \subseteq AllFaults

(* A reservation says which rows it created, and may delete.               *)
Reservation == [inv : Invites, createdPeer : BOOLEAN, createdKey : BOOLEAN]
ASSUME NoneAssumption == None \notin Clients \cup Invites \cup Reservation

VARIABLES
  db,          \* the receiver's store
  past,        \* invitations past their expiry, by the receiver's clock
  old,         \* offers that ended more than a week ago
  cl,          \* each client's store, as far as it is about the receiver
  clientPast,  \* invitations past their expiry, by the clients' clock
  proc,        \* the clients' `device pair` commands
  strays,      \* requests whose client gave up waiting, still on their way
  issued,      \* the client each link was made for, once it was
  winners,     \* history: the clients each invitation paired
  anchors      \* history: clients whose keys no pairing's end may remove

vars == <<db, past, old, cl, clientPast, proc, strays, issued, winners, anchors>>

OfferStates == {"none", "open", "reserved", "consumed", "cancelled", "expired"}
(* `client` is the offer's; `spent` is an expiry of 0.                     *)
Invite == [present : BOOLEAN, spent : BOOLEAN, peer : Clients \cup {None},
           client : Clients \cup {None}, offer : OfferStates]
(* `by` is the invitation a pending peer's expiry comes from.              *)
Peer == [status : {"pending"}, by : Invites] \cup [status : {"absent", "paired"}, by : {None}]
          \cup [status : {"revoked"}, by : Invites \cup {None}]
Keys == {"absent", "active", "revoked"}
Database == [inv : [Invites -> Invite], peer : [Clients -> Peer], key : [Clients -> Keys],
             res : [Clients -> Reservation \cup {None}]]
ClientStore == [peer : Peer, key : Keys, res : Reservation \cup {None}, intents : SUBSET Links]

(* `saved` says that the intent was there before this command.             *)
PCs == {"idle", "intent", "look", "try", "trying", "tryRemember", "stage", "send", "preparing",
        "refused", "finish", "finishing", "remember"}
Process == [pc : PCs, client : Clients \cup {None}, inv : Invites \cup {None}, saved : BOOLEAN]
Request == [op : {"prepare", "commit"}, client : Clients, inv : Invites]

NoInvite == [present |-> FALSE, spent |-> FALSE, peer |-> None, client |-> None, offer |-> "none"]
NoProcess == [pc |-> "idle", client |-> None, inv |-> None, saved |-> FALSE]
NoPeer == [status |-> "absent", by |-> None]
Paired(v) == [status |-> "paired", by |-> None]
Pending(i) == [status |-> "pending", by |-> i]

(* A receiver upgraded from the version before offers may hold pending     *)
(* peers whose invitation records them without any reservation.            *)
Init ==
  /\ past = {} /\ old = {} /\ clientPast = {} /\ strays = {}
  /\ issued = [i \in Links |-> None]
  /\ winners = [i \in Invites |-> {}]
  /\ \E owner \in [Files -> Clients \cup {None}], by \in [Clients -> Files \cup {None}], kept \in SUBSET Clients :
       /\ \A c \in Clients : by[c] # None => owner[by[c]] = c /\ c \in kept
       /\ \A i \in Files : owner[i] # None => by[owner[i]] # None
       /\ anchors = kept
       /\ db = [inv |-> [i \in Invites |->
                           IF i \in Files /\ owner[i] # None
                           THEN [NoInvite EXCEPT !.present = TRUE, !.peer = owner[i]] ELSE NoInvite],
                peer |-> [c \in Clients |-> IF by[c] # None THEN Pending(by[c]) ELSE NoPeer],
                key |-> [c \in Clients |-> IF c \in kept THEN "active" ELSE "absent"],
                res |-> [c \in Clients |-> None]]
  /\ cl = [c \in Clients |-> [peer |-> NoPeer, key |-> "absent", res |-> None, intents |-> {}]]
  /\ proc = [p \in Procs |-> NoProcess]

----------------------------------------------------------------------------
(* The receiver's store.                                                   *)

Live(d, i) == d.inv[i].present /\ ~d.inv[i].spent /\ i \notin past
ExpiredPeer(d, c) == d.peer[c].status = "pending" /\ d.peer[c].by \in past

(* Store._release_reservation_locked, of several clients' reservations:    *)
(* what a reservation created goes with it while the peer is pending.      *)
GoneWith(d, c) == d.peer[c].status = "pending"
Release(d, cs) ==
  [d EXCEPT
     !.peer = [c \in Clients |-> IF c \in cs /\ GoneWith(d, c) /\ d.res[c].createdPeer THEN NoPeer ELSE @[c]],
     !.key = [c \in Clients |-> IF c \in cs /\ GoneWith(d, c) /\ d.res[c].createdKey /\ @[c] = "active"
                                THEN "absent" ELSE @[c]],
     !.res = [c \in Clients |-> IF c \in cs THEN None ELSE @[c]]]
HoldersOf(d, is) == {c \in Clients : d.res[c] # None /\ d.res[c].inv \in is}

(* Store._expire_pairings_locked.                                          *)
Orphaned(d, c) ==
  ExpiredPeer(d, c) /\ ~\E i \in Invites : Live(d, i) /\ (d.inv[i].peer = c \/ (d.res[c] # None /\ d.res[c].inv = i))
Overdue(d) == {i \in past : d.inv[i].present /\ ~d.inv[i].spent}
Retired(v, i) ==
  IF i \in old THEN NoInvite
  ELSE IF v.offer \in {"open", "reserved"} THEN [v EXCEPT !.offer = "expired"]
  ELSE IF v.offer = "none" THEN [v EXCEPT !.spent = TRUE] ELSE v
Expire(d) ==
  LET overdue == Overdue(d)
      released == Release(d, HoldersOf(d, overdue) \cup {c \in Clients : d.res[c] # None /\ Orphaned(d, c)})
  IN [released EXCEPT
        !.inv = [i \in Invites |-> IF i \in overdue \cup old THEN Retired(@[i], i) ELSE @[i]],
        !.peer = [c \in Clients |-> IF released.res[c] = None /\ Orphaned(released, c) THEN NoPeer ELSE @[c]]]

(* Store._adopt_legacy_reservation_locked: the clients' reservations with  *)
(* c's, if exactly one live invitation proves it.                          *)
Adopted(d, c, is) ==
  LET candidates == {i \in Invites : d.inv[i].peer = c /\ Live(d, i)}
  IN IF /\ d.peer[c].status = "pending" /\ d.res[c] = None /\ d.key[c] = "active"
        /\ d.peer[c].by \in is /\ candidates = {d.peer[c].by} /\ d.peer[c].by \in Files
        /\ HoldersOf(d, candidates) = {}
     THEN [d EXCEPT !.res[c] = [inv |-> d.peer[c].by, createdPeer |-> TRUE, createdKey |-> FALSE]]
     ELSE d

(* Store._prepare_locked, of a request with the invitation's secret.       *)
UnreservedMutant(d, c, i) == TRUE
Unreserved(d, c, i) == d.inv[i].peer \in {None, c}
Preparable(d, c, i) ==
  LET a == Adopted(d, c, {i})
  IN /\ Live(d, i) /\ Unreserved(d, c, i)
     /\ i \in Links => d.inv[i].client = c /\ d.inv[i].offer \in {"open", "reserved"}
     /\ d.peer[c].status \in {"absent", "pending"} /\ d.key[c] # "revoked"
     /\ a.res[c] # None => a.res[c].inv = i
     /\ d.peer[c].status = "pending" => a.res[c] # None

CreatedKey(d, c) == d.key[c] = "absent"
Prepared(d, c, i) ==
  LET a == Adopted(d, c, {i})
  IN [a EXCEPT
        !.inv[i].peer = c,
        !.inv[i].offer = IF @ = "open" THEN "reserved" ELSE @,
        !.key[c] = "active",
        !.res[c] = IF @ # None THEN @
                   ELSE [inv |-> i, createdPeer |-> d.peer[c].status = "absent", createdKey |-> CreatedKey(d, c)],
        !.peer[c] = IF @.status = "absent" THEN Pending(i) ELSE @]

(* Store._commit_locked: a link's client names its offer, a file's client  *)
(* only proves its key.                                                    *)
Claimed(d, c, i) == Adopted(d, c, IF i \in Links THEN {i} ELSE Invites)
Named(d, c, i) == IF i \in Links THEN i ELSE IF d.res[c] # None THEN d.res[c].inv ELSE None
Committable(d, c, i) ==
  LET a == Claimed(d, c, i)
      v == Named(a, c, i)
  IN /\ d.key[c] # "revoked" /\ d.peer[c].status \in {"pending", "paired"} /\ ~ExpiredPeer(d, c)
     /\ v \in Links => v = i /\ d.inv[v].client = c /\ d.inv[v].offer = "reserved"
     /\ a.res[c] # None => a.res[c].inv = v
     /\ d.peer[c].status = "pending" => a.res[c] # None
Committed(d, c, i) ==
  LET a == Claimed(d, c, i)
      v == Named(a, c, i)
  IN IF v = None THEN [a EXCEPT !.peer[c] = Paired(@)]
     ELSE [a EXCEPT !.peer[c] = Paired(@),
                    !.inv[v].spent = TRUE,
                    !.inv[v].offer = IF v \in Links THEN "consumed" ELSE @,
                    !.res = [e \in Clients |-> IF @[e] # None /\ @[e].inv = v THEN None ELSE @[e]]]
(* A receipt already given is given again.                                 *)
ReceiptMutant(d, c, i) == FALSE
Receipt(d, c, i) ==
  /\ i \in Links /\ d.inv[i].client = c /\ d.inv[i].offer = "consumed"
  /\ d.peer[c].status = "paired" /\ d.key[c] # "revoked"

(* Whom a TLS handshake with a client certificate accepts (Store.trusted). *)
Trusted(d, c) == d.peer[c].status = "paired" \/ (d.peer[c].status = "pending" /\ ~ExpiredPeer(d, c))

----------------------------------------------------------------------------
(* The receiver's operator.                                                *)

Operator == UNCHANGED <<past, old, cl, clientPast, proc, strays, winners, anchors>>

CreateFile(i) ==
  /\ i \in Files \ past /\ ~db.inv[i].present
  /\ db' = [Expire(db) EXCEPT !.inv[i].present = TRUE]
  /\ UNCHANGED issued /\ Operator

(* A known key is offered a link only if it is active and its device is    *)
(* neither pending nor revoked; a paired device needs none.                *)
Offerable(d, c) ==
  /\ d.key[c] # "revoked"
  /\ d.key[c] = "active" => d.peer[c].status \notin {"pending", "revoked"}
  /\ d.peer[c].status # "paired"
CreateOffer(i, c) ==
  /\ i \in Links \ past /\ issued[i] = None
  /\ LET d == Expire(db)
     IN IF Offerable(d, c)
        THEN /\ db' = [d EXCEPT !.inv[i] = [NoInvite EXCEPT !.present = TRUE, !.client = c, !.offer = "open"]]
             /\ issued' = [issued EXCEPT ![i] = c]
        ELSE db' = d /\ UNCHANGED issued
  /\ Operator

CancellableMutant(v) == v.offer # "expired"
Cancellable(v) == v.offer \in {"open", "reserved"}
CancelOffer(i) ==
  /\ "cancel" \in Faults /\ i \in Links /\ db.inv[i].present
  /\ LET d == Expire(db)
     IN db' = IF Cancellable(d.inv[i])
              THEN [Release(d, HoldersOf(d, {i})) EXCEPT !.inv[i].offer = "cancelled", !.inv[i].spent = TRUE]
              ELSE d
  /\ UNCHANGED issued /\ Operator

(* Any other pairing operation, also one that is refused.                  *)
Refresh == db' = Expire(db) /\ UNCHANGED issued /\ Operator

(* Store.revoke is no pairing transaction.                                 *)
RevokeClient(c) ==
  /\ "revoke" \in Faults /\ (db.peer[c].status \in {"pending", "paired"} \/ db.key[c] = "active")
  /\ db' = [db EXCEPT !.peer[c].status = IF @ = "absent" THEN @ ELSE "revoked",
                      !.key[c] = IF @ = "absent" THEN @ ELSE "revoked"]
  /\ UNCHANGED issued /\ Operator

----------------------------------------------------------------------------
(* The receiver's two handlers, as what they do to its store.  A refused   *)
(* request keeps what expiry retired; a prepare may always be refused, for *)
(* a rate limit.                                                           *)

PrepareEffect(c, i, ok) ==
  /\ LET d == Expire(db)
     IN \/ ok /\ Preparable(d, c, i) /\ db' = Prepared(d, c, i)
        \/ ~ok /\ db' = d
  /\ UNCHANGED <<winners, anchors>>

(* The handshake of an untrusted client fails before any transaction.      *)
Completes(d, c, i) ==
  /\ db' = Committed(d, c, i)
  /\ anchors' = anchors \cup {c}
  /\ winners' = IF d.peer[c].status = "pending" THEN [winners EXCEPT ![Named(Claimed(d, c, i), c, i)] = @ \cup {c}]
                ELSE winners
CommitEffect(c, i, ok) ==
  LET d == Expire(db)
  IN \/ ok /\ Receipt(d, c, i) /\ db' = d /\ UNCHANGED <<winners, anchors>>
     \/ ok /\ ~Receipt(d, c, i) /\ Committable(d, c, i) /\ Completes(d, c, i)
     \/ ~ok /\ ~Receipt(d, c, i) /\ ~Committable(d, c, i) /\ db' = d /\ UNCHANGED <<winners, anchors>>
     \/ ~ok /\ ~Trusted(db, c) /\ UNCHANGED <<db, winners, anchors>>

(* A request nobody waits for any more.                                    *)
OnStray(q) ==
  /\ q \in strays /\ strays' = strays \ {q}
  /\ \E ok \in BOOLEAN : IF q.op = "prepare" THEN PrepareEffect(q.client, q.inv, ok) ELSE CommitEffect(q.client, q.inv, ok)
  /\ UNCHANGED <<past, old, cl, clientPast, proc, issued>>

----------------------------------------------------------------------------
(* A client's store and its `device pair` command (app.pair, finish_pair). *)
(* A client is a device that was no receiver of this peer, so no           *)
(* invitation of its own concerns it.                                      *)

Overage(s) == s.peer.status = "pending" /\ s.peer.by \in clientPast
Dropped(s) ==
  [s EXCEPT !.peer = IF @.status = "pending" /\ s.res.createdPeer THEN NoPeer ELSE @,
            !.key = IF s.peer.status = "pending" /\ s.res.createdKey /\ @ = "active" THEN "absent" ELSE @,
            !.res = None]
Lapsed(s) ==
  IF Overage(s) THEN [IF s.res # None THEN Dropped(s) ELSE s EXCEPT !.peer = NoPeer] ELSE s

Move(p, pc) == proc' = [proc EXCEPT ![p].pc = pc]
End(p) == proc' = [proc EXCEPT ![p] = NoProcess]
Client(p) == cl[proc[p].client]
Keep(p, s) == cl' = [cl EXCEPT ![proc[p].client] = s]
Link(p) == proc[p].inv \in Links
Late(p) == proc[p].inv \in clientPast
Local == UNCHANGED <<db, past, old, clientPast, strays, issued, winners, anchors>>

Start(p, c, i) ==
  /\ proc[p] = NoProcess
  /\ IF i \in Links THEN issued[i] = c ELSE db.inv[i].present /\ i \notin clientPast
  /\ proc' = [proc EXCEPT ![p] = [pc |-> IF i \in Links THEN "intent" ELSE "look",
                                  client |-> c, inv |-> i, saved |-> FALSE]]
  /\ UNCHANGED cl /\ Local

(* Store.save_offer_intent, which expires nothing.                         *)
Intend(s, i) == s.intents \cup {i}
Intendable(s, i) ==
  LET existing == i \in s.intents
  IN /\ s.key # "revoked" /\ s.peer.status # "revoked"
     /\ s.peer.status = "pending" /\ ~Overage(s) => existing /\ s.key = "active"
     /\ i \in clientPast => existing
     /\ s.peer.status = "paired" => existing
SaveIntent(p) ==
  /\ proc[p].pc = "intent"
  /\ LET s == Client(p)
         i == proc[p].inv
     IN IF Intendable(s, i)
        THEN /\ Keep(p, [s EXCEPT !.intents = Intend(s, i)])
             /\ proc' = [proc EXCEPT ![p].saved = i \in s.intents,
                                     ![p].pc = IF Late(p) THEN "finish" ELSE "look"]
        ELSE UNCHANGED cl /\ End(p)
  /\ Local

(* A pairing that may be complete already is finished before it is tried   *)
(* again.                                                                  *)
Look(p) ==
  /\ proc[p].pc = "look"
  /\ LET s == Lapsed(Client(p))
         resumes == Link(p) /\ proc[p].saved
     IN /\ Keep(p, s)
        /\ IF s.peer.status = "paired" THEN IF resumes THEN Move(p, "finish") ELSE End(p)
           ELSE Move(p, IF s.peer.status = "pending" \/ resumes THEN "try" ELSE "stage")
  /\ Local

(* Store._stage_locked; a device paired meanwhile is left alone.           *)
Staged(s, i) ==
  IF s.peer.status = "paired" THEN s
  ELSE [s EXCEPT !.peer = Pending(i), !.key = "active",
                 !.res = IF @ # None THEN @
                         ELSE [inv |-> i, createdPeer |-> s.peer.status = "absent", createdKey |-> s.key = "absent"]]
Stageable(s, i) ==
  \/ s.peer.status = "paired"
  \/ /\ s.peer.status # "revoked" /\ s.key # "revoked"
     /\ s.res # None => s.res.inv = i
     /\ s.peer.status = "pending" => s.res # None
Stage(p) ==
  /\ proc[p].pc = "stage"
  /\ IF Link(p) /\ Late(p) THEN UNCHANGED cl /\ Move(p, "finish")
     ELSE LET s == Lapsed(Client(p))
              i == proc[p].inv
          IN IF Stageable(s, i) THEN Keep(p, Staged(s, i)) /\ Move(p, "send") ELSE Keep(p, s) /\ End(p)
  /\ Local

Send(p) ==
  /\ proc[p].pc \in {"try", "send", "finish"} /\ UNCHANGED cl
  /\ IF proc[p].pc = "send" /\ Link(p) /\ Late(p) THEN Move(p, "finish")
     ELSE Move(p, [try |-> "trying", send |-> "preparing", finish |-> "finishing"][proc[p].pc])
  /\ Local

(* A request without an answer: the client gives up, or, when the link's   *)
(* time is over, asks for the receipt instead; a first try is followed by  *)
(* a preparation.                                                          *)
Fail(p) ==
  CASE proc[p].pc = "trying" -> Move(p, "stage")
    [] proc[p].pc = "preparing" -> End(p) \/ (Link(p) /\ Late(p) /\ Move(p, "finish"))
    [] proc[p].pc = "finishing" -> End(p)

AfterPrepare == "finish"
OnPrepare(p) ==
  /\ proc[p].pc = "preparing"
  /\ \E ok \in BOOLEAN :
       /\ PrepareEffect(proc[p].client, proc[p].inv, ok)
       /\ \/ Move(p, IF ok THEN AfterPrepare ELSE "refused")
          \/ "loss" \in Faults /\ Fail(p)
  /\ UNCHANGED <<past, old, cl, clientPast, strays, issued>>

OnCommit(p) ==
  /\ proc[p].pc \in {"trying", "finishing"}
  /\ \E ok \in BOOLEAN :
       /\ CommitEffect(proc[p].client, proc[p].inv, ok)
       /\ \/ ok /\ Move(p, IF proc[p].pc = "trying" THEN "tryRemember" ELSE "remember")
          \/ (~ok \/ "loss" \in Faults) /\ Fail(p)
  /\ UNCHANGED <<past, old, cl, clientPast, strays, issued>>

(* No connection, or an answer that comes too late: the request may reach  *)
(* the receiver all the same.                                              *)
Lose(p) ==
  /\ "loss" \in Faults /\ proc[p].pc \in {"trying", "preparing", "finishing"}
  /\ Fail(p)
  /\ \/ UNCHANGED strays
     \/ strays' = strays \cup {[op |-> IF proc[p].pc = "preparing" THEN "prepare" ELSE "commit",
                                client |-> proc[p].client, inv |-> proc[p].inv]}
  /\ UNCHANGED <<db, past, old, cl, clientPast, issued, winners, anchors>>

(* A refused preparation is discarded, unless it may hide a completion.    *)
Discard(p) ==
  /\ proc[p].pc = "refused"
  /\ LET s == Lapsed(Client(p))
     IN IF Link(p) /\ proc[p].saved THEN UNCHANGED cl
        ELSE Keep(p, IF s.res # None /\ s.res.inv = proc[p].inv THEN Dropped(s) ELSE s)
  /\ End(p) /\ Local

(* Store._remember_locked.  Only a file's first try goes on after it.      *)
Rememberable(s, i) ==
  /\ s.peer.status # "revoked" /\ s.key # "revoked"
  /\ s.peer.status = "pending" /\ s.res # None => s.res.inv = i
Remember(p) ==
  /\ proc[p].pc \in {"tryRemember", "remember"}
  /\ LET s == Lapsed(Client(p))
         i == proc[p].inv
     IN IF Rememberable(s, i)
        THEN /\ Keep(p, [s EXCEPT !.key = "active",
                                  !.peer = IF @.status = "paired" THEN @ ELSE Paired(@),
                                  !.res = IF s.peer.status # "paired" /\ @ # None /\ @.inv = i THEN None ELSE @])
             /\ End(p)
        ELSE /\ Keep(p, s)
             /\ IF proc[p].pc = "tryRemember" /\ ~Link(p) THEN Move(p, "stage") ELSE End(p)
  /\ Local

Crash(p) ==
  /\ "crash" \in Faults /\ proc[p] # NoProcess /\ End(p)
  /\ UNCHANGED cl
  /\ \/ UNCHANGED strays
     \/ /\ proc[p].pc \in {"trying", "preparing", "finishing"}
        /\ strays' = strays \cup {[op |-> IF proc[p].pc = "preparing" THEN "prepare" ELSE "commit",
                                   client |-> proc[p].client, inv |-> proc[p].inv]}
  /\ UNCHANGED <<db, past, old, clientPast, issued, winners, anchors>>

RevokeReceiver(c) ==
  /\ "revoke" \in Faults /\ (cl[c].peer.status \in {"pending", "paired"} \/ cl[c].key = "active")
  /\ cl' = [cl EXCEPT ![c].peer.status = IF @ = "absent" THEN @ ELSE "revoked",
                      ![c].key = IF @ = "absent" THEN @ ELSE "revoked"]
  /\ UNCHANGED proc /\ Local

----------------------------------------------------------------------------
(* Time: ten minutes by either clock, and a week after an offer's end.     *)

Passes(i) ==
  /\ i \notin past /\ db.inv[i].present /\ past' = past \cup {i}
  /\ UNCHANGED <<db, old, cl, clientPast, proc, strays, issued, winners, anchors>>
PassesAtClients(i) ==
  /\ i \notin clientPast /\ (i \in Links => issued[i] # None) /\ (i \in Files => db.inv[i].present)
  /\ clientPast' = clientPast \cup {i}
  /\ UNCHANGED <<db, past, old, cl, proc, strays, issued, winners, anchors>>
AWeekPasses(i) ==
  /\ "week" \in Faults /\ i \in (Links \cap past) \ old
  /\ db.inv[i].offer \in {"consumed", "cancelled", "expired"} /\ old' = old \cup {i}
  /\ UNCHANGED <<db, past, cl, clientPast, proc, strays, issued, winners, anchors>>

OperatorActs ==
  \/ \E i \in Files : CreateFile(i)
  \/ \E i \in Links, c \in Clients : CreateOffer(i, c)
  \/ \E i \in Links : CancelOffer(i)
  \/ Refresh
  \/ \E c \in Clients : RevokeClient(c)
CommandSteps(p) ==
  \/ SaveIntent(p) \/ Look(p) \/ Stage(p) \/ Send(p) \/ Discard(p) \/ Remember(p)
Handles(p) == OnPrepare(p) \/ OnCommit(p)
TimePasses == \E i \in Invites : Passes(i) \/ PassesAtClients(i) \/ AWeekPasses(i)
Next ==
  \/ OperatorActs
  \/ \E p \in Procs, c \in Clients, i \in Invites : Start(p, c, i)
  \/ \E p \in Procs : CommandSteps(p) \/ Handles(p) \/ Lose(p) \/ Crash(p)
  \/ \E q \in strays : OnStray(q)
  \/ \E c \in Clients : RevokeReceiver(c)
  \/ TimePasses

Spec == Init /\ [][Next]_vars

(* A user whose link was interrupted enters it again and again, commands   *)
(* run on, some of their requests are answered, and time passes.           *)
Answered(p) == OnCommit(p) /\ proc'[p].pc \in {"remember", "tryRemember"}
Retries ==
  \A p \in Procs :
    /\ WF_vars(CommandSteps(p)) /\ WF_vars(Handles(p)) /\ SF_vars(Answered(p))
    /\ \A c \in Clients, i \in Links : SF_vars(Start(p, c, i))
FairSpec == Spec /\ Retries /\ WF_vars(\E i \in Invites : PassesAtClients(i))

----------------------------------------------------------------------------
(* Properties.                                                             *)

(* Every variable has its type; in particular only a pending or revoked    *)
(* peer has an expiry.                                                     *)
TypeOK ==
  /\ db \in Database /\ cl \in [Clients -> ClientStore] /\ proc \in [Procs -> Process]
  /\ past \subseteq Invites /\ clientPast \subseteq Invites /\ old \subseteq Links \cap past
  /\ strays \subseteq Request /\ issued \in [Links -> Clients \cup {None}]
  /\ winners \in [Invites -> SUBSET Clients] /\ anchors \subseteq Clients

(* A pending client's trust rests on a live invitation reserved for it:    *)
(* no second client can take an invitation over, and cancellation and      *)
(* completion leave no pending trust behind (Store.prepare, cancel_offer). *)
PendingOwned ==
  \A c \in Clients : db.peer[c].status = "pending" =>
    LET i == db.peer[c].by
    IN db.inv[i].peer = c /\ (i \notin past => Live(db, i))

(* What `offer-status` says is true: an offer is consumed exactly if it    *)
(* paired its own client, so what was cancelled or has expired paired      *)
(* nobody and what paired is not called cancelled later.                   *)
OffersTrue ==
  \A i \in Links : db.inv[i].present =>
    winners[i] = IF db.inv[i].offer = "consumed" THEN {db.inv[i].client} ELSE {}

(* A client that believes it is paired was paired by the receiver, however *)
(* its requests and answers were lost or delayed.                          *)
ClientNotAhead ==
  \A c \in Clients : cl[c].peer.status = "paired" => db.peer[c].status \in {"paired", "revoked"}

(* When a link's offer is consumed its client has saved the intent that    *)
(* alone lets it ask for the receipt after the link has expired.           *)
IntentFirst == \A i \in Links : winners[i] # {} => i \in cl[issued[i]].intents

(* No expiry, cancellation, discarded stage or late request takes trust    *)
(* from a paired device or gives it to a revoked one, on either side.      *)
OneWay(s, t) == (s = "paired" => t \in {"paired", "revoked"}) /\ (s = "revoked" => t = "revoked")
TrustOnlyRevoked ==
  [][\A c \in Clients : /\ OneWay(db.peer[c].status, db'.peer[c].status)
                        /\ OneWay(cl[c].peer.status, cl'[c].peer.status)]_vars

(* A key that was anchored before a pairing, or by a completed one, is     *)
(* never removed by the end of another pairing.                            *)
AnchorsKept == \A c \in anchors : db.key[c] # "absent"

(* A client whose link was consumed learns it if it keeps trying, unless   *)
(* either side revokes or the receipt is pruned first.                     *)
Reconciles ==
  \A c \in Clients, i \in Links :
    (db.inv[i].offer = "consumed" /\ db.inv[i].client = c) ~>
      \/ cl[c].peer.status \in {"paired", "revoked"} \/ db.peer[c].status = "revoked" \/ i \in old

(* Invitations: their reservations are owned, and no client is ahead of    *)
(* the receiver.                                                           *)
ReservationsOwned ==
  /\ TypeOK
  /\ PendingOwned
  /\ ClientNotAhead

(* Offers: their status is true, the intent is there before the outcome,   *)
(* and the end of one removes no key that another rests on and takes no    *)
(* trust from a paired device.                                             *)
OffersSound == [](OffersTrue /\ IntentFirst /\ AnchorsKept) /\ TrustOnlyRevoked
=============================================================================
