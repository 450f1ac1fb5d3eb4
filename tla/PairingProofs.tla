---------------------------- MODULE PairingProofs ----------------------------
(***************************************************************************)
(* Proofs about Pairing: that reservations stay owned and no client is     *)
(* ahead of the receiver, and that what is told of offers is true.         *)
(***************************************************************************)
EXTENDS Pairing, TLAPS

-----------------------------------------------------------------------------
(* The inductive invariant.  Its parts are about a database d, for the     *)
(* receiver's operations first retire what has expired: pa and ol are the  *)
(* invitations past their expiry and the old offers, is the clients links  *)
(* were made for, w the winners, an the anchored clients.                  *)

(* A reservation holds an invitation that is open, names its client and,   *)
(* of a link, was reserved by it; it created the peer, which is pending by *)
(* it until it is revoked; and no key it created is an anchor.  A pending  *)
(* peer's invitation names it, whether or not a reservation says so.       *)
HolderRight(d, pa, an, c) ==
  /\ d.res[c] # None =>
       LET i == d.res[c].inv IN
       /\ d.inv[i].present /\ ~d.inv[i].spent /\ d.inv[i].peer = c
       /\ d.res[c].createdPeer
       /\ d.peer[c].status \in {"pending", "revoked"}
       /\ d.peer[c].status = "pending" => d.peer[c].by = i
       /\ i \in Links => (d.inv[i].client = c /\ d.inv[i].offer = "reserved")
       /\ d.res[c].createdKey => c \notin an
  /\ d.peer[c].status = "pending" =>
       LET i == d.peer[c].by IN
       /\ d.inv[i].peer = c
       /\ i \notin pa => (d.inv[i].present /\ ~d.inv[i].spent)
       /\ i \in Links => d.res[c] # None
  /\ d.peer[c].status \in {"pending", "paired"} => d.key[c] = "active"
  /\ c \in an => d.key[c] # "absent"

(* A reserved offer is held by its client; an offer is its link's client's *)
(* and tells who was paired; and an old one has ended.                     *)
OfferRight(d, ol, is, w, i) ==
  /\ d.inv[i].offer = "reserved" => (d.inv[i].client # None /\ d.res[d.inv[i].client] # None /\ d.res[d.inv[i].client].inv = i)
  /\ d.inv[i].present => (is[i] # None /\ d.inv[i].client = is[i])
  /\ d.inv[i].present => w[i] = IF d.inv[i].offer = "consumed" THEN {d.inv[i].client} ELSE {}
  /\ is[i] = None => w[i] = {}
  /\ i \in ol => d.inv[i].offer \notin {"open", "reserved"}

DatabaseRight(d, pa, ol, is, w, an) ==
  /\ \A c \in Clients : HolderRight(d, pa, an, c)
  /\ \A i \in Links : OfferRight(d, ol, is, w, i)

(* Nobody asks about a link before its intent is saved, and who is about   *)
(* to remember a pairing has been paired.                                  *)
Decided == {"paired", "revoked"}
CommandRight(p) ==
  proc[p].pc # "idle" =>
    /\ proc[p].client \in Clients /\ proc[p].inv \in Invites
    /\ proc[p].pc = "intent" => proc[p].inv \in Links
    /\ (proc[p].pc # "intent" /\ proc[p].inv \in Links) => proc[p].inv \in cl[proc[p].client].intents
    /\ proc[p].pc \in {"tryRemember", "remember"} => db.peer[proc[p].client].status \in Decided
StrayRight(q) == q.inv \in Links => q.inv \in cl[q.client].intents
WinnerRight(i) == winners[i] # {} => i \in cl[issued[i]].intents

IInv ==
  /\ TypeOK
  /\ DatabaseRight(db, past, old, issued, winners, anchors)
  /\ \A p \in Procs : CommandRight(p)
  /\ \A q \in strays : StrayRight(q)
  /\ \A i \in Links : WinnerRight(i)
  /\ ClientNotAhead
-----------------------------------------------------------------------------
(* What the operations return.                                             *)

(* A database's parts have their types.                                    *)
LEMMA Parts ==
  ASSUME NEW d \in Database
  PROVE  /\ d.inv \in [Invites -> Invite] /\ d.peer \in [Clients -> Peer]
         /\ d.key \in [Clients -> Keys] /\ d.res \in [Clients -> Reservation \cup {None}]
         /\ d = [inv |-> d.inv, peer |-> d.peer, key |-> d.key, res |-> d.res]
BY DEF Database

LEMMA Values ==
  /\ NoPeer \in Peer /\ NoPeer.status = "absent" /\ NoInvite \in Invite
  /\ \A i \in Invites : Pending(i) \in Peer /\ Pending(i).status = "pending" /\ Pending(i).by = i
  /\ \A v : Paired(v) \in Peer /\ Paired(v).status = "paired"
  /\ \A v \in Peer : v.status \in {"absent", "pending", "paired", "revoked"}
  /\ \A v \in Peer : v.status = "pending" => v.by \in Invites
  /\ None \notin Reservation /\ None \notin Invites /\ None \notin Clients
BY NoneAssumption DEF NoPeer, NoInvite, Peer, Pending, Paired, Invite, OfferStates

(* A database put together of typed parts.                                 *)
LEMMA Composed ==
  ASSUME NEW i \in [Invites -> Invite], NEW p \in [Clients -> Peer], NEW k \in [Clients -> Keys],
         NEW r \in [Clients -> Reservation \cup {None}]
  PROVE  [inv |-> i, peer |-> p, key |-> k, res |-> r] \in Database
BY DEF Database

(* Released reservations take what they created along, of pending peers.   *)
LEMMA Releases ==
  ASSUME NEW d \in Database, NEW cs
  PROVE  LET r == Release(d, cs) IN
         /\ r \in Database /\ r.inv = d.inv
         /\ \A c \in Clients :
              /\ r.peer[c] = IF c \in cs /\ d.peer[c].status = "pending" /\ d.res[c].createdPeer THEN NoPeer ELSE d.peer[c]
              /\ r.key[c] = IF c \in cs /\ d.peer[c].status = "pending" /\ d.res[c].createdKey /\ d.key[c] = "active"
                            THEN "absent" ELSE d.key[c]
              /\ r.res[c] = IF c \in cs THEN None ELSE d.res[c]
<1> DEFINE p == [c \in Clients |-> IF c \in cs /\ GoneWith(d, c) /\ d.res[c].createdPeer THEN NoPeer ELSE d.peer[c]]
           k == [c \in Clients |-> IF c \in cs /\ GoneWith(d, c) /\ d.res[c].createdKey /\ d.key[c] = "active"
                                   THEN "absent" ELSE d.key[c]]
           e == [c \in Clients |-> IF c \in cs THEN None ELSE d.res[c]]
<1>1. d.inv \in [Invites -> Invite] /\ d.peer \in [Clients -> Peer] /\ d.key \in [Clients -> Keys]
      /\ d.res \in [Clients -> Reservation \cup {None}]
      /\ d = [inv |-> d.inv, peer |-> d.peer, key |-> d.key, res |-> d.res]
  BY Parts
<1>2. Release(d, cs) = [d EXCEPT !.peer = p, !.key = k, !.res = e]
  BY DEF Release
<1>3. p \in [Clients -> Peer]
  BY <1>1, Values
<1>4. k \in [Clients -> Keys]
  BY <1>1 DEF Keys
<1>5. e \in [Clients -> Reservation \cup {None}]
  BY <1>1
<1>6. \A c \in Clients :
        /\ p[c] = IF c \in cs /\ d.peer[c].status = "pending" /\ d.res[c].createdPeer THEN NoPeer ELSE d.peer[c]
        /\ k[c] = IF c \in cs /\ d.peer[c].status = "pending" /\ d.res[c].createdKey /\ d.key[c] = "active"
                  THEN "absent" ELSE d.key[c]
        /\ e[c] = IF c \in cs THEN None ELSE d.res[c]
  BY DEF GoneWith
<1> HIDE DEF p, k, e
<1>7. Release(d, cs) = [inv |-> d.inv, peer |-> p, key |-> k, res |-> e]
  BY <1>1, <1>2
<1>8. Release(d, cs) \in Database
  BY <1>1, <1>3, <1>4, <1>5, <1>7, Composed
<1>9. /\ Release(d, cs).inv = d.inv /\ Release(d, cs).peer = p /\ Release(d, cs).key = k /\ Release(d, cs).res = e
  BY <1>7
<1> QED BY <1>6, <1>8, <1>9

(* What has expired is retired: reservations of invitations past their     *)
(* expiry go, with what they created, and no other.                        *)
Gone(d, c) == d.res[c] # None /\ d.res[c].inv \in past
LEMMA Expires ==
  ASSUME NEW d \in Database, NEW an, past \subseteq Invites, old \subseteq Links \cap past,
         \A c \in Clients : HolderRight(d, past, an, c)
  PROVE  LET e == Expire(d) IN
         /\ e \in Database
         /\ \A i \in Invites : e.inv[i] = IF i \in Overdue(d) \cup old THEN Retired(d.inv[i], i) ELSE d.inv[i]
         /\ \A c \in Clients :
              /\ e.res[c] = IF Gone(d, c) THEN None ELSE d.res[c]
              /\ e.key[c] = d.key[c] \/ (e.key[c] = "absent" /\ d.peer[c].status = "pending" /\ Gone(d, c) /\ d.res[c].createdKey)
              /\ e.peer[c] = d.peer[c] \/ (e.peer[c] = NoPeer /\ d.peer[c].status = "pending" /\ e.res[c] = None)
              /\ Gone(d, c) /\ d.peer[c].status = "pending" => e.peer[c] = NoPeer
<1> DEFINE cs == HoldersOf(d, Overdue(d)) \cup {c \in Clients : d.res[c] # None /\ Orphaned(d, c)}
           r == Release(d, cs)
           n == [i \in Invites |-> IF i \in Overdue(d) \cup old THEN Retired(d.inv[i], i) ELSE d.inv[i]]
           p == [c \in Clients |-> IF r.res[c] = None /\ Orphaned(r, c) THEN NoPeer ELSE r.peer[c]]
<1>1. d.inv \in [Invites -> Invite] /\ d.peer \in [Clients -> Peer] /\ d.key \in [Clients -> Keys]
      /\ d.res \in [Clients -> Reservation \cup {None}]
  BY Parts
<1>2. \A c \in Clients : c \in cs <=> Gone(d, c)
  <2> SUFFICES ASSUME NEW c \in Clients PROVE c \in cs <=> Gone(d, c)
    OBVIOUS
  <2>1. CASE d.res[c] = None
    BY <2>1 DEF HoldersOf, Gone
  <2>2. CASE d.res[c] # None
    <3>1. /\ d.res[c].inv \in Invites /\ d.inv[d.res[c].inv].present /\ ~d.inv[d.res[c].inv].spent
          /\ d.peer[c].status = "pending" => d.peer[c].by = d.res[c].inv
      BY <2>2, <1>1 DEF HolderRight, Reservation
    <3>2. Orphaned(d, c) => d.res[c].inv \in past
      BY <3>1 DEF Orphaned, ExpiredPeer
    <3>3. c \in HoldersOf(d, Overdue(d)) <=> d.res[c].inv \in past
      BY <2>2, <3>1 DEF HoldersOf, Overdue
    <3> QED BY <2>2, <3>2, <3>3 DEF Gone
  <2> QED BY <2>1, <2>2
<1>3. /\ r \in Database /\ r.inv = d.inv
      /\ \A c \in Clients :
           /\ r.peer[c] = IF c \in cs /\ d.peer[c].status = "pending" /\ d.res[c].createdPeer THEN NoPeer ELSE d.peer[c]
           /\ r.key[c] = IF c \in cs /\ d.peer[c].status = "pending" /\ d.res[c].createdKey /\ d.key[c] = "active"
                         THEN "absent" ELSE d.key[c]
           /\ r.res[c] = IF c \in cs THEN None ELSE d.res[c]
  <2> HIDE DEF cs
  <2> QED BY Releases
<1>4. Expire(d) = [r EXCEPT !.inv = [i \in Invites |-> IF i \in Overdue(d) \cup old THEN Retired(r.inv[i], i) ELSE r.inv[i]],
                            !.peer = p]
  BY DEF Expire
<1> HIDE DEF cs, r
<1>5. r.inv \in [Invites -> Invite] /\ r.peer \in [Clients -> Peer] /\ r.key \in [Clients -> Keys]
      /\ r.res \in [Clients -> Reservation \cup {None}]
      /\ r = [inv |-> r.inv, peer |-> r.peer, key |-> r.key, res |-> r.res]
  BY <1>3, Parts
<1>16. Expire(d) = [r EXCEPT !.inv = n, !.peer = p]
  BY <1>3, <1>4
<1>7. n \in [Invites -> Invite]
  <2> SUFFICES ASSUME NEW i \in Invites PROVE Retired(d.inv[i], i) \in Invite
    BY <1>1
  <2> DEFINE v == d.inv[i]
  <2>1. v \in Invite
    BY <1>1
  <2> HIDE DEF v
  <2>2. [v EXCEPT !.offer = "expired"] \in Invite /\ [v EXCEPT !.spent = TRUE] \in Invite
    BY <2>1 DEF Invite, OfferStates
  <2>3. Retired(v, i) \in Invite
    BY <2>1, <2>2, Values DEF Retired
  <2> QED BY <2>3 DEF v
<1>8. p \in [Clients -> Peer]
  BY <1>5, Values
<1>9. \A i \in Invites : n[i] = IF i \in Overdue(d) \cup old THEN Retired(d.inv[i], i) ELSE d.inv[i]
  OBVIOUS
<1>10. \A c \in Clients : p[c] = IF r.res[c] = None /\ Orphaned(r, c) THEN NoPeer ELSE r.peer[c]
  OBVIOUS
<1> HIDE DEF n, p
<1>6. Expire(d) = [inv |-> n, peer |-> p, key |-> r.key, res |-> r.res]
  BY <1>5, <1>16
<1>11. Expire(d) \in Database
  BY <1>5, <1>6, <1>7, <1>8, Composed
<1>12. Expire(d).inv = n /\ Expire(d).peer = p /\ Expire(d).key = r.key /\ Expire(d).res = r.res
  BY <1>6
<1>13. ASSUME NEW c \in Clients
       PROVE  /\ r.res[c] = IF Gone(d, c) THEN None ELSE d.res[c]
              /\ r.key[c] = d.key[c] \/ (r.key[c] = "absent" /\ d.peer[c].status = "pending" /\ Gone(d, c) /\ d.res[c].createdKey)
              /\ p[c] = d.peer[c] \/ (p[c] = NoPeer /\ d.peer[c].status = "pending" /\ r.res[c] = None)
              /\ Gone(d, c) /\ d.peer[c].status = "pending" => p[c] = NoPeer
  <2>1. r.res[c] = IF Gone(d, c) THEN None ELSE d.res[c]
    BY <1>2, <1>3
  <2>2. r.key[c] = d.key[c] \/ (r.key[c] = "absent" /\ d.peer[c].status = "pending" /\ Gone(d, c) /\ d.res[c].createdKey)
    BY <1>2, <1>3
  <2>3. r.peer[c] = d.peer[c] \/ (r.peer[c] = NoPeer /\ d.peer[c].status = "pending" /\ Gone(d, c))
    BY <1>2, <1>3
  <2>4. Gone(d, c) /\ d.peer[c].status = "pending" => r.peer[c] = NoPeer
    BY <1>2, <1>3 DEF HolderRight, Gone
  <2>5. Orphaned(r, c) => r.peer[c].status = "pending"
    BY DEF Orphaned, ExpiredPeer
  <2> QED BY <2>1, <2>2, <2>3, <2>4, <2>5, <1>10, Values
<1> QED BY <1>9, <1>11, <1>12, <1>13

-----------------------------------------------------------------------------
(* The receiver's operations keep what is right about its store.  is, w    *)
(* and an stand for issued, winners and anchors.                           *)

LEMMA ExpireRight ==
  ASSUME NEW d \in Database, NEW is, NEW w, NEW an, past \subseteq Invites, old \subseteq Links \cap past,
         DatabaseRight(d, past, old, is, w, an)
  PROVE  LET e == Expire(d) IN
         /\ e \in Database /\ DatabaseRight(e, past, old, is, w, an)
         /\ \A c \in Clients : e.peer[c] = d.peer[c] \/ (e.peer[c] = NoPeer /\ d.peer[c].status = "pending")
         /\ \A i \in Links : e.inv[i].present => d.inv[i].present
<1> DEFINE e == Expire(d)
<1>1. /\ e \in Database
      /\ \A i \in Invites : e.inv[i] = IF i \in Overdue(d) \cup old THEN Retired(d.inv[i], i) ELSE d.inv[i]
      /\ \A c \in Clients :
           /\ e.res[c] = IF Gone(d, c) THEN None ELSE d.res[c]
           /\ e.key[c] = d.key[c] \/ (e.key[c] = "absent" /\ d.peer[c].status = "pending" /\ Gone(d, c) /\ d.res[c].createdKey)
           /\ e.peer[c] = d.peer[c] \/ (e.peer[c] = NoPeer /\ d.peer[c].status = "pending" /\ e.res[c] = None)
           /\ Gone(d, c) /\ d.peer[c].status = "pending" => e.peer[c] = NoPeer
  <2>1. \A c \in Clients : HolderRight(d, past, an, c)
    BY DEF DatabaseRight
  <2> QED BY <2>1, Expires
<1> HIDE DEF e
<1>2. d.inv \in [Invites -> Invite] /\ d.peer \in [Clients -> Peer] /\ d.key \in [Clients -> Keys]
      /\ d.res \in [Clients -> Reservation \cup {None}]
  BY Parts
<1>3. ASSUME NEW i \in Invites
      PROVE  LET v == Retired(d.inv[i], i) IN
             /\ i \in old => v = NoInvite
             /\ i \notin old => (/\ v.present = d.inv[i].present /\ v.client = d.inv[i].client /\ v.peer = d.inv[i].peer
                                 /\ v.offer = IF d.inv[i].offer \in {"open", "reserved"} THEN "expired" ELSE d.inv[i].offer)
  <2> DEFINE v == d.inv[i]
  <2>1. v \in Invite
    BY <1>2
  <2> HIDE DEF v
  <2>2. [v EXCEPT !.offer = "expired"].offer = "expired" /\ [v EXCEPT !.offer = "expired"].present = v.present
        /\ [v EXCEPT !.offer = "expired"].client = v.client /\ [v EXCEPT !.offer = "expired"].peer = v.peer
    BY <2>1 DEF Invite
  <2>3. [v EXCEPT !.spent = TRUE].offer = v.offer /\ [v EXCEPT !.spent = TRUE].present = v.present
        /\ [v EXCEPT !.spent = TRUE].client = v.client /\ [v EXCEPT !.spent = TRUE].peer = v.peer
    BY <2>1 DEF Invite
  <2>4. i \notin old => (/\ Retired(v, i).present = v.present /\ Retired(v, i).client = v.client
                         /\ Retired(v, i).peer = v.peer
                         /\ Retired(v, i).offer = IF v.offer \in {"open", "reserved"} THEN "expired" ELSE v.offer)
    BY <2>2, <2>3 DEF Retired
  <2>5. i \in old => Retired(v, i) = NoInvite
    BY DEF Retired
  <2> QED BY <2>4, <2>5 DEF v
<1>4. ASSUME NEW c \in Clients
      PROVE  HolderRight(e, past, an, c)
  <2>1. HolderRight(d, past, an, c)
    BY DEF DatabaseRight
  <2>2. e.res[c] # None =>
          LET i == e.res[c].inv IN
          /\ e.inv[i].present /\ ~e.inv[i].spent /\ e.inv[i].peer = c
          /\ e.res[c].createdPeer
          /\ e.peer[c].status \in {"pending", "revoked"}
          /\ e.peer[c].status = "pending" => e.peer[c].by = i
          /\ i \in Links => (e.inv[i].client = c /\ e.inv[i].offer = "reserved")
          /\ e.res[c].createdKey => c \notin an
    <3> SUFFICES ASSUME e.res[c] # None
                 PROVE  LET i == e.res[c].inv IN
                        /\ e.inv[i].present /\ ~e.inv[i].spent /\ e.inv[i].peer = c
                        /\ e.res[c].createdPeer
                        /\ e.peer[c].status \in {"pending", "revoked"}
                        /\ e.peer[c].status = "pending" => e.peer[c].by = i
                        /\ i \in Links => (e.inv[i].client = c /\ e.inv[i].offer = "reserved")
                        /\ e.res[c].createdKey => c \notin an
      OBVIOUS
    <3>1. ~Gone(d, c) /\ e.res[c] = d.res[c] /\ e.peer[c] = d.peer[c]
      BY <1>1
    <3>2. d.res[c].inv \in Invites \ past
      BY <3>1, <1>2 DEF Gone, Reservation
    <3>3. e.inv[d.res[c].inv] = d.inv[d.res[c].inv]
      BY <3>2, <1>1 DEF Overdue
    <3> QED BY <3>1, <3>3, <2>1 DEF HolderRight
  <2>3. e.peer[c].status = "pending" =>
          LET i == e.peer[c].by IN
          /\ e.inv[i].peer = c
          /\ i \notin past => (e.inv[i].present /\ ~e.inv[i].spent)
          /\ i \in Links => e.res[c] # None
    <3> SUFFICES ASSUME e.peer[c].status = "pending"
                 PROVE  LET i == e.peer[c].by IN
                        /\ e.inv[i].peer = c
                        /\ i \notin past => (e.inv[i].present /\ ~e.inv[i].spent)
                        /\ i \in Links => e.res[c] # None
      OBVIOUS
    <3>1. e.peer[c] = d.peer[c] /\ ~Gone(d, c) /\ e.res[c] = d.res[c]
      BY <1>1, Values
    <3>2. d.peer[c].by \in Invites
      BY <3>1, <1>2, Values
    <3>3. d.inv[d.peer[c].by].peer = c /\ (d.peer[c].by \in Links => d.res[c] # None)
      BY <3>1, <2>1 DEF HolderRight
    <3>4. d.peer[c].by \notin old
      BY <3>1, <3>3, <2>1 DEF Gone, HolderRight
    <3>5. e.inv[d.peer[c].by].peer = c
      BY <3>2, <3>3, <3>4, <1>1, <1>3
    <3>6. d.peer[c].by \notin past => e.inv[d.peer[c].by] = d.inv[d.peer[c].by]
      BY <3>2, <1>1 DEF Overdue
    <3> QED BY <3>1, <3>3, <3>5, <3>6, <2>1 DEF HolderRight
  <2>4. e.peer[c].status \in {"pending", "paired"} => e.key[c] = "active"
    BY <2>1, <1>1, Values DEF HolderRight
  <2>5. c \in an => e.key[c] # "absent"
    BY <2>1, <1>1 DEF HolderRight, Gone
  <2> QED BY <2>2, <2>3, <2>4, <2>5 DEF HolderRight
<1>5. ASSUME NEW i \in Links
      PROVE  OfferRight(e, old, is, w, i) /\ (e.inv[i].present => d.inv[i].present)
  <2>1. OfferRight(d, old, is, w, i) /\ i \in Invites
    BY DEF DatabaseRight, Invites
  <2>2. e.inv[i].offer = "reserved" => (d.inv[i].offer = "reserved" /\ i \notin Overdue(d) \cup old /\ e.inv[i] = d.inv[i])
    BY <2>1, <1>1, <1>3 DEF NoInvite
  <2>3. ASSUME e.inv[i].offer = "reserved"
        PROVE  e.inv[i].client # None /\ e.res[e.inv[i].client] # None /\ e.res[e.inv[i].client].inv = i
    <3> DEFINE b == d.inv[i].client
    <3>1. b \in Clients /\ d.res[b] # None /\ d.res[b].inv = i
      <4>1. d.inv[i] \in Invite
        BY <1>2, <2>1
      <4>2. d.inv[i].client \in Clients \cup {None}
        BY <4>1 DEF Invite
      <4> QED BY <4>2, <2>1, <2>2, <2>3 DEF OfferRight
    <3>2. d.inv[i].present /\ ~d.inv[i].spent
      BY <3>1 DEF DatabaseRight, HolderRight
    <3>3. i \notin past
      BY <2>2, <2>3, <3>2 DEF Overdue
    <3>4. e.res[b] = d.res[b]
      BY <3>1, <3>3, <1>1 DEF Gone
    <3> QED BY <3>1, <3>4, <2>2, <2>3, Values
  <2>4. e.inv[i].present =>
          (d.inv[i].present /\ e.inv[i].client = d.inv[i].client /\ (e.inv[i].offer = "consumed" <=> d.inv[i].offer = "consumed"))
    BY <2>1, <1>1, <1>3 DEF NoInvite
  <2>5. i \in old => e.inv[i].offer \notin {"open", "reserved"}
    BY <2>1, <1>1, <1>3 DEF NoInvite
  <2> QED BY <2>1, <2>3, <2>4, <2>5 DEF OfferRight
<1> QED BY <1>1, <1>4, <1>5 DEF DatabaseRight, e

LEMMA AdoptRight ==
  ASSUME NEW d \in Database, NEW is, NEW w, NEW an, NEW c \in Clients, NEW by,
         DatabaseRight(d, past, old, is, w, an)
  PROVE  LET a == Adopted(d, c, by) IN
         /\ a \in Database /\ DatabaseRight(a, past, old, is, w, an)
         /\ a.inv = d.inv /\ a.peer = d.peer /\ a.key = d.key
         /\ \A b \in Clients : a.res[b] = d.res[b] \/ (b = c /\ d.res[c] = None /\ d.peer[c].status = "pending")
<1> DEFINE i == d.peer[c].by
           new == [inv |-> i, createdPeer |-> TRUE, createdKey |-> FALSE]
           a == Adopted(d, c, by)
<1>1. d.inv \in [Invites -> Invite] /\ d.peer \in [Clients -> Peer] /\ d.key \in [Clients -> Keys]
      /\ d.res \in [Clients -> Reservation \cup {None}]
      /\ d = [inv |-> d.inv, peer |-> d.peer, key |-> d.key, res |-> d.res]
  BY Parts
<1>2. CASE a = d
  BY <1>2
<1>3. CASE a # d
  <2>1. /\ d.peer[c].status = "pending" /\ d.res[c] = None /\ i \in Files
        /\ {j \in Invites : d.inv[j].peer = c /\ Live(d, j)} = {i}
        /\ a = [d EXCEPT !.res[c] = new]
    BY <1>3 DEF Adopted
  <2>2. i \in Invites /\ i \notin Links /\ d.inv[i].peer = c /\ Live(d, i)
    BY <2>1, FilesAreNoLinks
  <2>3. new \in Reservation /\ new.inv = i /\ new.createdPeer /\ ~new.createdKey
    BY <2>2 DEF Reservation
  <2> HIDE DEF new
  <2> DEFINE r == [d.res EXCEPT ![c] = new]
  <2>4. a = [d EXCEPT !.res = r]
    BY <2>1
  <2>5. r \in [Clients -> Reservation \cup {None}] /\ \A b \in Clients : r[b] = IF b = c THEN new ELSE d.res[b]
    BY <1>1, <2>3
  <2> HIDE DEF a, r
  <2>6. a = [inv |-> d.inv, peer |-> d.peer, key |-> d.key, res |-> r]
    BY <1>1, <2>4
  <2>7. a \in Database
    BY <1>1, <2>5, <2>6, Composed
  <2>8. a.inv = d.inv /\ a.peer = d.peer /\ a.key = d.key /\ a.res = r
    BY <2>6
  <2>9. ASSUME NEW b \in Clients
        PROVE  HolderRight(a, past, an, b)
    <3>1. HolderRight(d, past, an, b)
      BY DEF DatabaseRight
    <3>2. CASE b # c
      BY <3>1, <3>2, <2>5, <2>8 DEF HolderRight
    <3>3. CASE b = c
      <4>1. a.res[c] = new
        BY <2>5, <2>8
      <4>2. a.res[c] # None
        BY <4>1, <2>3, Values
      <4>3. d.inv[i].present /\ ~d.inv[i].spent
        BY <2>2 DEF Live
      <4> QED BY <3>1, <3>3, <4>1, <4>2, <4>3, <2>1, <2>2, <2>3, <2>8 DEF HolderRight
    <3> QED BY <3>2, <3>3
  <2>10. ASSUME NEW j \in Links
         PROVE  OfferRight(a, old, is, w, j)
    <3>1. OfferRight(d, old, is, w, j)
      BY DEF DatabaseRight
    <3>2. d.inv[j] \in Invite
      BY <1>1 DEF Invites
    <3>3. d.inv[j].client \in Clients \cup {None}
      BY <3>2 DEF Invite
    <3>4. d.inv[j].offer = "reserved" => a.res[d.inv[j].client] = d.res[d.inv[j].client]
      BY <3>1, <3>3, <2>1, <2>5, <2>8 DEF OfferRight
    <3> QED BY <3>1, <3>4, <2>8 DEF OfferRight
  <2> QED BY <2>1, <2>5, <2>7, <2>8, <2>9, <2>10 DEF DatabaseRight, a
<1> QED BY <1>2, <1>3

LEMMA PrepareRight ==
  ASSUME NEW d \in Database, NEW is, NEW w, NEW an, NEW c \in Clients, NEW i \in Invites, old \subseteq Links \cap past,
         DatabaseRight(d, past, old, is, w, an), Preparable(d, c, i)
  PROVE  LET e == Prepared(d, c, i) IN
         /\ e \in Database /\ DatabaseRight(e, past, old, is, w, an)
         /\ \A b \in Clients : OneWay(d.peer[b].status, e.peer[b].status)
<1> DEFINE a == Adopted(d, c, {i})
           new == [inv |-> i, createdPeer |-> d.peer[c].status = "absent", createdKey |-> CreatedKey(d, c)]
           v == [a.inv[i] EXCEPT !.peer = c, !.offer = IF @ = "open" THEN "reserved" ELSE @]
           n == [a.inv EXCEPT ![i].peer = c, ![i].offer = IF @ = "open" THEN "reserved" ELSE @]
           p == [a.peer EXCEPT ![c] = IF @.status = "absent" THEN Pending(i) ELSE @]
           k == [a.key EXCEPT ![c] = "active"]
           r == [a.res EXCEPT ![c] = IF @ # None THEN @ ELSE new]
           e == Prepared(d, c, i)
<1>1. /\ a \in Database /\ DatabaseRight(a, past, old, is, w, an)
      /\ a.inv = d.inv /\ a.peer = d.peer /\ a.key = d.key
  BY AdoptRight
<1>2. /\ Live(d, i) /\ d.inv[i].peer \in {None, c}
      /\ i \in Links => (d.inv[i].client = c /\ d.inv[i].offer \in {"open", "reserved"})
      /\ d.peer[c].status \in {"absent", "pending"}
      /\ a.res[c] # None => a.res[c].inv = i
      /\ d.peer[c].status = "pending" => a.res[c] # None
  BY DEF Preparable, Unreserved
<1>3. e = [a EXCEPT !.inv[i].peer = c, !.inv[i].offer = IF @ = "open" THEN "reserved" ELSE @, !.key[c] = "active",
                    !.res[c] = IF @ # None THEN @ ELSE new, !.peer[c] = IF @.status = "absent" THEN Pending(i) ELSE @]
  BY DEF Prepared
<1>4. new \in Reservation /\ new.inv = i /\ (new.createdPeer <=> d.peer[c].status = "absent") /\ (new.createdKey <=> d.key[c] = "absent")
  BY DEF Reservation, CreatedKey
<1> HIDE DEF a, new
<1>5. a.inv \in [Invites -> Invite] /\ a.peer \in [Clients -> Peer] /\ a.key \in [Clients -> Keys]
      /\ a.res \in [Clients -> Reservation \cup {None}]
      /\ a = [inv |-> a.inv, peer |-> a.peer, key |-> a.key, res |-> a.res]
  BY <1>1, Parts
<1>6. e = [inv |-> n, peer |-> p, key |-> k, res |-> r]
  BY <1>3, <1>5
<1>7. /\ v \in Invite /\ v.peer = c /\ v.present = d.inv[i].present /\ v.spent = d.inv[i].spent
      /\ v.client = d.inv[i].client /\ v.offer = IF d.inv[i].offer = "open" THEN "reserved" ELSE d.inv[i].offer
  <2>1. a.inv[i] \in Invite /\ a.inv[i] = d.inv[i]
    BY <1>1, <1>5
  <2> QED BY <2>1 DEF Invite, OfferStates
<1>17. \A j \in Invites : n[j] = IF j = i THEN v ELSE d.inv[j]
  BY <1>1, <1>5
<1>18. DOMAIN n = Invites /\ n = [j \in Invites |-> n[j]]
  BY <1>5
<1> HIDE DEF v, n
<1>8. n \in [Invites -> Invite] /\ \A j \in Invites : n[j] = IF j = i THEN v ELSE d.inv[j]
  <2>1. \A j \in Invites : n[j] \in Invite
    BY <1>1, <1>5, <1>7, <1>17
  <2> QED BY <2>1, <1>17, <1>18
<1>9. /\ p \in [Clients -> Peer]
      /\ \A b \in Clients : p[b] = IF b = c /\ d.peer[b].status = "absent" THEN Pending(i) ELSE d.peer[b]
  BY <1>1, <1>5, Values
<1>10. k \in [Clients -> Keys] /\ \A b \in Clients : k[b] = IF b = c THEN "active" ELSE d.key[b]
  BY <1>1, <1>5 DEF Keys
<1>11. r \in [Clients -> Reservation \cup {None}] /\ \A b \in Clients : r[b] = IF b = c /\ a.res[b] = None THEN new ELSE a.res[b]
  BY <1>4, <1>5
<1> HIDE DEF e, n, p, k, r
<1>12. e \in Database
  BY <1>6, <1>8, <1>9, <1>10, <1>11, Composed
<1>13. e.inv = n /\ e.peer = p /\ e.key = k /\ e.res = r
  BY <1>6
<1>14. ASSUME NEW b \in Clients
       PROVE  HolderRight(e, past, an, b)
  <2>1. HolderRight(a, past, an, b)
    BY <1>1 DEF DatabaseRight
  <2>2. CASE b # c
    <3>1. e.res[b] = a.res[b] /\ e.peer[b] = a.peer[b] /\ e.key[b] = a.key[b]
      BY <2>2, <1>1, <1>9, <1>10, <1>11, <1>13
    <3>2. a.res[b] # None => (a.res[b].inv \in Invites /\ a.res[b].inv # i)
      BY <1>1, <1>2, <1>5, <2>1, <2>2, Values DEF HolderRight, Reservation
    <3>3. a.peer[b].status = "pending" => (a.peer[b].by \in Invites /\ a.peer[b].by # i)
      BY <1>1, <1>2, <1>5, <2>1, <2>2, Values DEF HolderRight
    <3>4. \A j \in Invites \ {i} : e.inv[j] = a.inv[j]
      BY <1>1, <1>8, <1>13
    <3> QED BY <3>1, <3>2, <3>3, <3>4, <2>1 DEF HolderRight
  <2>3. CASE b = c
    <3>1. e.res[c] # None /\ e.res[c].inv = i /\ e.inv[i] = v /\ e.key[c] = "active"
      BY <1>2, <1>4, <1>8, <1>10, <1>11, <1>13, Values
    <3>2. e.peer[c].status = "pending" /\ e.peer[c].by = i
      BY <1>1, <1>2, <1>9, <1>13, <2>1, <2>3, Values DEF HolderRight
    <3>3. e.res[c].createdPeer /\ (e.res[c].createdKey => c \notin an)
      BY <1>1, <1>2, <1>4, <1>11, <1>13, <2>1, <2>3 DEF HolderRight
    <3>4. d.inv[i].present /\ ~d.inv[i].spent
      BY <1>2 DEF Live
    <3> QED BY <2>3, <3>1, <3>2, <3>3, <3>4, <1>2, <1>7 DEF HolderRight
  <2> QED BY <2>2, <2>3
<1>15. ASSUME NEW j \in Links
       PROVE  OfferRight(e, old, is, w, j)
  <2>1. OfferRight(a, old, is, w, j) /\ j \in Invites
    BY <1>1 DEF DatabaseRight, Invites
  <2>2. a.inv[j].client \in Clients \cup {None}
    BY <1>5, <2>1 DEF Invite
  <2>3. CASE j # i
    <3>1. e.inv[j] = a.inv[j]
      BY <2>1, <2>3, <1>1, <1>8, <1>13
    <3>2. a.inv[j].offer = "reserved" => e.res[a.inv[j].client] = a.res[a.inv[j].client]
      BY <2>1, <2>2, <1>11, <1>13 DEF OfferRight
    <3> QED BY <3>1, <3>2, <2>1 DEF OfferRight
  <2>4. CASE j = i
    <3>1. e.inv[i] = v /\ e.res[c] # None /\ e.res[c].inv = i
      BY <1>2, <1>4, <1>8, <1>11, <1>13, Values
    <3>2. i \notin past
      BY <1>2 DEF Live
    <3> QED BY <2>1, <2>4, <3>1, <3>2, <1>1, <1>2, <1>7, Values DEF OfferRight
  <2> QED BY <2>3, <2>4
<1>16. \A b \in Clients : OneWay(d.peer[b].status, e.peer[b].status)
  BY <1>9, <1>13, Values DEF OneWay
<1> QED BY <1>12, <1>14, <1>15, <1>16 DEF DatabaseRight, e

(* The winners after a completion.                                         *)
Won(d, w, v, c) == IF d.peer[c].status = "pending" THEN [w EXCEPT ![v] = @ \cup {c}] ELSE w

LEMMA CommitRight ==
  ASSUME NEW d \in Database, NEW is, NEW w \in [Invites -> SUBSET Clients], NEW an, NEW c \in Clients, NEW i \in Invites,
         DatabaseRight(d, past, old, is, w, an), Committable(d, c, i),
         NEW g, g = Committed(d, c, i), NEW v, v = Named(Claimed(d, c, i), c, i),
         NEW x, x = Won(d, w, v, c), NEW ans, ans = an \cup {c}
  PROVE  /\ g \in Database /\ DatabaseRight(g, past, old, is, x, ans)
         /\ g.peer[c].status = "paired" /\ \A b \in Clients : OneWay(d.peer[b].status, g.peer[b].status)
         /\ x \in [Invites -> SUBSET Clients]
         /\ \A j \in Links : x[j] = w[j] \/ (j = i /\ is[i] = c)
<1> DEFINE a == Claimed(d, c, i)
           p == [a.peer EXCEPT ![c] = Paired(@)]
<1>1. /\ a \in Database /\ DatabaseRight(a, past, old, is, w, an)
      /\ a.inv = d.inv /\ a.peer = d.peer /\ a.key = d.key
  BY AdoptRight DEF Claimed
<1>2. /\ d.peer[c].status \in {"pending", "paired"}
      /\ v \in Links => (v = i /\ d.inv[v].client = c /\ d.inv[v].offer = "reserved")
      /\ a.res[c] # None => a.res[c].inv = v
      /\ d.peer[c].status = "pending" => a.res[c] # None
  BY DEF Committable
<1>3. v = IF i \in Links THEN i ELSE IF a.res[c] # None THEN a.res[c].inv ELSE None
  BY DEF Named
<1>4. g = IF v = None THEN [a EXCEPT !.peer[c] = Paired(@)]
          ELSE [a EXCEPT !.peer[c] = Paired(@),
                         !.inv[v].spent = TRUE,
                         !.inv[v].offer = IF v \in Links THEN "consumed" ELSE @,
                         !.res = [b \in Clients |-> IF @[b] # None /\ @[b].inv = v THEN None ELSE @[b]]]
  BY DEF Committed
<1> HIDE DEF a
<1>5. a.inv \in [Invites -> Invite] /\ a.peer \in [Clients -> Peer] /\ a.key \in [Clients -> Keys]
      /\ a.res \in [Clients -> Reservation \cup {None}]
      /\ a = [inv |-> a.inv, peer |-> a.peer, key |-> a.key, res |-> a.res]
  BY <1>1, Parts
<1>6. \A b \in Clients : HolderRight(a, past, an, b)
  BY <1>1 DEF DatabaseRight
<1>7. \A j \in Links : OfferRight(a, old, is, w, j) /\ j \in Invites
  BY <1>1 DEF DatabaseRight, Invites
<1>8. p \in [Clients -> Peer] /\ \A b \in Clients : p[b] = IF b = c THEN Paired(d.peer[c]) ELSE d.peer[b]
  BY <1>1, <1>5, Values
<1>9. Paired(d.peer[c]).status = "paired"
  BY Values
<1>10. CASE v = None
  <2>1. a.res[c] = None /\ d.peer[c].status = "paired" /\ x = w
    BY <1>2, <1>3, <1>5, <1>10, Values DEF Reservation, Won
  <2>2. g = [a EXCEPT !.peer = p]
    BY <1>4, <1>10
  <2> HIDE DEF p
  <2>3. g = [inv |-> a.inv, peer |-> p, key |-> a.key, res |-> a.res]
    BY <2>2, <1>5
  <2>4. g \in Database /\ g.inv = a.inv /\ g.peer = p /\ g.key = a.key /\ g.res = a.res
    BY <2>3, <1>5, <1>8, Composed
  <2>5. ASSUME NEW b \in Clients
        PROVE  HolderRight(g, past, ans, b)
    <3>1. CASE b # c
      <4>1. p[b] = a.peer[b] /\ (b \in ans <=> b \in an)
        BY <3>1, <1>1, <1>8
      <4> QED BY <4>1, <2>4, <1>6 DEF HolderRight
    <3>2. CASE b = c
      <4>1. g.key[c] = "active"
        BY <2>1, <2>4, <1>1, <1>6 DEF HolderRight
      <4>2. g.res[c] = None /\ g.peer[c].status = "paired"
        BY <2>1, <2>4, <1>8, <1>9
      <4> QED BY <3>2, <4>1, <4>2 DEF HolderRight
    <3> QED BY <3>1, <3>2
  <2>6. ASSUME NEW j \in Links
        PROVE  OfferRight(g, old, is, w, j)
    <3>1. OfferRight(a, old, is, w, j) /\ g.inv[j] = a.inv[j] /\ \A b : g.res[b] = a.res[b]
      BY <2>4, <1>7
    <3> QED BY <3>1 DEF OfferRight
  <2>7. \A b \in Clients : OneWay(d.peer[b].status, g.peer[b].status)
    BY <2>1, <2>4, <1>8, <1>9 DEF OneWay
  <2>8. g.peer[c].status = "paired"
    BY <2>4, <1>8, <1>9
  <2> QED BY <2>1, <2>4, <2>5, <2>6, <2>7, <2>8 DEF DatabaseRight
<1>11. CASE v # None
  <2> DEFINE u == [a.inv[v] EXCEPT !.spent = TRUE, !.offer = IF v \in Links THEN "consumed" ELSE @]
             n == [a.inv EXCEPT ![v].spent = TRUE, ![v].offer = IF v \in Links THEN "consumed" ELSE @]
             r == [b \in Clients |-> IF a.res[b] # None /\ a.res[b].inv = v THEN None ELSE a.res[b]]
  <2>1. v \in Invites /\ a.res[c] # None /\ a.res[c].inv = v
    <3>1. CASE i \in Links
      <4>1. v = i /\ a.inv[i].client = c /\ a.inv[i].offer = "reserved"
        BY <3>1, <1>1, <1>2, <1>3
      <4> QED BY <3>1, <4>1, <1>7 DEF OfferRight
    <3>2. CASE i \notin Links
      BY <3>2, <1>3, <1>5, <1>11 DEF Reservation
    <3> QED BY <3>1, <3>2
  <2>2. d.peer[c].status = "pending" /\ x = [w EXCEPT ![v] = @ \cup {c}]
    BY <2>1, <1>1, <1>2, <1>6 DEF HolderRight, Won
  <2>3. g = [inv |-> n, peer |-> p, key |-> a.key, res |-> r]
    <3>1. g = [a EXCEPT !.peer[c] = Paired(@),
                        !.inv[v].spent = TRUE,
                        !.inv[v].offer = IF v \in Links THEN "consumed" ELSE @,
                        !.res = [b \in Clients |-> IF @[b] # None /\ @[b].inv = v THEN None ELSE @[b]]]
      BY <1>4, <1>11
    <3> HIDE DEF u
    <3> QED BY ONLY <3>1, <1>5, c \in Clients
  <2>4. /\ u \in Invite /\ u.peer = a.inv[v].peer /\ u.present = a.inv[v].present /\ u.client = a.inv[v].client
        /\ u.offer = IF v \in Links THEN "consumed" ELSE a.inv[v].offer
    <3>1. a.inv[v] \in Invite
      BY <2>1, <1>5
    <3> QED BY <3>1 DEF Invite, OfferStates
  <2>5. DOMAIN n = Invites /\ n = [j \in Invites |-> n[j]] /\ \A j \in Invites : n[j] = IF j = v THEN u ELSE a.inv[j]
    BY <2>1, <1>5
  <2>6. r \in [Clients -> Reservation \cup {None}]
        /\ \A b \in Clients : r[b] = IF a.res[b] # None /\ a.res[b].inv = v THEN None ELSE a.res[b]
    BY <1>5
  <2>7. x \in [Invites -> SUBSET Clients] /\ \A j \in Invites : x[j] = IF j = v THEN w[j] \cup {c} ELSE w[j]
    BY <2>1, <2>2
  <2> HIDE DEF u, n, p, r
  <2>8. n \in [Invites -> Invite]
    <3>1. \A j \in Invites : n[j] \in Invite
      BY <2>4, <2>5, <1>5
    <3> QED BY <3>1, <2>5
  <2>9. g = [inv |-> n, peer |-> p, key |-> a.key, res |-> r]
    BY <2>3
  <2>10. g \in Database /\ g.inv = n /\ g.peer = p /\ g.key = a.key /\ g.res = r
    BY <2>6, <2>8, <2>9, <1>5, <1>8, Composed
  <2>11. a.inv[v].peer = c /\ a.inv[v].present /\ a.key[c] = "active"
    BY <2>1, <2>2, <1>1, <1>6 DEF HolderRight
  <2>12. ASSUME NEW b \in Clients
         PROVE  HolderRight(g, past, ans, b)
    <3>1. CASE b # c
      <4>1. p[b] = a.peer[b] /\ (b \in ans <=> b \in an) /\ HolderRight(a, past, an, b)
        BY <3>1, <1>1, <1>6, <1>8
      <4>2. a.res[b] # None => (a.res[b].inv \in Invites /\ a.res[b].inv # v)
        BY <3>1, <4>1, <2>11, <1>5 DEF HolderRight, Reservation
      <4>3. a.peer[b].status = "pending" => (a.peer[b].by \in Invites /\ a.peer[b].by # v)
        BY <3>1, <4>1, <2>11, <1>5, Values DEF HolderRight
      <4>4. g.res[b] = a.res[b]
        BY <4>2, <2>6, <2>10
      <4>5. \A j \in Invites \ {v} : g.inv[j] = a.inv[j]
        BY <2>5, <2>10
      <4> QED BY <4>1, <4>2, <4>3, <4>4, <4>5, <2>10 DEF HolderRight
    <3>2. CASE b = c
      <4>1. g.key[c] = "active" /\ g.res[c] = None /\ g.peer[c].status = "paired"
        BY <2>1, <2>6, <2>10, <2>11, <1>8, <1>9
      <4> QED BY <3>2, <4>1 DEF HolderRight
    <3> QED BY <3>1, <3>2
  <2>13. ASSUME NEW j \in Links
         PROVE  OfferRight(g, old, is, x, j)
    <3>1. OfferRight(a, old, is, w, j) /\ j \in Invites
      BY <1>7
    <3>2. CASE j # v
      <4>1. g.inv[j] = a.inv[j] /\ x[j] = w[j]
        BY <3>1, <3>2, <2>5, <2>7, <2>10
      <4>2. a.inv[j].client \in Clients \cup {None}
        BY <3>1, <1>5 DEF Invite
      <4>3. a.inv[j].offer = "reserved" => g.res[a.inv[j].client] = a.res[a.inv[j].client]
        BY <3>1, <3>2, <4>2, <2>6, <2>10 DEF OfferRight
      <4> QED BY <3>1, <4>1, <4>3 DEF OfferRight
    <3>3. CASE j = v
      <4>1. g.inv[j] = u /\ x[j] = w[j] \cup {c}
        BY <3>1, <3>3, <2>5, <2>7, <2>10
      <4>2. a.inv[j].client = c /\ a.inv[j].offer = "reserved"
        BY <3>3, <1>1, <1>2
      <4>3. w[j] = {} /\ is[j] # None /\ a.inv[j].client = is[j]
        BY <3>1, <3>3, <4>2, <2>11 DEF OfferRight
      <4>4. u.offer = "consumed" /\ u.client = c
        BY <3>3, <4>2, <2>4
      <4> QED BY <4>1, <4>2, <4>3, <4>4 DEF OfferRight
    <3> QED BY <3>2, <3>3
  <2>14. \A b \in Clients : OneWay(d.peer[b].status, g.peer[b].status)
    BY <2>2, <2>10, <1>8, <1>9 DEF OneWay
  <2>15. g.peer[c].status = "paired"
    BY <2>10, <1>8, <1>9
  <2>16. \A j \in Links : x[j] = w[j] \/ (j = i /\ is[i] = c)
    <3> SUFFICES ASSUME NEW j \in Links, x[j] # w[j] PROVE j = i /\ is[i] = c
      OBVIOUS
    <3>1. j = v /\ v = i /\ a.inv[i].client = c
      BY <2>7, <1>1, <1>2, <1>7
    <3> QED BY <3>1, <2>11, <1>7 DEF OfferRight
  <2> QED BY <2>7, <2>10, <2>12, <2>13, <2>14, <2>15, <2>16 DEF DatabaseRight
<1> QED BY <1>10, <1>11

(* A cancelled offer: nobody holds it any more.                            *)
LEMMA CancelRight ==
  ASSUME NEW d \in Database, NEW is, NEW w, NEW an, NEW i \in Links,
         DatabaseRight(d, past, old, is, w, an), Cancellable(d.inv[i])
  PROVE  LET e == [Release(d, HoldersOf(d, {i})) EXCEPT !.inv[i].offer = "cancelled", !.inv[i].spent = TRUE]
         IN /\ e \in Database /\ DatabaseRight(e, past, old, is, w, an)
            /\ \A b \in Clients : OneWay(d.peer[b].status, e.peer[b].status)
<1> DEFINE cs == HoldersOf(d, {i})
           r == Release(d, cs)
           e == [r EXCEPT !.inv[i].offer = "cancelled", !.inv[i].spent = TRUE]
           n == [d.inv EXCEPT ![i].offer = "cancelled", ![i].spent = TRUE]
           u == [d.inv[i] EXCEPT !.offer = "cancelled", !.spent = TRUE]
<1>1. d.inv \in [Invites -> Invite] /\ d.peer \in [Clients -> Peer] /\ d.key \in [Clients -> Keys]
      /\ d.res \in [Clients -> Reservation \cup {None}] /\ i \in Invites
  BY Parts DEF Invites
<1>2. \A c \in Clients : c \in cs <=> (d.res[c] # None /\ d.res[c].inv = i)
  BY DEF HoldersOf
<1>3. /\ r \in Database /\ r.inv = d.inv
      /\ \A c \in Clients :
           /\ r.peer[c] = IF c \in cs /\ d.peer[c].status = "pending" /\ d.res[c].createdPeer THEN NoPeer ELSE d.peer[c]
           /\ r.key[c] = IF c \in cs /\ d.peer[c].status = "pending" /\ d.res[c].createdKey /\ d.key[c] = "active"
                         THEN "absent" ELSE d.key[c]
           /\ r.res[c] = IF c \in cs THEN None ELSE d.res[c]
  <2> HIDE DEF cs
  <2> QED BY Releases
<1> HIDE DEF cs, r
<1>4. r.inv \in [Invites -> Invite] /\ r.peer \in [Clients -> Peer] /\ r.key \in [Clients -> Keys]
      /\ r.res \in [Clients -> Reservation \cup {None}]
      /\ r = [inv |-> r.inv, peer |-> r.peer, key |-> r.key, res |-> r.res]
  BY <1>3, Parts
<1>13. e = [r EXCEPT !.inv[i].offer = "cancelled", !.inv[i].spent = TRUE]
  OBVIOUS
<1>5. e = [inv |-> n, peer |-> r.peer, key |-> r.key, res |-> r.res]
  <2> HIDE DEF e, u
  <2> QED BY <1>3, <1>4, <1>13
<1>6. u \in Invite /\ u.peer = d.inv[i].peer /\ u.present = d.inv[i].present /\ u.client = d.inv[i].client /\ u.offer = "cancelled"
  <2>1. d.inv[i] \in Invite
    BY <1>1
  <2> QED BY <2>1 DEF Invite, OfferStates
<1>7. DOMAIN n = Invites /\ n = [j \in Invites |-> n[j]] /\ \A j \in Invites : n[j] = IF j = i THEN u ELSE d.inv[j]
  BY <1>1
<1> HIDE DEF n, u, e
<1>8. n \in [Invites -> Invite]
  <2>1. \A j \in Invites : n[j] \in Invite
    BY <1>1, <1>6, <1>7
  <2> QED BY <2>1, <1>7
<1>9. e \in Database /\ e.inv = n /\ e.peer = r.peer /\ e.key = r.key /\ e.res = r.res
  BY <1>4, <1>5, <1>8, Composed
<1>10. ASSUME NEW c \in Clients
       PROVE  HolderRight(e, past, an, c)
  <2>1. HolderRight(d, past, an, c)
    BY DEF DatabaseRight
  <2>2. CASE c \in cs
    <3>1. e.res[c] = None
      BY <2>2, <1>3, <1>9
    <3>2. d.res[c] # None /\ d.res[c].createdPeer /\ d.peer[c].status \in {"pending", "revoked"}
          /\ (d.res[c].createdKey => c \notin an)
      BY <2>1, <2>2, <1>2 DEF HolderRight
    <3>3. e.peer[c].status \in {"absent", "revoked"}
      BY <2>2, <3>2, <1>3, <1>9, Values
    <3>4. c \in an => e.key[c] # "absent"
      BY <2>1, <3>2, <1>3, <1>9 DEF HolderRight
    <3> QED BY <3>1, <3>3, <3>4 DEF HolderRight
  <2>3. CASE c \notin cs
    <3>1. e.res[c] = d.res[c] /\ e.peer[c] = d.peer[c] /\ e.key[c] = d.key[c]
      BY <2>3, <1>3, <1>9
    <3>2. d.res[c] # None => (d.res[c].inv \in Invites \ {i})
      BY <2>3, <1>1, <1>2 DEF Reservation
    <3>3. d.peer[c].status = "pending" => (d.peer[c].by \in Invites \ {i})
      BY <2>1, <2>3, <1>1, <1>2, Values DEF HolderRight
    <3>4. \A j \in Invites \ {i} : e.inv[j] = d.inv[j]
      BY <1>7, <1>9
    <3> QED BY <2>1, <3>1, <3>2, <3>3, <3>4 DEF HolderRight
  <2> QED BY <2>2, <2>3
<1>11. ASSUME NEW j \in Links
       PROVE  OfferRight(e, old, is, w, j)
  <2>1. OfferRight(d, old, is, w, j) /\ j \in Invites
    BY DEF DatabaseRight, Invites
  <2>2. CASE j # i
    <3>1. e.inv[j] = d.inv[j]
      BY <2>1, <2>2, <1>7, <1>9
    <3>2. d.inv[j].client \in Clients \cup {None}
      BY <2>1, <1>1 DEF Invite
    <3>3. d.inv[j].offer = "reserved" => e.res[d.inv[j].client] = d.res[d.inv[j].client]
      BY <2>1, <2>2, <3>2, <1>2, <1>3, <1>9 DEF OfferRight
    <3> QED BY <2>1, <3>1, <3>3 DEF OfferRight
  <2>3. CASE j = i
    <3>1. e.inv[j] = u
      BY <2>3, <1>1, <1>7, <1>9
    <3> QED BY <2>1, <2>3, <3>1, <1>6 DEF OfferRight, Cancellable
  <2> QED BY <2>2, <2>3
<1>12. \A b \in Clients : OneWay(d.peer[b].status, e.peer[b].status)
  BY <1>3, <1>9 DEF OneWay
<1> QED BY <1>9, <1>10, <1>11, <1>12 DEF DatabaseRight, e, r, cs

(* A new invitation in a file.                                             *)
LEMMA FileRight ==
  ASSUME NEW d \in Database, NEW is, NEW w, NEW an, NEW i \in Files,
         DatabaseRight(d, past, old, is, w, an)
  PROVE  LET e == [d EXCEPT !.inv[i].present = TRUE]
         IN e \in Database /\ DatabaseRight(e, past, old, is, w, an) /\ e.peer = d.peer
<1> DEFINE e == [d EXCEPT !.inv[i].present = TRUE]
           n == [d.inv EXCEPT ![i].present = TRUE]
           u == [d.inv[i] EXCEPT !.present = TRUE]
<1>1. d.inv \in [Invites -> Invite] /\ d.peer \in [Clients -> Peer] /\ d.key \in [Clients -> Keys]
      /\ d.res \in [Clients -> Reservation \cup {None}] /\ i \in Invites
      /\ d = [inv |-> d.inv, peer |-> d.peer, key |-> d.key, res |-> d.res]
  BY Parts DEF Invites
<1>9. e = [d EXCEPT !.inv[i].present = TRUE]
  OBVIOUS
<1>2. e = [inv |-> n, peer |-> d.peer, key |-> d.key, res |-> d.res]
  <2> HIDE DEF e, u
  <2> QED BY <1>1, <1>9
<1>3. u \in Invite /\ u.peer = d.inv[i].peer /\ u.present /\ u.client = d.inv[i].client /\ u.offer = d.inv[i].offer
      /\ u.spent = d.inv[i].spent
  <2>1. d.inv[i] \in Invite
    BY <1>1
  <2> QED BY <2>1 DEF Invite
<1>4. n \in [Invites -> Invite] /\ \A j \in Invites : n[j] = IF j = i THEN u ELSE d.inv[j]
  BY <1>1, <1>3
<1> HIDE DEF n, u, e
<1>5. e \in Database /\ e.inv = n /\ e.peer = d.peer /\ e.key = d.key /\ e.res = d.res
  BY <1>1, <1>2, <1>4, Composed
<1>6. \A j \in Invites : /\ d.inv[j].present => e.inv[j].present
                         /\ e.inv[j].spent = d.inv[j].spent /\ e.inv[j].peer = d.inv[j].peer
                         /\ e.inv[j].client = d.inv[j].client /\ e.inv[j].offer = d.inv[j].offer
  BY <1>3, <1>4, <1>5
<1>7. ASSUME NEW c \in Clients
      PROVE  HolderRight(e, past, an, c)
  <2>1. HolderRight(d, past, an, c)
    BY DEF DatabaseRight
  <2>2. d.res[c] # None => d.res[c].inv \in Invites
    BY <1>1 DEF Reservation
  <2>3. d.peer[c].status = "pending" => d.peer[c].by \in Invites
    BY <1>1, Values
  <2>4. e.res[c] = d.res[c] /\ e.peer[c] = d.peer[c] /\ e.key[c] = d.key[c]
    BY <1>5
  <2> QED BY <2>1, <2>2, <2>3, <2>4, <1>6 DEF HolderRight
<1>8. ASSUME NEW j \in Links
      PROVE  OfferRight(e, old, is, w, j)
  <2>1. OfferRight(d, old, is, w, j) /\ e.inv[j] = d.inv[j] /\ e.res = d.res
    BY FilesAreNoLinks, <1>4, <1>5 DEF DatabaseRight, Invites
  <2> QED BY <2>1 DEF OfferRight
<1> QED BY <1>5, <1>7, <1>8 DEF DatabaseRight, e

(* A new offer, of a link that was never made.                             *)
Offering(d, i, c) == [d EXCEPT !.inv[i] = [NoInvite EXCEPT !.present = TRUE, !.client = c, !.offer = "open"]]
LEMMA LinkRight ==
  ASSUME NEW d \in Database, NEW is \in [Links -> Clients \cup {None}], NEW w, NEW an, NEW i \in Links, NEW c \in Clients,
         DatabaseRight(d, past, old, is, w, an), is[i] = None, i \notin past, old \subseteq past,
         NEW f, f = Offering(d, i, c), NEW s, s = [is EXCEPT ![i] = c]
  PROVE  f \in Database /\ DatabaseRight(f, past, old, s, w, an) /\ f.peer = d.peer
<1> DEFINE u == [NoInvite EXCEPT !.present = TRUE, !.client = c, !.offer = "open"]
           n == [d.inv EXCEPT ![i] = u]
<1>1. d.inv \in [Invites -> Invite] /\ d.peer \in [Clients -> Peer] /\ d.key \in [Clients -> Keys]
      /\ d.res \in [Clients -> Reservation \cup {None}] /\ i \in Invites
      /\ d = [inv |-> d.inv, peer |-> d.peer, key |-> d.key, res |-> d.res]
  BY Parts DEF Invites
<1>2. u \in Invite /\ u.present /\ u.client = c /\ u.offer = "open"
  BY DEF NoInvite, Invite, OfferStates
<1>3. s[i] = c /\ \A j \in Links \ {i} : s[j] = is[j]
  OBVIOUS
<1>10. f = [d EXCEPT !.inv[i] = u]
  BY DEF Offering
<1> HIDE DEF u
<1>4. f = [inv |-> n, peer |-> d.peer, key |-> d.key, res |-> d.res]
  BY ONLY <1>1, <1>10
<1>5. n \in [Invites -> Invite] /\ \A j \in Invites : n[j] = IF j = i THEN u ELSE d.inv[j]
  BY <1>1, <1>2
<1> HIDE DEF n
<1>6. f \in Database /\ f.inv = n /\ f.peer = d.peer /\ f.key = d.key /\ f.res = d.res
  BY <1>1, <1>4, <1>5, Composed
<1>7. ~d.inv[i].present /\ w[i] = {}
  BY DEF DatabaseRight, OfferRight
<1>8. ASSUME NEW b \in Clients
      PROVE  HolderRight(f, past, an, b)
  <2>1. HolderRight(d, past, an, b)
    BY DEF DatabaseRight
  <2>2. d.res[b] # None => d.res[b].inv \in Invites \ {i}
    BY <2>1, <1>1, <1>7 DEF HolderRight, Reservation
  <2>3. d.peer[b].status = "pending" => d.peer[b].by \in Invites \ {i}
    BY <2>1, <2>2, <1>1, <1>7, Values DEF HolderRight
  <2>4. f.res[b] = d.res[b] /\ f.peer[b] = d.peer[b] /\ f.key[b] = d.key[b]
    BY <1>6
  <2>5. \A j \in Invites \ {i} : f.inv[j] = d.inv[j]
    BY <1>5, <1>6
  <2> QED BY <2>1, <2>2, <2>3, <2>4, <2>5 DEF HolderRight
<1>9. ASSUME NEW j \in Links
      PROVE  OfferRight(f, old, s, w, j)
  <2>1. OfferRight(d, old, is, w, j) /\ j \in Invites
    BY DEF DatabaseRight, Invites
  <2>2. CASE j # i
    <3>1. f.inv[j] = d.inv[j] /\ f.res = d.res /\ s[j] = is[j]
      BY <2>1, <2>2, <1>3, <1>5, <1>6
    <3> QED BY <2>1, <3>1 DEF OfferRight
  <2>3. CASE j = i
    <3>1. f.inv[j] = u
      BY <2>3, <1>1, <1>5, <1>6
    <3> QED BY <2>3, <3>1, <1>2, <1>3, <1>7, Values DEF OfferRight
  <2> QED BY <2>2, <2>3
<1> QED BY <1>6, <1>8, <1>9 DEF DatabaseRight

Revoking(d, c) == [d EXCEPT !.peer[c].status = IF @ = "absent" THEN @ ELSE "revoked",
                            !.key[c] = IF @ = "absent" THEN @ ELSE "revoked"]
(* A revoked client, which is not expired first.                           *)
LEMMA RevokeRight ==
  ASSUME NEW d \in Database, NEW is, NEW w, NEW an, NEW c \in Clients,
         DatabaseRight(d, past, old, is, w, an)
  PROVE  LET e == Revoking(d, c) IN
         /\ e \in Database /\ DatabaseRight(e, past, old, is, w, an)
         /\ \A b \in Clients : OneWay(d.peer[b].status, e.peer[b].status)
<1> DEFINE e == Revoking(d, c)
           u == [d.peer[c] EXCEPT !.status = IF @ = "absent" THEN @ ELSE "revoked"]
           p == [d.peer EXCEPT ![c].status = IF @ = "absent" THEN @ ELSE "revoked"]
           k == [d.key EXCEPT ![c] = IF @ = "absent" THEN @ ELSE "revoked"]
<1>1. d.inv \in [Invites -> Invite] /\ d.peer \in [Clients -> Peer] /\ d.key \in [Clients -> Keys]
      /\ d.res \in [Clients -> Reservation \cup {None}]
      /\ d = [inv |-> d.inv, peer |-> d.peer, key |-> d.key, res |-> d.res]
  BY Parts
<1>10. e = [d EXCEPT !.peer[c].status = IF @ = "absent" THEN @ ELSE "revoked",
                     !.key[c] = IF @ = "absent" THEN @ ELSE "revoked"]
  BY DEF Revoking
<1>2. e = [inv |-> d.inv, peer |-> p, key |-> k, res |-> d.res]
  <2> HIDE DEF e, u
  <2> QED BY <1>1, <1>10
<1>3. u \in Peer /\ u.status = (IF d.peer[c].status = "absent" THEN "absent" ELSE "revoked")
  <2>1. d.peer[c] \in Peer
    BY <1>1
  <2> QED BY <2>1 DEF Peer
<1>4. p \in [Clients -> Peer] /\ \A b \in Clients : p[b] = IF b = c THEN u ELSE d.peer[b]
  BY <1>1, <1>3
<1>5. /\ k \in [Clients -> Keys]
      /\ \A b \in Clients : k[b] = IF b = c /\ d.key[b] # "absent" THEN "revoked" ELSE d.key[b]
  BY <1>1 DEF Keys
<1> HIDE DEF p, k, u, e
<1>6. e \in Database /\ e.inv = d.inv /\ e.peer = p /\ e.key = k /\ e.res = d.res
  BY <1>1, <1>2, <1>4, <1>5, Composed
<1>7. ASSUME NEW b \in Clients
      PROVE  HolderRight(e, past, an, b)
  <2>1. HolderRight(d, past, an, b)
    BY DEF DatabaseRight
  <2>2. CASE b # c
    <3>1. e.peer[b] = d.peer[b] /\ e.key[b] = d.key[b]
      BY <2>2, <1>4, <1>5, <1>6
    <3> QED BY <2>1, <3>1, <1>6 DEF HolderRight
  <2>3. CASE b = c
    <3>1. e.peer[b].status = (IF d.peer[c].status = "absent" THEN "absent" ELSE "revoked")
          /\ (e.key[b] = "absent" <=> d.key[b] = "absent")
      BY <2>3, <1>3, <1>4, <1>5, <1>6
    <3> QED BY <2>1, <2>3, <3>1, <1>6 DEF HolderRight
  <2> QED BY <2>2, <2>3
<1>8. ASSUME NEW j \in Links
      PROVE  OfferRight(e, old, is, w, j)
  <2>1. OfferRight(d, old, is, w, j)
    BY DEF DatabaseRight
  <2> QED BY <2>1, <1>6 DEF OfferRight
<1>9. \A b \in Clients : OneWay(d.peer[b].status, e.peer[b].status)
  BY <1>3, <1>4, <1>6 DEF OneWay
<1> QED BY <1>6, <1>7, <1>8, <1>9 DEF DatabaseRight, e

(* Time that passes.                                                       *)
LEMMA LaterRight ==
  ASSUME NEW d \in Database, NEW is, NEW w, NEW an, NEW i \in Invites,
         DatabaseRight(d, past, old, is, w, an)
  PROVE  /\ DatabaseRight(d, past \cup {i}, old, is, w, an)
         /\ d.inv[i].offer \in {"consumed", "cancelled", "expired"} => DatabaseRight(d, past, old \cup {i}, is, w, an)
<1>1. ASSUME NEW c \in Clients
      PROVE  HolderRight(d, past \cup {i}, an, c)
  <2>1. HolderRight(d, past, an, c) /\ \A j : j \notin past \cup {i} => j \notin past
    BY DEF DatabaseRight
  <2> QED BY <2>1 DEF HolderRight
<1>2. ASSUME d.inv[i].offer \in {"consumed", "cancelled", "expired"}, NEW j \in Links
      PROVE  OfferRight(d, old \cup {i}, is, w, j)
  <2>1. OfferRight(d, old, is, w, j)
    BY DEF DatabaseRight
  <2> QED BY <1>2, <2>1 DEF OfferRight
<1> QED BY <1>1, <1>2 DEF DatabaseRight

-----------------------------------------------------------------------------
(* The clients' stores.                                                    *)

LEMMA Stores ==
  ASSUME NEW s \in ClientStore
  PROVE  /\ s.peer \in Peer /\ s.key \in Keys /\ s.res \in Reservation \cup {None} /\ s.intents \in SUBSET Links
         /\ s = [peer |-> s.peer, key |-> s.key, res |-> s.res, intents |-> s.intents]
         /\ \A p \in Peer, k \in Keys, r \in Reservation \cup {None}, n \in SUBSET Links :
              [peer |-> p, key |-> k, res |-> r, intents |-> n] \in ClientStore
BY DEF ClientStore

(* What happens to a client's store on the way of a command: no trust is   *)
(* gained or taken and no intent forgotten.                                *)
Calm(s, t) ==
  /\ t \in ClientStore /\ t.intents = s.intents
  /\ OneWay(s.peer.status, t.peer.status)
  /\ t.peer.status = "paired" => s.peer.status = "paired"

LEMMA DroppedCalm ==
  ASSUME NEW s \in ClientStore, s.res # None
  PROVE  Calm(s, Dropped(s)) /\ (s.peer.status # "pending" => Dropped(s).peer = s.peer)
<1> DEFINE p == IF s.peer.status = "pending" /\ s.res.createdPeer THEN NoPeer ELSE s.peer
           k == IF s.peer.status = "pending" /\ s.res.createdKey /\ s.key = "active" THEN "absent" ELSE s.key
<1>1. s.peer \in Peer /\ s.key \in Keys /\ s.intents \in SUBSET Links
      /\ s = [peer |-> s.peer, key |-> s.key, res |-> s.res, intents |-> s.intents]
  BY Stores
<1>5. Dropped(s) = [s EXCEPT !.peer = p, !.key = k, !.res = None]
  BY DEF Dropped
<1>3. p \in Peer /\ k \in Keys /\ (p = s.peer \/ (p.status = "absent" /\ s.peer.status = "pending"))
  BY <1>1, Values DEF Keys
<1> HIDE DEF p, k
<1>2. Dropped(s) = [peer |-> p, key |-> k, res |-> None, intents |-> s.intents]
  BY <1>1, <1>5
<1>4. Dropped(s) \in ClientStore /\ Dropped(s).peer = p /\ Dropped(s).intents = s.intents
  BY <1>1, <1>2, <1>3, Stores
<1> QED BY <1>3, <1>4 DEF Calm, OneWay

LEMMA LapsedCalm ==
  ASSUME NEW s \in ClientStore
  PROVE  Calm(s, Lapsed(s)) /\ (s.peer.status = "paired" => Lapsed(s).peer.status = "paired")
<1>1. CASE ~Overage(s)
  BY <1>1 DEF Lapsed, Calm, OneWay
<1>2. CASE Overage(s)
  <2> DEFINE t == IF s.res # None THEN Dropped(s) ELSE s
  <2>1. t \in ClientStore /\ t.intents = s.intents
    BY DroppedCalm DEF Calm
  <2>2. Lapsed(s) = [t EXCEPT !.peer = NoPeer]
    BY <1>2 DEF Lapsed
  <2> HIDE DEF t
  <2>3. t.key \in Keys /\ t.res \in Reservation \cup {None} /\ t.intents \in SUBSET Links
        /\ t = [peer |-> t.peer, key |-> t.key, res |-> t.res, intents |-> t.intents]
    BY <2>1, Stores
  <2>4. Lapsed(s) = [peer |-> NoPeer, key |-> t.key, res |-> t.res, intents |-> t.intents]
    BY <2>2, <2>3
  <2>5. Lapsed(s) \in ClientStore /\ Lapsed(s).peer = NoPeer /\ Lapsed(s).intents = s.intents
    BY <2>1, <2>3, <2>4, Values, Stores
  <2>6. s.peer.status = "pending"
    BY <1>2 DEF Overage
  <2> QED BY <2>5, <2>6, Values DEF Calm, OneWay
<1> QED BY <1>1, <1>2

LEMMA StagedCalm ==
  ASSUME NEW s \in ClientStore, NEW i \in Invites, Stageable(s, i)
  PROVE  Calm(s, Staged(s, i))
<1>1. CASE s.peer.status = "paired"
  BY <1>1 DEF Staged, Calm, OneWay
<1>2. CASE s.peer.status # "paired"
  <2> DEFINE new == [inv |-> i, createdPeer |-> s.peer.status = "absent", createdKey |-> s.key = "absent"]
             r == IF s.res # None THEN s.res ELSE new
  <2>1. s.res \in Reservation \cup {None} /\ s.intents \in SUBSET Links
        /\ s = [peer |-> s.peer, key |-> s.key, res |-> s.res, intents |-> s.intents]
    BY Stores
  <2>2. r \in Reservation \cup {None} /\ "active" \in Keys /\ Pending(i) \in Peer
    BY <2>1, Values DEF Reservation, Keys
  <2>3. Staged(s, i) = [peer |-> Pending(i), key |-> "active", res |-> r, intents |-> s.intents]
    BY <1>2, <2>1 DEF Staged
  <2> HIDE DEF r, new
  <2>4. Staged(s, i) \in ClientStore
    BY <2>1, <2>2, <2>3, Stores
  <2>5. Staged(s, i).peer = Pending(i) /\ Staged(s, i).intents = s.intents
    BY <2>3
  <2>6. s.peer.status # "revoked"
    BY <1>2 DEF Stageable
  <2> QED BY <1>2, <2>4, <2>5, <2>6, Values DEF Calm, OneWay
<1> QED BY <1>1, <1>2

LEMMA CalmTwice ==
  ASSUME NEW s, NEW t, NEW u, Calm(s, t), Calm(t, u), s.peer.status = "paired" => t.peer.status = "paired"
  PROVE  Calm(s, u)
BY DEF Calm, OneWay

LEMMA RememberedRight ==
  ASSUME NEW s \in ClientStore, NEW i, Rememberable(s, i)
  PROVE  LET t == [s EXCEPT !.key = "active",
                            !.peer = IF @.status = "paired" THEN @ ELSE Paired(@),
                            !.res = IF s.peer.status # "paired" /\ @ # None /\ @.inv = i THEN None ELSE @]
         IN t \in ClientStore /\ t.intents = s.intents /\ OneWay(s.peer.status, t.peer.status)
<1> DEFINE p == IF s.peer.status = "paired" THEN s.peer ELSE Paired(s.peer)
           r == IF s.peer.status # "paired" /\ s.res # None /\ s.res.inv = i THEN None ELSE s.res
           t == [s EXCEPT !.key = "active",
                          !.peer = IF @.status = "paired" THEN @ ELSE Paired(@),
                          !.res = IF s.peer.status # "paired" /\ @ # None /\ @.inv = i THEN None ELSE @]
<1>1. s.peer \in Peer /\ s.res \in Reservation \cup {None} /\ s.intents \in SUBSET Links
      /\ s = [peer |-> s.peer, key |-> s.key, res |-> s.res, intents |-> s.intents]
  BY Stores
<1>2. t = [s EXCEPT !.key = "active", !.peer = p, !.res = r]
  OBVIOUS
<1>3. p \in Peer /\ p.status = "paired" /\ r \in Reservation \cup {None} /\ "active" \in Keys
  BY <1>1, Values DEF Keys
<1> HIDE DEF p, r, t
<1>4. t = [peer |-> p, key |-> "active", res |-> r, intents |-> s.intents]
  BY <1>1, <1>2
<1>5. t \in ClientStore /\ t.peer = p /\ t.intents = s.intents
  BY <1>1, <1>3, <1>4, Stores
<1>6. s.peer.status # "revoked"
  BY DEF Rememberable
<1> QED BY <1>3, <1>5, <1>6 DEF OneWay, t

-----------------------------------------------------------------------------
(* The steps.  In a step no intent is forgotten, and trust is only ever    *)
(* taken by a revocation.                                                  *)
Grows == \A c \in Clients : cl[c].intents \subseteq cl'[c].intents
TrustStep ==
  \A c \in Clients : /\ OneWay(db.peer[c].status, db'.peer[c].status)
                     /\ OneWay(cl[c].peer.status, cl'[c].peer.status)

(* The commands that do not move.                                          *)
LEMMA Others ==
  ASSUME IInv, Grows, TrustStep, NEW q \in Procs, proc'[q] = proc[q]
  PROVE  CommandRight(q)'
<1>1. CommandRight(q)
  BY DEF IInv
<1> QED BY <1>1 DEF CommandRight, Grows, TrustStep, OneWay, Decided

LEMMA Moving ==
  ASSUME IInv, Grows, TrustStep, NEW p \in Procs, NEW pc \in PCs \ {"intent"}, proc[p].pc # "idle", Move(p, pc),
         proc[p].inv \in Links => proc[p].inv \in cl'[proc[p].client].intents,
         pc \in {"tryRemember", "remember"} => db'.peer[proc[p].client].status \in Decided
  PROVE  proc' \in [Procs -> Process] /\ \A q \in Procs : CommandRight(q)'
<1>1. proc \in [Procs -> Process]
  BY DEF IInv, TypeOK
<1>2. /\ proc' = [proc EXCEPT ![p].pc = pc]
      /\ proc'[p].pc = pc /\ proc'[p].client = proc[p].client /\ proc'[p].inv = proc[p].inv
      /\ \A q \in Procs \ {p} : proc'[q] = proc[q]
  BY <1>1 DEF Move, Process
<1>3. proc' \in [Procs -> Process]
  BY <1>1, <1>2 DEF Process
<1>4. CommandRight(p)
  BY DEF IInv
<1>5. CommandRight(p)'
  BY <1>2, <1>4 DEF CommandRight
<1> QED BY <1>2, <1>3, <1>5, Others

LEMMA Ending ==
  ASSUME IInv, Grows, TrustStep, NEW p \in Procs, End(p)
  PROVE  proc' \in [Procs -> Process] /\ \A q \in Procs : CommandRight(q)'
<1>1. proc \in [Procs -> Process]
  BY DEF IInv, TypeOK
<1>2. proc' \in [Procs -> Process] /\ proc'[p].pc = "idle" /\ \A q \in Procs \ {p} : proc'[q] = proc[q]
  BY <1>1 DEF End, NoProcess, Process, PCs
<1> QED BY <1>2, Others DEF CommandRight

(* A request whose answer is lost.                                         *)
LEMMA Failing ==
  ASSUME IInv, Grows, TrustStep, NEW p \in Procs, proc[p].pc \in {"trying", "preparing", "finishing"}, Fail(p)
  PROVE  proc' \in [Procs -> Process] /\ \A q \in Procs : CommandRight(q)'
<1>1. CommandRight(p) /\ proc[p].client \in Clients
  BY DEF IInv, CommandRight
<1>2. proc[p].inv \in Links => proc[p].inv \in cl'[proc[p].client].intents
  BY <1>1 DEF CommandRight, Grows
<1>3. Move(p, "stage") \/ End(p) \/ Move(p, "finish")
  BY DEF Fail
<1>4. CASE Move(p, "stage")
  BY <1>2, <1>4, Moving DEF PCs
<1>5. CASE Move(p, "finish")
  BY <1>2, <1>5, Moving DEF PCs
<1> QED BY <1>3, <1>4, <1>5, Ending

(* A step of a command in its client's own store.                          *)
LEMMA LocalStep ==
  ASSUME IInv, Local, cl' \in [Clients -> ClientStore], Grows,
         \A c \in Clients : /\ OneWay(cl[c].peer.status, cl'[c].peer.status)
                            /\ cl'[c].peer.status = "paired" => (cl[c].peer.status = "paired" \/ db.peer[c].status \in Decided),
         proc' \in [Procs -> Process], \A q \in Procs : CommandRight(q)'
  PROVE  IInv' /\ TrustStep
<1>1. UNCHANGED <<db, past, old, clientPast, strays, issued, winners, anchors>>
  BY DEF Local
<1>2. TypeOK'
  BY <1>1 DEF IInv, TypeOK
<1>3. DatabaseRight(db', past', old', issued', winners', anchors')
  BY <1>1 DEF IInv
<1>4. \A q \in strays' : StrayRight(q)'
  BY <1>1 DEF IInv, StrayRight, Grows, TypeOK, Request
<1>5. \A i \in Links : WinnerRight(i)'
  <2> SUFFICES ASSUME NEW i \in Links, winners[i] # {} PROVE i \in cl'[issued[i]].intents
    BY <1>1 DEF WinnerRight
  <2>1. i \in cl[issued[i]].intents
    BY DEF IInv, WinnerRight
  <2>2. issued[i] \in Clients
    <3>1. OfferRight(db, old, issued, winners, i) /\ issued \in [Links -> Clients \cup {None}]
      BY DEF IInv, TypeOK, DatabaseRight
    <3> QED BY <3>1 DEF OfferRight
  <2> QED BY <2>1, <2>2 DEF Grows
<1>6. ClientNotAhead'
  BY <1>1 DEF IInv, ClientNotAhead, Decided
<1>7. TrustStep
  BY <1>1 DEF TrustStep, OneWay
<1> QED BY <1>2, <1>3, <1>4, <1>5, <1>6, <1>7 DEF IInv

LEMMA Keeping ==
  ASSUME IInv, NEW p \in Procs, proc[p].client \in Clients, NEW s \in ClientStore, Keep(p, s),
         Client(p).intents \subseteq s.intents, OneWay(Client(p).peer.status, s.peer.status),
         s.peer.status = "paired" => (Client(p).peer.status = "paired" \/ db.peer[proc[p].client].status \in Decided)
  PROVE  /\ cl' \in [Clients -> ClientStore] /\ Grows /\ cl'[proc[p].client] = s
         /\ \A c \in Clients : /\ OneWay(cl[c].peer.status, cl'[c].peer.status)
                               /\ cl'[c].peer.status = "paired" => (cl[c].peer.status = "paired" \/ db.peer[c].status \in Decided)
<1>1. cl \in [Clients -> ClientStore]
  BY DEF IInv, TypeOK
<1>2. /\ cl' \in [Clients -> ClientStore] /\ cl'[proc[p].client] = s
      /\ \A c \in Clients \ {proc[p].client} : cl'[c] = cl[c]
  BY <1>1 DEF Keep
<1>3. Grows
  BY <1>2 DEF Grows, Client
<1>4. ASSUME NEW c \in Clients
      PROVE  /\ OneWay(cl[c].peer.status, cl'[c].peer.status)
             /\ cl'[c].peer.status = "paired" => (cl[c].peer.status = "paired" \/ db.peer[c].status \in Decided)
  BY <1>2 DEF Client, OneWay
<1> QED BY <1>2, <1>3, <1>4

(* A store that stays as it is.                                            *)
LEMMA Same ==
  ASSUME IInv, UNCHANGED cl
  PROVE  /\ cl' \in [Clients -> ClientStore] /\ Grows
         /\ \A c \in Clients : /\ OneWay(cl[c].peer.status, cl'[c].peer.status)
                               /\ cl'[c].peer.status = "paired" => (cl[c].peer.status = "paired" \/ db.peer[c].status \in Decided)
BY DEF IInv, TypeOK, Grows, OneWay

(* A step in the receiver's store.                                         *)
LEMMA StoreStep ==
  ASSUME IInv, UNCHANGED cl, past' \subseteq Invites, clientPast' \subseteq Invites, old' \subseteq Links \cap past',
         db' \in Database, DatabaseRight(db', past', old', issued', winners', anchors'),
         \A c \in Clients : OneWay(db.peer[c].status, db'.peer[c].status),
         strays' \subseteq Request, \A q \in strays' : StrayRight(q)', issued' \in [Links -> Clients \cup {None}],
         winners' \in [Invites -> SUBSET Clients], anchors' \subseteq Clients, \A i \in Links : WinnerRight(i)',
         proc' \in [Procs -> Process], \A q \in Procs : CommandRight(q)'
  PROVE  IInv' /\ TrustStep
<1>1. TypeOK'
  BY DEF IInv, TypeOK
<1>2. ClientNotAhead'
  BY DEF IInv, ClientNotAhead, OneWay
<1>3. TrustStep
  BY DEF TrustStep, OneWay
<1> QED BY <1>1, <1>2, <1>3 DEF IInv

(* A command in its client's store: what it keeps and where it goes.       *)
LEMMA Keeps ==
  ASSUME IInv, Local, NEW p \in Procs, proc[p].pc # "idle", proc[p].pc # "intent", NEW s, Keep(p, s), Calm(Client(p), s)
  PROVE  /\ \A pc \in PCs \ {"intent", "tryRemember", "remember"} : Move(p, pc) => (IInv' /\ TrustStep)
         /\ End(p) => (IInv' /\ TrustStep)
<1>1. CommandRight(p) /\ proc[p].client \in Clients /\ (proc[p].inv \in Links => proc[p].inv \in cl[proc[p].client].intents)
  BY DEF IInv, CommandRight
<1>2. s \in ClientStore /\ Client(p).intents \subseteq s.intents /\ OneWay(Client(p).peer.status, s.peer.status)
      /\ (s.peer.status = "paired" => Client(p).peer.status = "paired")
  BY DEF Calm
<1>3. /\ cl' \in [Clients -> ClientStore] /\ Grows /\ cl'[proc[p].client] = s
      /\ \A c \in Clients : /\ OneWay(cl[c].peer.status, cl'[c].peer.status)
                            /\ cl'[c].peer.status = "paired" => (cl[c].peer.status = "paired" \/ db.peer[c].status \in Decided)
  BY <1>1, <1>2, Keeping
<1>4. TrustStep
  BY <1>3 DEF TrustStep, Local, OneWay
<1>5. proc[p].inv \in Links => proc[p].inv \in cl'[proc[p].client].intents
  BY <1>1, <1>2, <1>3 DEF Client
<1>6. ASSUME NEW pc \in PCs \ {"intent", "tryRemember", "remember"}, Move(p, pc)
      PROVE  IInv' /\ TrustStep
  <2>1. proc' \in [Procs -> Process] /\ \A q \in Procs : CommandRight(q)'
    BY <1>3, <1>4, <1>5, <1>6, Moving
  <2> QED BY <2>1, <1>3, LocalStep
<1>7. ASSUME End(p)
      PROVE  IInv' /\ TrustStep
  <2>1. proc' \in [Procs -> Process] /\ \A q \in Procs : CommandRight(q)'
    BY <1>3, <1>4, <1>7, Ending
  <2> QED BY <2>1, <1>3, LocalStep
<1> QED BY <1>6, <1>7

(* The same with the store as it is.                                       *)
LEMMA Stays ==
  ASSUME IInv, Local, UNCHANGED cl, NEW p \in Procs
  PROVE  /\ \A pc \in PCs \ {"intent", "tryRemember", "remember"} :
              (proc[p].pc # "idle" /\ proc[p].pc # "intent" /\ Move(p, pc)) => (IInv' /\ TrustStep)
         /\ End(p) => (IInv' /\ TrustStep)
<1>1. /\ cl' \in [Clients -> ClientStore] /\ Grows
      /\ \A c \in Clients : /\ OneWay(cl[c].peer.status, cl'[c].peer.status)
                            /\ cl'[c].peer.status = "paired" => (cl[c].peer.status = "paired" \/ db.peer[c].status \in Decided)
  BY Same
<1>2. TrustStep
  BY <1>1 DEF TrustStep, Local, OneWay
<1>3. ASSUME NEW pc \in PCs \ {"intent", "tryRemember", "remember"}, proc[p].pc # "idle", proc[p].pc # "intent", Move(p, pc)
      PROVE  IInv' /\ TrustStep
  <2>1. CommandRight(p)
    BY DEF IInv
  <2>2. proc[p].inv \in Links => proc[p].inv \in cl'[proc[p].client].intents
    BY <2>1, <1>3 DEF CommandRight
  <2>3. proc' \in [Procs -> Process] /\ \A q \in Procs : CommandRight(q)'
    BY <2>2, <1>1, <1>2, <1>3, Moving
  <2> QED BY <2>3, <1>1, LocalStep
<1>4. ASSUME End(p)
      PROVE  IInv' /\ TrustStep
  <2>1. proc' \in [Procs -> Process] /\ \A q \in Procs : CommandRight(q)'
    BY <1>1, <1>2, <1>4, Ending
  <2> QED BY <2>1, <1>1, LocalStep
<1> QED BY <1>3, <1>4

LEMMA StartKeeps ==
  ASSUME IInv, NEW p \in Procs, NEW c \in Clients, NEW i \in Invites, Start(p, c, i)
  PROVE  IInv' /\ TrustStep
<1>1. /\ cl' \in [Clients -> ClientStore] /\ Grows
      /\ \A b \in Clients : /\ OneWay(cl[b].peer.status, cl'[b].peer.status)
                            /\ cl'[b].peer.status = "paired" => (cl[b].peer.status = "paired" \/ db.peer[b].status \in Decided)
  BY Same DEF Start
<1>2. TrustStep
  BY <1>1 DEF TrustStep, Start, Local, OneWay
<1>3. proc \in [Procs -> Process]
  BY DEF IInv, TypeOK
<1> DEFINE v == [pc |-> IF i \in Links THEN "intent" ELSE "look", client |-> c, inv |-> i, saved |-> FALSE]
<1>4. v \in Process /\ v.client = c /\ v.inv = i /\ v.pc \in {"intent", "look"} /\ (i \in Links <=> v.pc = "intent")
  BY DEF Process, PCs
<1>5. proc' = [proc EXCEPT ![p] = v]
  BY DEF Start
<1> HIDE DEF v
<1>6. proc' \in [Procs -> Process] /\ proc'[p] = v /\ \A q \in Procs \ {p} : proc'[q] = proc[q]
  BY <1>3, <1>4, <1>5
<1>7. CommandRight(p)'
  BY <1>4, <1>6 DEF CommandRight
<1>8. \A q \in Procs : CommandRight(q)'
  BY <1>1, <1>2, <1>6, <1>7, Others
<1>9. Local
  BY DEF Start
<1> QED BY <1>1, <1>6, <1>8, <1>9, LocalStep

LEMMA IntentKeeps ==
  ASSUME IInv, NEW p \in Procs, SaveIntent(p)
  PROVE  IInv' /\ TrustStep
<1>1. CommandRight(p) /\ proc[p].client \in Clients /\ proc[p].inv \in Invites /\ proc \in [Procs -> Process]
      /\ cl \in [Clients -> ClientStore] /\ Local /\ proc[p].pc = "intent"
  BY DEF IInv, CommandRight, SaveIntent, TypeOK
<1> DEFINE i == proc[p].inv
<1>2. CASE ~Intendable(Client(p), i)
  <2>1. UNCHANGED cl /\ End(p)
    BY <1>2 DEF SaveIntent
  <2> QED BY <2>1, <1>1, Stays
<1>3. CASE Intendable(Client(p), i)
  <2> DEFINE s == [Client(p) EXCEPT !.intents = Intend(Client(p), i)]
             late == IF Late(p) THEN "finish" ELSE "look"
  <2>1. Keep(p, s) /\ proc' = [proc EXCEPT ![p].saved = i \in Client(p).intents, ![p].pc = late]
    BY <1>3 DEF SaveIntent
  <2>2. i \in Links
    BY <1>1 DEF CommandRight
  <2>3. /\ s \in ClientStore /\ Client(p).intents \subseteq s.intents /\ i \in s.intents
        /\ s.peer = Client(p).peer
    <3>1. Client(p) \in ClientStore
      BY <1>1 DEF Client
    <3> QED BY <2>2, <3>1 DEF ClientStore, Intend
  <2>4. late \in {"finish", "look"} /\ (i \in Client(p).intents) \in BOOLEAN
    OBVIOUS
  <2> HIDE DEF s, late
  <2>5. /\ cl' \in [Clients -> ClientStore] /\ Grows /\ cl'[proc[p].client] = s
        /\ \A c \in Clients : /\ OneWay(cl[c].peer.status, cl'[c].peer.status)
                              /\ cl'[c].peer.status = "paired" => (cl[c].peer.status = "paired" \/ db.peer[c].status \in Decided)
    <3>1. OneWay(Client(p).peer.status, s.peer.status)
      BY <2>3 DEF OneWay
    <3> QED BY <1>1, <2>1, <2>3, <3>1, Keeping
  <2>6. TrustStep
    BY <1>1, <2>5 DEF TrustStep, Local, OneWay
  <2>7. /\ proc' \in [Procs -> Process] /\ \A q \in Procs \ {p} : proc'[q] = proc[q]
        /\ proc'[p].pc = late /\ proc'[p].client = proc[p].client /\ proc'[p].inv = i
    BY <1>1, <2>1, <2>4 DEF Process, PCs
  <2>8. CommandRight(p)'
    BY <1>1, <2>3, <2>4, <2>5, <2>7 DEF CommandRight
  <2>9. \A q \in Procs : CommandRight(q)'
    BY <2>5, <2>6, <2>7, <2>8, Others
  <2> QED BY <1>1, <2>5, <2>7, <2>9, LocalStep
<1> QED BY <1>2, <1>3

LEMMA LookKeeps ==
  ASSUME IInv, NEW p \in Procs, Look(p)
  PROVE  IInv' /\ TrustStep
<1> DEFINE s == Lapsed(Client(p))
<1>1. CommandRight(p) /\ proc[p].client \in Clients /\ cl \in [Clients -> ClientStore] /\ Local /\ proc[p].pc = "look"
  BY DEF IInv, CommandRight, Look, TypeOK
<1>2. Calm(Client(p), s)
  BY <1>1, LapsedCalm DEF Client
<1>3. Keep(p, s) /\ (Move(p, "finish") \/ End(p) \/ Move(p, "try") \/ Move(p, "stage"))
  BY DEF Look
<1> HIDE DEF s
<1> QED BY <1>1, <1>2, <1>3, Keeps DEF PCs

LEMMA StageKeeps ==
  ASSUME IInv, NEW p \in Procs, Stage(p)
  PROVE  IInv' /\ TrustStep
<1> DEFINE s == Lapsed(Client(p))
           i == proc[p].inv
<1>1. /\ proc[p].client \in Clients /\ i \in Invites /\ cl \in [Clients -> ClientStore]
      /\ Local /\ proc[p].pc = "stage" /\ Client(p) \in ClientStore
  BY DEF IInv, CommandRight, Stage, TypeOK, Client
<1>2. Calm(Client(p), s) /\ (Client(p).peer.status = "paired" => s.peer.status = "paired") /\ s \in ClientStore
  BY <1>1, LapsedCalm DEF Calm
<1>3. \/ UNCHANGED cl /\ Move(p, "finish")
      \/ Stageable(s, i) /\ Keep(p, Staged(s, i)) /\ Move(p, "send")
      \/ Keep(p, s) /\ End(p)
  BY DEF Stage
<1> HIDE DEF s
<1>4. CASE UNCHANGED cl /\ Move(p, "finish")
  BY <1>1, <1>4, Stays DEF PCs
<1>5. CASE Stageable(s, i) /\ Keep(p, Staged(s, i)) /\ Move(p, "send")
  <2>1. Calm(Client(p), Staged(s, i))
    <3>1. Calm(s, Staged(s, i))
      BY <1>1, <1>2, <1>5, StagedCalm
    <3> QED BY <1>2, <3>1, CalmTwice
  <2> QED BY <1>1, <1>5, <2>1, Keeps DEF PCs
<1>6. CASE Keep(p, s) /\ End(p)
  BY <1>1, <1>2, <1>6, Keeps
<1> QED BY <1>3, <1>4, <1>5, <1>6

LEMMA SendKeeps ==
  ASSUME IInv, NEW p \in Procs, Send(p)
  PROVE  IInv' /\ TrustStep
<1>1. Local /\ UNCHANGED cl /\ proc[p].pc \in {"try", "send", "finish"}
  BY DEF Send
<1>2. Move(p, "finish") \/ Move(p, "trying") \/ Move(p, "preparing") \/ Move(p, "finishing")
  BY DEF Send
<1> QED BY <1>1, <1>2, Stays DEF PCs

LEMMA DiscardKeeps ==
  ASSUME IInv, NEW p \in Procs, Discard(p)
  PROVE  IInv' /\ TrustStep
<1> DEFINE s == Lapsed(Client(p))
<1>1. /\ proc[p].client \in Clients /\ Local /\ proc[p].pc = "refused" /\ Client(p) \in ClientStore /\ End(p)
  BY DEF IInv, CommandRight, Discard, TypeOK, Client
<1>2. Calm(Client(p), s) /\ (Client(p).peer.status = "paired" => s.peer.status = "paired") /\ s \in ClientStore
  BY <1>1, LapsedCalm DEF Calm
<1>3. UNCHANGED cl \/ Keep(p, s) \/ (s.res # None /\ Keep(p, Dropped(s)))
  BY DEF Discard
<1> HIDE DEF s
<1>4. CASE s.res # None /\ Keep(p, Dropped(s))
  <2>1. Calm(s, Dropped(s))
    BY <1>2, <1>4, DroppedCalm
  <2>2. Calm(Client(p), Dropped(s))
    BY <1>2, <2>1, CalmTwice
  <2> QED BY <1>1, <1>4, <2>2, Keeps
<1> QED BY <1>1, <1>2, <1>3, <1>4, Keeps, Stays

LEMMA RememberKeeps ==
  ASSUME IInv, NEW p \in Procs, Remember(p)
  PROVE  IInv' /\ TrustStep
<1> DEFINE s == Lapsed(Client(p))
           i == proc[p].inv
           t == [s EXCEPT !.key = "active",
                          !.peer = IF @.status = "paired" THEN @ ELSE Paired(@),
                          !.res = IF s.peer.status # "paired" /\ @ # None /\ @.inv = i THEN None ELSE @]
<1>1. /\ proc[p].client \in Clients /\ Local /\ proc[p].pc \in {"tryRemember", "remember"} /\ Client(p) \in ClientStore
      /\ db.peer[proc[p].client].status \in Decided
  BY DEF IInv, CommandRight, Remember, TypeOK, Client
<1>2. Calm(Client(p), s) /\ (Client(p).peer.status = "paired" => s.peer.status = "paired") /\ s \in ClientStore
  BY <1>1, LapsedCalm DEF Calm
<1>3. \/ Rememberable(s, i) /\ Keep(p, t) /\ End(p)
      \/ Keep(p, s) /\ (Move(p, "stage") \/ End(p))
  BY DEF Remember
<1>4. CASE Rememberable(s, i) /\ Keep(p, t) /\ End(p)
  <2> HIDE DEF s
  <2>1. t \in ClientStore /\ t.intents = s.intents /\ OneWay(s.peer.status, t.peer.status)
    BY <1>2, <1>4, RememberedRight
  <2> HIDE DEF t
  <2>2. Client(p).intents \subseteq t.intents /\ OneWay(Client(p).peer.status, t.peer.status)
    BY <1>2, <2>1 DEF Calm, OneWay
  <2>3. /\ cl' \in [Clients -> ClientStore] /\ Grows
        /\ \A c \in Clients : /\ OneWay(cl[c].peer.status, cl'[c].peer.status)
                              /\ cl'[c].peer.status = "paired" => (cl[c].peer.status = "paired" \/ db.peer[c].status \in Decided)
    BY <1>1, <1>4, <2>1, <2>2, Keeping
  <2>4. TrustStep
    BY <1>1, <2>3 DEF TrustStep, Local, OneWay
  <2>5. proc' \in [Procs -> Process] /\ \A q \in Procs : CommandRight(q)'
    BY <1>4, <2>3, <2>4, Ending
  <2> QED BY <1>1, <2>3, <2>5, LocalStep
<1>5. CASE Keep(p, s) /\ (Move(p, "stage") \/ End(p))
  <2> HIDE DEF s
  <2> QED BY <1>1, <1>2, <1>5, Keeps DEF PCs
<1> QED BY <1>3, <1>4, <1>5

LEMMA RevokeReceiverKeeps ==
  ASSUME IInv, NEW c \in Clients, RevokeReceiver(c)
  PROVE  IInv' /\ TrustStep
<1> DEFINE s == [cl[c] EXCEPT !.peer.status = IF @ = "absent" THEN @ ELSE "revoked",
                              !.key = IF @ = "absent" THEN @ ELSE "revoked"]
           u == [cl[c].peer EXCEPT !.status = IF @ = "absent" THEN @ ELSE "revoked"]
           k == IF cl[c].key = "absent" THEN cl[c].key ELSE "revoked"
<1>1. cl \in [Clients -> ClientStore] /\ proc \in [Procs -> Process] /\ Local /\ UNCHANGED proc
  BY DEF IInv, TypeOK, RevokeReceiver
<1>2. /\ cl[c].peer \in Peer /\ cl[c].key \in Keys /\ cl[c].res \in Reservation \cup {None}
      /\ cl[c].intents \in SUBSET Links
      /\ cl[c] = [peer |-> cl[c].peer, key |-> cl[c].key, res |-> cl[c].res, intents |-> cl[c].intents]
  BY <1>1, Stores
<1>3. u \in Peer /\ u.status = (IF cl[c].peer.status = "absent" THEN "absent" ELSE "revoked") /\ k \in Keys
  BY <1>2 DEF Peer, Keys
<1>10. cl' = [cl EXCEPT ![c] = s]
  BY <1>1 DEF RevokeReceiver
<1>11. s = [cl[c] EXCEPT !.peer = u, !.key = k]
  BY <1>2
<1> HIDE DEF u, k, s
<1>12. s = [peer |-> u, key |-> k, res |-> cl[c].res, intents |-> cl[c].intents]
  BY <1>2, <1>11
<1>4. s \in ClientStore /\ s.peer = u /\ s.intents = cl[c].intents
  BY <1>2, <1>3, <1>12 DEF ClientStore
<1>6. /\ cl' \in [Clients -> ClientStore] /\ cl'[c].peer = u /\ cl'[c].intents = cl[c].intents
      /\ \A b \in Clients \ {c} : cl'[b] = cl[b]
  BY <1>1, <1>4, <1>10
<1>7. /\ Grows
      /\ \A b \in Clients : /\ OneWay(cl[b].peer.status, cl'[b].peer.status)
                            /\ cl'[b].peer.status = "paired" => (cl[b].peer.status = "paired" \/ db.peer[b].status \in Decided)
  BY <1>3, <1>6 DEF Grows, OneWay
<1>8. TrustStep
  BY <1>1, <1>7 DEF TrustStep, Local, OneWay
<1>9. \A q \in Procs : CommandRight(q)'
  BY <1>1, <1>7, <1>8, Others
<1> QED BY <1>1, <1>6, <1>7, <1>9, LocalStep

-----------------------------------------------------------------------------
(* The receiver's side of a step.                                          *)
StoreRight ==
  /\ db' \in Database /\ DatabaseRight(db', past, old, issued, winners', anchors')
  /\ winners' \in [Invites -> SUBSET Clients] /\ anchors' \subseteq Clients
  /\ \A c \in Clients : OneWay(db.peer[c].status, db'.peer[c].status)

LEMMA Known ==
  ASSUME IInv
  PROVE  /\ db \in Database /\ past \subseteq Invites /\ clientPast \subseteq Invites /\ old \subseteq Links \cap past
         /\ DatabaseRight(db, past, old, issued, winners, anchors)
         /\ issued \in [Links -> Clients \cup {None}] /\ winners \in [Invites -> SUBSET Clients] /\ anchors \subseteq Clients
         /\ proc \in [Procs -> Process] /\ strays \subseteq Request /\ cl \in [Clients -> ClientStore]
BY DEF IInv, TypeOK

LEMMA ExpiredStore ==
  ASSUME IInv
  PROVE  LET e == Expire(db) IN
         /\ e \in Database /\ DatabaseRight(e, past, old, issued, winners, anchors)
         /\ \A c \in Clients : OneWay(db.peer[c].status, e.peer[c].status)
         /\ \A i \in Links : e.inv[i].present => db.inv[i].present
<1> DEFINE e == Expire(db)
<1>1. /\ e \in Database /\ DatabaseRight(e, past, old, issued, winners, anchors)
      /\ \A c \in Clients : e.peer[c] = db.peer[c] \/ (e.peer[c] = NoPeer /\ db.peer[c].status = "pending")
      /\ \A i \in Links : e.inv[i].present => db.inv[i].present
  BY Known, ExpireRight
<1> HIDE DEF e
<1>2. \A c \in Clients : OneWay(db.peer[c].status, e.peer[c].status)
  BY <1>1 DEF OneWay
<1> QED BY <1>1, <1>2 DEF e

LEMMA OneWayTwice ==
  ASSUME NEW s, NEW t, NEW u, OneWay(s, t), OneWay(t, u)
  PROVE  OneWay(s, u)
BY DEF OneWay

LEMMA PrepareKeeps ==
  ASSUME IInv, NEW c \in Clients, NEW i \in Invites, NEW ok, PrepareEffect(c, i, ok)
  PROVE  StoreRight /\ UNCHANGED winners
<1> DEFINE e == Expire(db)
<1>1. /\ e \in Database /\ DatabaseRight(e, past, old, issued, winners, anchors)
      /\ \A b \in Clients : OneWay(db.peer[b].status, e.peer[b].status)
  BY ExpiredStore
<1>2. /\ (Preparable(e, c, i) /\ db' = Prepared(e, c, i)) \/ db' = e
      /\ UNCHANGED <<winners, anchors>>
  BY DEF PrepareEffect
<1> HIDE DEF e
<1>3. winners' \in [Invites -> SUBSET Clients] /\ anchors' \subseteq Clients
  BY <1>2, Known
<1>4. CASE db' = e
  BY <1>1, <1>2, <1>3, <1>4 DEF StoreRight
<1>5. CASE Preparable(e, c, i) /\ db' = Prepared(e, c, i)
  <2>1. PICK f : f = Prepared(e, c, i)
    OBVIOUS
  <2>2. /\ f \in Database /\ DatabaseRight(f, past, old, issued, winners, anchors)
        /\ \A b \in Clients : OneWay(e.peer[b].status, f.peer[b].status)
    BY <2>1, <1>1, <1>5, Known, PrepareRight
  <2>3. \A b \in Clients : OneWay(db.peer[b].status, f.peer[b].status)
    BY <2>2, <1>1, OneWayTwice
  <2> QED BY <2>1, <2>2, <2>3, <1>2, <1>3, <1>5 DEF StoreRight
<1> QED BY <1>2, <1>4, <1>5

LEMMA CommitKeeps ==
  ASSUME IInv, NEW c \in Clients, NEW i \in Invites, NEW ok, CommitEffect(c, i, ok)
  PROVE  /\ StoreRight
         /\ ok => db'.peer[c].status \in Decided
         /\ \A j \in Links : winners'[j] = winners[j] \/ (j = i /\ issued[i] = c)
<1> DEFINE e == Expire(db)
<1>1. /\ e \in Database /\ DatabaseRight(e, past, old, issued, winners, anchors)
      /\ \A b \in Clients : OneWay(db.peer[b].status, e.peer[b].status)
  BY ExpiredStore
<1>2. \/ ok /\ Receipt(e, c, i) /\ db' = e /\ UNCHANGED <<winners, anchors>>
      \/ Committable(e, c, i) /\ Completes(e, c, i)
      \/ ~ok /\ (db' = e \/ db' = db) /\ UNCHANGED <<winners, anchors>>
  BY DEF CommitEffect
<1> HIDE DEF e
<1>3. CASE ok /\ Receipt(e, c, i) /\ db' = e /\ UNCHANGED <<winners, anchors>>
  <2>1. winners' \in [Invites -> SUBSET Clients] /\ anchors' \subseteq Clients
    BY <1>3, Known
  <2>2. db'.peer[c].status \in Decided
    BY <1>3 DEF Receipt, Decided
  <2> QED BY <2>1, <2>2, <1>1, <1>3 DEF StoreRight
<1>4. CASE Committable(e, c, i) /\ Completes(e, c, i)
  <2>1. PICK f : f = Committed(e, c, i)
    OBVIOUS
  <2>2. PICK v : v = Named(Claimed(e, c, i), c, i)
    OBVIOUS
  <2>3. PICK x : x = Won(e, winners, v, c)
    OBVIOUS
  <2>8. PICK ans : ans = anchors \cup {c}
    OBVIOUS
  <2>4. /\ f \in Database /\ DatabaseRight(f, past, old, issued, x, ans)
        /\ f.peer[c].status = "paired" /\ \A b \in Clients : OneWay(e.peer[b].status, f.peer[b].status)
        /\ x \in [Invites -> SUBSET Clients]
        /\ \A j \in Links : x[j] = winners[j] \/ (j = i /\ issued[i] = c)
    <3>1. winners \in [Invites -> SUBSET Clients] /\ Committable(e, c, i)
      BY <1>4, Known
    <3>2. DatabaseRight(f, past, old, issued, x, ans)
      BY <3>1, <2>1, <2>2, <2>3, <2>8, <1>1, CommitRight
    <3> QED BY <3>1, <3>2, <2>1, <2>2, <2>3, <2>8, <1>1, CommitRight
  <2>5. db' = f /\ winners' = x /\ anchors' = ans
    BY <2>1, <2>2, <2>3, <2>8, <1>4 DEF Completes, Won
  <2>6. \A b \in Clients : OneWay(db.peer[b].status, f.peer[b].status)
    BY <2>4, <1>1, OneWayTwice
  <2>7. anchors' \subseteq Clients
    BY <2>5, <2>8, Known
  <2> QED BY <2>4, <2>5, <2>6, <2>7 DEF StoreRight, Decided
<1>5. CASE ~ok /\ (db' = e \/ db' = db) /\ UNCHANGED <<winners, anchors>>
  <2>1. winners' \in [Invites -> SUBSET Clients] /\ anchors' \subseteq Clients
    BY <1>5, Known
  <2>2. /\ db' \in Database /\ DatabaseRight(db', past, old, issued, winners, anchors)
        /\ \A b \in Clients : OneWay(db.peer[b].status, db'.peer[b].status)
    BY <1>1, <1>5, Known DEF OneWay
  <2> QED BY <2>1, <2>2, <1>5 DEF StoreRight
<1> QED BY <1>2, <1>3, <1>4, <1>5

(* What a step at the receiver leaves to be shown: of the commands.        *)
LEMMA ReceiverStep ==
  ASSUME IInv, StoreRight, UNCHANGED <<past, old, cl, clientPast, issued>>,
         strays' \subseteq Request, \A q \in strays' : StrayRight(q),
         \A i \in Links : winners'[i] # {} => i \in cl[issued[i]].intents,
         proc' \in [Procs -> Process], \A q \in Procs : CommandRight(q)'
  PROVE  IInv' /\ TrustStep
<1>1. \A q \in strays' : StrayRight(q)'
  BY DEF StrayRight
<1>2. \A i \in Links : WinnerRight(i)'
  BY DEF WinnerRight
<1>3. past' \subseteq Invites /\ clientPast' \subseteq Invites /\ old' \subseteq Links \cap past'
      /\ issued' \in [Links -> Clients \cup {None}]
  BY Known
<1>4. DatabaseRight(db', past', old', issued', winners', anchors')
  BY DEF StoreRight
<1> QED BY <1>1, <1>2, <1>3, <1>4, StoreStep DEF StoreRight

(* Its store's steps leave trust where it is, and the clients' stores.     *)
LEMMA ReceiverTrust ==
  ASSUME IInv, StoreRight, UNCHANGED cl
  PROVE  Grows /\ TrustStep
BY DEF Grows, TrustStep, StoreRight, OneWay

LEMMA OldWinners ==
  ASSUME IInv
  PROVE  \A i \in Links : winners[i] # {} => i \in cl[issued[i]].intents
BY DEF IInv, WinnerRight

LEMMA StrayKeeps ==
  ASSUME IInv, NEW q \in strays, OnStray(q)
  PROVE  IInv' /\ TrustStep
<1>1. q.client \in Clients /\ q.inv \in Invites /\ strays \subseteq Request /\ (q.inv \in Links => q.inv \in cl[q.client].intents)
  BY DEF IInv, TypeOK, Request, StrayRight
<1>2. /\ strays' = strays \ {q} /\ UNCHANGED <<past, old, cl, clientPast, proc, issued>>
      /\ \E ok \in BOOLEAN : PrepareEffect(q.client, q.inv, ok) \/ CommitEffect(q.client, q.inv, ok)
  BY DEF OnStray
<1>3. PICK ok \in BOOLEAN : PrepareEffect(q.client, q.inv, ok) \/ CommitEffect(q.client, q.inv, ok)
  BY <1>2
<1>4. StoreRight /\ \A j \in Links : winners'[j] = winners[j] \/ (j = q.inv /\ issued[q.inv] = q.client)
  BY <1>1, <1>3, PrepareKeeps, CommitKeeps
<1>5. \A i \in Links : winners'[i] # {} => i \in cl[issued[i]].intents
  BY <1>1, <1>4, OldWinners
<1>6. \A p \in Procs : CommandRight(p)'
  BY <1>2, <1>4, ReceiverTrust, Others
<1>7. strays' \subseteq Request /\ (\A r \in strays' : StrayRight(r)) /\ proc' \in [Procs -> Process]
  BY <1>2, Known DEF IInv
<1> QED BY <1>2, <1>4, <1>5, <1>6, <1>7, ReceiverStep

LEMMA OnPrepareKeeps ==
  ASSUME IInv, NEW p \in Procs, OnPrepare(p)
  PROVE  IInv' /\ TrustStep
<1>1. /\ CommandRight(p) /\ proc[p].client \in Clients /\ proc[p].inv \in Invites /\ proc[p].pc = "preparing"
      /\ (proc[p].inv \in Links => proc[p].inv \in cl[proc[p].client].intents)
  BY DEF IInv, CommandRight, OnPrepare
<1>2. UNCHANGED <<past, old, cl, clientPast, strays, issued>>
  BY DEF OnPrepare
<1>3. PICK ok \in BOOLEAN : /\ PrepareEffect(proc[p].client, proc[p].inv, ok)
                            /\ Move(p, IF ok THEN AfterPrepare ELSE "refused") \/ Fail(p)
  BY DEF OnPrepare
<1>4. StoreRight /\ UNCHANGED winners
  BY <1>1, <1>3, PrepareKeeps
<1>5. Grows /\ TrustStep
  BY <1>2, <1>4, ReceiverTrust
<1>6. proc' \in [Procs -> Process] /\ \A q \in Procs : CommandRight(q)'
  <2>1. CASE Move(p, IF ok THEN AfterPrepare ELSE "refused")
    <3>1. Move(p, "finish") \/ Move(p, "refused")
      BY <2>1 DEF AfterPrepare
    <3> QED BY <3>1, <1>1, <1>2, <1>5, Moving DEF PCs
  <2>2. CASE Fail(p)
    BY <2>2, <1>1, <1>5, Failing
  <2> QED BY <2>1, <2>2, <1>3
<1>7. strays' \subseteq Request /\ (\A q \in strays' : StrayRight(q))
      /\ \A i \in Links : winners'[i] # {} => i \in cl[issued[i]].intents
  BY <1>2, <1>4, Known, OldWinners DEF IInv
<1> QED BY <1>2, <1>4, <1>6, <1>7, ReceiverStep

LEMMA OnCommitKeeps ==
  ASSUME IInv, NEW p \in Procs, OnCommit(p)
  PROVE  IInv' /\ TrustStep
<1>1. /\ CommandRight(p) /\ proc[p].client \in Clients /\ proc[p].inv \in Invites /\ proc[p].pc \in {"trying", "finishing"}
      /\ (proc[p].inv \in Links => proc[p].inv \in cl[proc[p].client].intents)
  BY DEF IInv, CommandRight, OnCommit
<1>2. UNCHANGED <<past, old, cl, clientPast, strays, issued>>
  BY DEF OnCommit
<1>3. PICK ok \in BOOLEAN : /\ CommitEffect(proc[p].client, proc[p].inv, ok)
                            /\ \/ ok /\ Move(p, IF proc[p].pc = "trying" THEN "tryRemember" ELSE "remember")
                               \/ Fail(p)
  BY DEF OnCommit
<1>4. /\ StoreRight /\ (ok => db'.peer[proc[p].client].status \in Decided)
      /\ \A j \in Links : winners'[j] = winners[j] \/ (j = proc[p].inv /\ issued[proc[p].inv] = proc[p].client)
  BY <1>1, <1>3, CommitKeeps
<1>5. Grows /\ TrustStep
  BY <1>2, <1>4, ReceiverTrust
<1>6. proc' \in [Procs -> Process] /\ \A q \in Procs : CommandRight(q)'
  <2>1. CASE ok /\ Move(p, IF proc[p].pc = "trying" THEN "tryRemember" ELSE "remember")
    <3>1. Move(p, "tryRemember") \/ Move(p, "remember")
      BY <2>1
    <3>2. db'.peer[proc[p].client].status \in Decided
      BY <2>1, <1>4
    <3> QED BY <3>1, <3>2, <1>1, <1>2, <1>5, Moving DEF PCs
  <2>2. CASE Fail(p)
    BY <2>2, <1>1, <1>5, Failing
  <2> QED BY <2>1, <2>2, <1>3
<1>7. strays' \subseteq Request /\ (\A q \in strays' : StrayRight(q))
  BY <1>2, Known DEF IInv
<1>8. \A i \in Links : winners'[i] # {} => i \in cl[issued[i]].intents
  BY <1>1, <1>4, OldWinners
<1> QED BY <1>2, <1>4, <1>6, <1>7, <1>8, ReceiverStep

(* The operator's steps move no command.                                   *)
LEMMA OperatorStep ==
  ASSUME IInv, Operator, UNCHANGED issued, NEW e, db' = e, e \in Database,
         DatabaseRight(e, past, old, issued, winners, anchors),
         \A c \in Clients : OneWay(db.peer[c].status, e.peer[c].status)
  PROVE  IInv' /\ TrustStep
<1>1. UNCHANGED <<past, old, cl, clientPast, proc, strays, winners, anchors>>
  BY DEF Operator
<1>2. winners' \in [Invites -> SUBSET Clients] /\ anchors' \subseteq Clients
  BY <1>1, Known
<1>3. StoreRight
  BY <1>1, <1>2 DEF StoreRight
<1>4. \A p \in Procs : CommandRight(p)'
  BY <1>1, <1>3, ReceiverTrust, Others
<1>5. strays' \subseteq Request /\ (\A q \in strays' : StrayRight(q)) /\ proc' \in [Procs -> Process]
      /\ \A i \in Links : winners'[i] # {} => i \in cl[issued[i]].intents
  BY <1>1, Known, OldWinners DEF IInv
<1> QED BY <1>1, <1>3, <1>4, <1>5, ReceiverStep

LEMMA FileKeeps ==
  ASSUME IInv, NEW i \in Files, CreateFile(i)
  PROVE  IInv' /\ TrustStep
<1> DEFINE e == Expire(db)
<1>1. /\ e \in Database /\ DatabaseRight(e, past, old, issued, winners, anchors)
      /\ \A b \in Clients : OneWay(db.peer[b].status, e.peer[b].status)
  BY ExpiredStore
<1>2. db' = [e EXCEPT !.inv[i].present = TRUE] /\ UNCHANGED issued /\ Operator
  BY DEF CreateFile
<1> HIDE DEF e
<1>3. PICK f : f = [e EXCEPT !.inv[i].present = TRUE]
  OBVIOUS
<1>4. f \in Database /\ DatabaseRight(f, past, old, issued, winners, anchors) /\ f.peer = e.peer
  BY <1>1, <1>3, FileRight
<1> QED BY <1>1, <1>2, <1>3, <1>4, OperatorStep

LEMMA OfferKeeps ==
  ASSUME IInv, NEW i \in Links, NEW c \in Clients, CreateOffer(i, c)
  PROVE  IInv' /\ TrustStep
<1> DEFINE e == Expire(db)
           u == [NoInvite EXCEPT !.present = TRUE, !.client = c, !.offer = "open"]
<1>1. /\ e \in Database /\ DatabaseRight(e, past, old, issued, winners, anchors)
      /\ \A b \in Clients : OneWay(db.peer[b].status, e.peer[b].status)
  BY ExpiredStore
<1>2. /\ i \notin past /\ issued[i] = None /\ Operator
      /\ \/ db' = [e EXCEPT !.inv[i] = u] /\ issued' = [issued EXCEPT ![i] = c]
         \/ db' = e /\ UNCHANGED issued
  BY DEF CreateOffer
<1> HIDE DEF e
<1>3. CASE db' = e /\ UNCHANGED issued
  BY <1>1, <1>2, <1>3, OperatorStep
<1>4. CASE db' = [e EXCEPT !.inv[i] = u] /\ issued' = [issued EXCEPT ![i] = c]
  <2>1. PICK f : f = Offering(e, i, c)
    OBVIOUS
  <2>2. PICK is : is = [issued EXCEPT ![i] = c]
    OBVIOUS
  <2>3. f \in Database /\ DatabaseRight(f, past, old, is, winners, anchors) /\ f.peer = e.peer
    <3>1. issued \in [Links -> Clients \cup {None}] /\ old \subseteq past /\ issued[i] = None /\ i \notin past
      BY <1>2, Known
    <3>2. DatabaseRight(f, past, old, is, winners, anchors)
      BY <3>1, <2>1, <2>2, <1>1, LinkRight
    <3>3. f \in Database
      BY ONLY <3>1, <3>2, <2>1, <2>2, <1>1, LinkRight, i \in Links, c \in Clients
    <3>4. f.peer = e.peer
      BY ONLY <3>1, <3>2, <2>1, <2>2, <1>1, LinkRight, i \in Links, c \in Clients
    <3> QED BY <3>2, <3>3, <3>4
  <2>4. db' = f /\ issued' = is /\ UNCHANGED <<past, old, cl, clientPast, proc, strays, winners, anchors>>
    BY <2>1, <2>2, <1>2, <1>4 DEF Operator, Offering
  <2>5. is \in [Links -> Clients \cup {None}] /\ \A j \in Links \ {i} : is[j] = issued[j]
    BY <2>2, Known
  <2>6. \A b \in Clients : OneWay(db.peer[b].status, db'.peer[b].status)
    BY <2>3, <2>4, <1>1
  <2>7. Grows /\ TrustStep
    BY <2>4, <2>6 DEF Grows, TrustStep, OneWay
  <2>8. \A p \in Procs : CommandRight(p)'
    BY <2>4, <2>7, Others
  <2>9. ASSUME NEW j \in Links PROVE WinnerRight(j)'
    <3>1. CASE j # i
      BY <3>1, <2>4, <2>5, OldWinners DEF WinnerRight
    <3>2. CASE j = i
      <4>1. OfferRight(db, old, issued, winners, i)
        BY Known DEF DatabaseRight
      <4>2. winners[i] = {}
        BY <4>1, <1>2 DEF OfferRight
      <4> QED BY <3>2, <4>2, <2>4 DEF WinnerRight
    <3> QED BY <3>1, <3>2
  <2>10. strays' \subseteq Request /\ (\A q \in strays' : StrayRight(q)') /\ proc' \in [Procs -> Process]
    BY <2>4, Known DEF IInv, StrayRight
  <2>11. /\ past' \subseteq Invites /\ clientPast' \subseteq Invites /\ old' \subseteq Links \cap past'
         /\ winners' \in [Invites -> SUBSET Clients] /\ anchors' \subseteq Clients /\ issued' \in [Links -> Clients \cup {None}]
    BY <2>4, <2>5, Known
  <2>12. db' \in Database /\ DatabaseRight(db', past', old', issued', winners', anchors')
    BY <2>3, <2>4
  <2> QED BY <2>4, <2>6, <2>8, <2>9, <2>10, <2>11, <2>12, StoreStep
<1> QED BY <1>2, <1>3, <1>4

LEMMA CancelKeeps ==
  ASSUME IInv, NEW i \in Links, CancelOffer(i)
  PROVE  IInv' /\ TrustStep
<1> DEFINE e == Expire(db)
<1>1. /\ e \in Database /\ DatabaseRight(e, past, old, issued, winners, anchors)
      /\ \A b \in Clients : OneWay(db.peer[b].status, e.peer[b].status)
  BY ExpiredStore
<1>2. /\ Operator /\ UNCHANGED issued
      /\ \/ /\ Cancellable(e.inv[i])
            /\ db' = [Release(e, HoldersOf(e, {i})) EXCEPT !.inv[i].offer = "cancelled", !.inv[i].spent = TRUE]
         \/ db' = e
  BY DEF CancelOffer
<1> HIDE DEF e
<1>3. CASE db' = e
  BY <1>1, <1>2, <1>3, OperatorStep
<1>4. CASE /\ Cancellable(e.inv[i])
           /\ db' = [Release(e, HoldersOf(e, {i})) EXCEPT !.inv[i].offer = "cancelled", !.inv[i].spent = TRUE]
  <2>1. PICK f : f = [Release(e, HoldersOf(e, {i})) EXCEPT !.inv[i].offer = "cancelled", !.inv[i].spent = TRUE]
    OBVIOUS
  <2>2. /\ f \in Database /\ DatabaseRight(f, past, old, issued, winners, anchors)
        /\ \A b \in Clients : OneWay(e.peer[b].status, f.peer[b].status)
    BY <2>1, <1>1, <1>4, CancelRight
  <2>3. \A b \in Clients : OneWay(db.peer[b].status, f.peer[b].status)
    BY <2>2, <1>1, OneWayTwice
  <2>4. db' = f
    BY <2>1, <1>4
  <2> QED BY <2>2, <2>3, <2>4, <1>2, OperatorStep
<1> QED BY <1>2, <1>3, <1>4

LEMMA RefreshKeeps ==
  ASSUME IInv, Refresh
  PROVE  IInv' /\ TrustStep
<1> DEFINE e == Expire(db)
<1>1. /\ e \in Database /\ DatabaseRight(e, past, old, issued, winners, anchors)
      /\ \A b \in Clients : OneWay(db.peer[b].status, e.peer[b].status)
  BY ExpiredStore
<1>2. db' = e /\ UNCHANGED issued /\ Operator
  BY DEF Refresh
<1> HIDE DEF e
<1> QED BY <1>1, <1>2, OperatorStep

LEMMA RevokeClientKeeps ==
  ASSUME IInv, NEW c \in Clients, RevokeClient(c)
  PROVE  IInv' /\ TrustStep
<1>1. PICK f : f = Revoking(db, c)
  OBVIOUS
<1>2. db' = f /\ UNCHANGED issued /\ Operator
  BY <1>1 DEF RevokeClient, Revoking
<1>3. /\ f \in Database /\ DatabaseRight(f, past, old, issued, winners, anchors)
      /\ \A b \in Clients : OneWay(db.peer[b].status, f.peer[b].status)
  BY <1>1, Known, RevokeRight
<1> QED BY <1>2, <1>3, OperatorStep

(* A request that is lost on its way, or whose command dies, may arrive    *)
(* all the same.                                                           *)
LEMMA Left ==
  ASSUME IInv, NEW p \in Procs, proc[p].pc \in {"trying", "preparing", "finishing"}
  PROVE  LET q == [op |-> IF proc[p].pc = "preparing" THEN "prepare" ELSE "commit",
                   client |-> proc[p].client, inv |-> proc[p].inv]
         IN q \in Request /\ StrayRight(q)
<1>1. /\ proc[p].client \in Clients /\ proc[p].inv \in Invites
      /\ proc[p].inv \in Links => proc[p].inv \in cl[proc[p].client].intents
  BY DEF IInv, CommandRight
<1> QED BY <1>1 DEF Request, StrayRight

LEMMA LostStep ==
  ASSUME IInv, UNCHANGED <<db, past, old, cl, clientPast, issued, winners, anchors>>, strays' \subseteq Request,
         \A q \in strays' : StrayRight(q), proc' \in [Procs -> Process], \A q \in Procs : CommandRight(q)'
  PROVE  IInv' /\ TrustStep
<1>1. StoreRight
  <2>1. db' \in Database /\ DatabaseRight(db', past, old, issued, winners, anchors) /\ UNCHANGED <<winners, anchors>>
        /\ winners' \in [Invites -> SUBSET Clients] /\ anchors' \subseteq Clients
    BY Known
  <2> QED BY <2>1 DEF StoreRight, OneWay
<1>2. \A i \in Links : winners'[i] # {} => i \in cl[issued[i]].intents
  BY OldWinners
<1> QED BY <1>1, <1>2, ReceiverStep

LEMMA LoseKeeps ==
  ASSUME IInv, NEW p \in Procs, Lose(p)
  PROVE  IInv' /\ TrustStep
<1> DEFINE q == [op |-> IF proc[p].pc = "preparing" THEN "prepare" ELSE "commit",
                 client |-> proc[p].client, inv |-> proc[p].inv]
<1>1. /\ proc[p].pc \in {"trying", "preparing", "finishing"} /\ Fail(p)
      /\ strays' = strays \/ strays' = strays \cup {q}
      /\ UNCHANGED <<db, past, old, cl, clientPast, issued, winners, anchors>>
  BY DEF Lose
<1>2. q \in Request /\ StrayRight(q)
  BY <1>1, Left
<1> HIDE DEF q
<1>3. Grows /\ TrustStep
  BY <1>1 DEF Grows, TrustStep, OneWay
<1>4. proc' \in [Procs -> Process] /\ \A r \in Procs : CommandRight(r)'
  BY <1>1, <1>3, Failing
<1>5. strays' \subseteq Request /\ \A r \in strays' : StrayRight(r)
  BY <1>1, <1>2, Known DEF IInv
<1> QED BY <1>1, <1>4, <1>5, LostStep

LEMMA CrashKeeps ==
  ASSUME IInv, NEW p \in Procs, Crash(p)
  PROVE  IInv' /\ TrustStep
<1> DEFINE q == [op |-> IF proc[p].pc = "preparing" THEN "prepare" ELSE "commit",
                 client |-> proc[p].client, inv |-> proc[p].inv]
<1>1. /\ End(p) /\ UNCHANGED <<db, past, old, cl, clientPast, issued, winners, anchors>>
      /\ \/ strays' = strays
         \/ proc[p].pc \in {"trying", "preparing", "finishing"} /\ strays' = strays \cup {q}
  BY DEF Crash
<1>2. proc[p].pc \in {"trying", "preparing", "finishing"} => (q \in Request /\ StrayRight(q))
  BY Left
<1> HIDE DEF q
<1>3. Grows /\ TrustStep
  BY <1>1 DEF Grows, TrustStep, OneWay
<1>4. proc' \in [Procs -> Process] /\ \A r \in Procs : CommandRight(r)'
  BY <1>1, <1>3, Ending
<1>5. strays' \subseteq Request /\ \A r \in strays' : StrayRight(r)
  BY <1>1, <1>2, Known DEF IInv
<1> QED BY <1>1, <1>4, <1>5, LostStep

LEMMA TimeKeeps ==
  ASSUME IInv, NEW i \in Invites, Passes(i) \/ PassesAtClients(i) \/ AWeekPasses(i)
  PROVE  IInv' /\ TrustStep
<1>1. UNCHANGED <<db, cl, proc, strays, issued, winners, anchors>>
  BY DEF Passes, PassesAtClients, AWeekPasses
<1>2. /\ past' \subseteq Invites /\ clientPast' \subseteq Invites /\ old' \subseteq Links \cap past'
  BY Known DEF Passes, PassesAtClients, AWeekPasses
<1>3. DatabaseRight(db, past', old', issued, winners, anchors)
  <2>1. CASE Passes(i)
    <3>1. PICK pa : pa = past \cup {i}
      OBVIOUS
    <3>2. DatabaseRight(db, past \cup {i}, old, issued, winners, anchors)
      BY Known, LaterRight
    <3> QED BY <3>2, <2>1 DEF Passes
  <2>2. CASE PassesAtClients(i)
    BY <2>2, Known DEF PassesAtClients
  <2>3. CASE AWeekPasses(i)
    <3>1. DatabaseRight(db, past, old \cup {i}, issued, winners, anchors)
      BY <2>3, Known, LaterRight DEF AWeekPasses
    <3> QED BY <3>1, <2>3 DEF AWeekPasses
  <2> QED BY <2>1, <2>2, <2>3
<1>4. Grows /\ TrustStep
  BY <1>1 DEF Grows, TrustStep, OneWay
<1>5. \A p \in Procs : CommandRight(p)'
  BY <1>1, <1>4, Others
<1>6. /\ db' \in Database /\ DatabaseRight(db', past', old', issued', winners', anchors')
      /\ \A c \in Clients : OneWay(db.peer[c].status, db'.peer[c].status)
  BY <1>1, <1>3, Known DEF OneWay
<1>7. /\ strays' \subseteq Request /\ issued' \in [Links -> Clients \cup {None}]
      /\ winners' \in [Invites -> SUBSET Clients] /\ anchors' \subseteq Clients /\ proc' \in [Procs -> Process]
  BY <1>1, Known
<1>8. (\A q \in strays' : StrayRight(q)') /\ \A j \in Links : WinnerRight(j)'
  BY <1>1 DEF IInv, StrayRight, WinnerRight
<1> QED BY <1>1, <1>2, <1>5, <1>6, <1>7, <1>8, StoreStep

-----------------------------------------------------------------------------
(* The invariant holds initially: what an older version left is pending    *)
(* without a reservation, by files that name their clients.                *)
LEMMA Start0 ==
  ASSUME Init
  PROVE  IInv
<1>1. PICK owner \in [Files -> Clients \cup {None}], by \in [Clients -> Files \cup {None}], kept \in SUBSET Clients :
       /\ \A c \in Clients : by[c] # None => owner[by[c]] = c /\ c \in kept
       /\ \A i \in Files : owner[i] # None => by[owner[i]] # None
       /\ anchors = kept
       /\ db = [inv |-> [i \in Invites |->
                           IF i \in Files /\ owner[i] # None
                           THEN [NoInvite EXCEPT !.present = TRUE, !.peer = owner[i]] ELSE NoInvite],
                peer |-> [c \in Clients |-> IF by[c] # None THEN Pending(by[c]) ELSE NoPeer],
                key |-> [c \in Clients |-> IF c \in kept THEN "active" ELSE "absent"],
                res |-> [c \in Clients |-> None]]
  BY DEF Init
<1>2. /\ past = {} /\ old = {} /\ clientPast = {} /\ strays = {}
      /\ issued = [i \in Links |-> None] /\ winners = [i \in Invites |-> {}]
      /\ cl = [c \in Clients |-> [peer |-> NoPeer, key |-> "absent", res |-> None, intents |-> {}]]
      /\ proc = [p \in Procs |-> NoProcess]
  BY DEF Init
<1>3. ASSUME NEW i \in Invites
      PROVE  /\ db.inv[i] \in Invite /\ ~db.inv[i].spent /\ db.inv[i].offer = "none"
             /\ i \in Files /\ owner[i] # None => (db.inv[i].present /\ db.inv[i].peer = owner[i])
             /\ i \notin Files => ~db.inv[i].present
  <2> DEFINE u == [NoInvite EXCEPT !.present = TRUE, !.peer = owner[i]]
  <2>1. i \in Files /\ owner[i] # None => (u \in Invite /\ ~u.spent /\ u.offer = "none" /\ u.present /\ u.peer = owner[i])
    BY DEF NoInvite, Invite, OfferStates
  <2>2. NoInvite \in Invite /\ ~NoInvite.spent /\ NoInvite.offer = "none" /\ ~NoInvite.present
    BY Values DEF NoInvite
  <2>3. db.inv[i] = IF i \in Files /\ owner[i] # None THEN u ELSE NoInvite
    BY <1>1
  <2> HIDE DEF u
  <2> QED BY <2>1, <2>2, <2>3
<1>4. ASSUME NEW c \in Clients
      PROVE  /\ db.peer[c] = (IF by[c] # None THEN Pending(by[c]) ELSE NoPeer) /\ db.peer[c] \in Peer
             /\ db.key[c] = (IF c \in kept THEN "active" ELSE "absent") /\ db.res[c] = None
  <2>1. by[c] # None => by[c] \in Invites
    BY DEF Invites
  <2> QED BY <2>1, <1>1, Values
<1>5. db \in Database
  <2> DEFINE n == db.inv
             p == db.peer
             k == db.key
             r == db.res
  <2>1. db = [inv |-> n, peer |-> p, key |-> k, res |-> r]
    BY <1>1
  <2>2. n = [i \in Invites |-> n[i]] /\ p = [c \in Clients |-> p[c]] /\ k = [c \in Clients |-> k[c]] /\ r = [c \in Clients |-> r[c]]
    BY <1>1
  <2>3. (\A i \in Invites : n[i] \in Invite) /\ \A c \in Clients : p[c] \in Peer /\ k[c] \in Keys /\ r[c] \in Reservation \cup {None}
    BY <1>3, <1>4 DEF Keys
  <2> HIDE DEF n, p, k, r
  <2>4. n \in [Invites -> Invite] /\ p \in [Clients -> Peer] /\ k \in [Clients -> Keys] /\ r \in [Clients -> Reservation \cup {None}]
    BY <2>2, <2>3
  <2> QED BY <2>1, <2>4, Composed
<1>6. TypeOK
  <2>1. cl \in [Clients -> ClientStore] /\ proc \in [Procs -> Process]
    <3>1. [peer |-> NoPeer, key |-> "absent", res |-> None, intents |-> {}] \in ClientStore
      BY Values DEF ClientStore, Keys
    <3>2. NoProcess \in Process
      BY DEF NoProcess, Process, PCs
    <3> QED BY <1>2, <3>1, <3>2
  <2> QED BY <1>1, <1>2, <1>5, <2>1 DEF TypeOK
<1>7. ASSUME NEW c \in Clients
      PROVE  HolderRight(db, past, anchors, c)
  <2>1. by[c] # None => (by[c] \in Files /\ by[c] \in Invites /\ by[c] \notin Links /\ owner[by[c]] = c /\ c \in kept /\ owner[by[c]] # None)
    BY <1>1, FilesAreNoLinks, Values DEF Invites
  <2>2. db.peer[c].status = "pending" => (by[c] # None /\ db.peer[c].by = by[c])
    BY <1>4, <2>1, Values
  <2>3. db.peer[c].status \in {"pending", "paired"} => db.key[c] = "active"
    BY <1>4, <2>1, Values
  <2>4. c \in anchors => db.key[c] # "absent"
    BY <1>1, <1>4
  <2>5. by[c] # None => (db.inv[by[c]].present /\ ~db.inv[by[c]].spent /\ db.inv[by[c]].peer = c)
    BY <1>3, <2>1
  <2> QED BY <1>4, <2>1, <2>2, <2>3, <2>4, <2>5 DEF HolderRight
<1>8. ASSUME NEW i \in Links
      PROVE  OfferRight(db, old, issued, winners, i) /\ WinnerRight(i)
  <2>1. i \in Invites /\ i \notin Files
    BY FilesAreNoLinks DEF Invites
  <2> QED BY <2>1, <1>2, <1>3 DEF OfferRight, WinnerRight
<1>9. ClientNotAhead
  BY <1>2, Values DEF ClientNotAhead
<1>10. \A p \in Procs : CommandRight(p)
  BY <1>2 DEF CommandRight, NoProcess
<1> QED BY <1>2, <1>6, <1>7, <1>8, <1>9, <1>10 DEF IInv, DatabaseRight

LEMMA NextKeeps ==
  ASSUME IInv, [Next]_vars
  PROVE  IInv' /\ TrustStep
<1>1. CASE OperatorActs
  BY <1>1, FileKeeps, OfferKeeps, CancelKeeps, RefreshKeeps, RevokeClientKeeps DEF OperatorActs
<1>2. CASE \E p \in Procs, c \in Clients, i \in Invites : Start(p, c, i)
  BY <1>2, StartKeeps
<1>3. CASE \E p \in Procs : CommandSteps(p) \/ Handles(p) \/ Lose(p) \/ Crash(p)
  BY <1>3, IntentKeeps, LookKeeps, StageKeeps, SendKeeps, DiscardKeeps, RememberKeeps,
     OnPrepareKeeps, OnCommitKeeps, LoseKeeps, CrashKeeps DEF CommandSteps, Handles
<1>4. CASE \E q \in strays : OnStray(q)
  BY <1>4, StrayKeeps
<1>5. CASE \E c \in Clients : RevokeReceiver(c)
  BY <1>5, RevokeReceiverKeeps
<1>6. CASE TimePasses
  BY <1>6, TimeKeeps DEF TimePasses
<1>7. CASE UNCHANGED vars
  <2>1. IInv'
    BY <1>7 DEF vars, IInv, TypeOK, CommandRight, StrayRight, WinnerRight, ClientNotAhead
  <2>2. TrustStep
    BY <1>7 DEF vars, TrustStep, OneWay
  <2> QED BY <2>1, <2>2
<1> QED BY <1>1, <1>2, <1>3, <1>4, <1>5, <1>6, <1>7 DEF Next

(* Whatever the clients, the operator and the network do, a pending peer's *)
(* invitation names it and is open until it expires, and no client takes   *)
(* itself for paired that the receiver did not pair.                       *)
THEOREM OwnersKept == Spec => []ReservationsOwned
<1>1. ASSUME IInv PROVE ReservationsOwned
  <2>1. ASSUME NEW c \in Clients, db.peer[c].status = "pending"
        PROVE  LET i == db.peer[c].by IN db.inv[i].peer = c /\ (i \notin past => Live(db, i))
    <3>1. HolderRight(db, past, anchors, c)
      BY <1>1 DEF IInv, DatabaseRight
    <3> QED BY <2>1, <3>1 DEF HolderRight, Live
  <2> QED BY <1>1, <2>1 DEF IInv, ReservationsOwned, PendingOwned
<1>2. IInv /\ [Next]_vars => IInv'
  BY NextKeeps
<1> QED BY <1>1, <1>2, Start0, PTL DEF Spec

(* What is told of an offer is true, a consumed one's client has its       *)
(* intent, keys that pairings rest on stay, and trust goes only by a       *)
(* revocation.                                                             *)
THEOREM OffersKept == Spec => OffersSound
<1>1. ASSUME IInv PROVE OffersTrue /\ IntentFirst /\ AnchorsKept
  <2>1. OffersTrue
    BY <1>1 DEF IInv, DatabaseRight, OfferRight, OffersTrue
  <2>2. IntentFirst
    BY <1>1 DEF IInv, WinnerRight, IntentFirst
  <2>3. AnchorsKept
    <3>1. anchors \subseteq Clients /\ \A c \in Clients : HolderRight(db, past, anchors, c)
      BY <1>1 DEF IInv, TypeOK, DatabaseRight
    <3> QED BY <3>1 DEF HolderRight, AnchorsKept
  <2> QED BY <2>1, <2>2, <2>3
<1>2. IInv /\ [Next]_vars => IInv'
  BY NextKeeps
<1>3. IInv /\ [Next]_vars => [TrustStep]_vars
  BY NextKeeps
<1>4. Spec => [](OffersTrue /\ IntentFirst /\ AnchorsKept)
  BY <1>1, <1>2, Start0, PTL DEF Spec
<1>5. Spec => TrustOnlyRevoked
  BY <1>2, <1>3, Start0, PTL DEF Spec, TrustOnlyRevoked, TrustStep
<1> QED BY <1>4, <1>5, PTL DEF OffersSound
=============================================================================
