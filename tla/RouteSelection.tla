--------------------------- MODULE RouteSelection ---------------------------
(***************************************************************************)
(* One application exchange over the direct and the relay route, against   *)
(* the receiver that takes the connections in (app.py: open_channel and    *)
(* exchange at the client; spawn, handle, watch_peer, relay_listener and   *)
(* close at the receiver; the admission and attachment of wire.py).        *)
(*                                                                         *)
(* The client dials every route in a task of its own, takes the first that *)
(* is ready, cancels or closes the rest, and submits once.  The receiver   *)
(* reserves a place for a connection before it schedules its handler,      *)
(* moves it to the authenticated places after TLS, and gives everything    *)
(* back however the handler ends.  A connection is named by its route and  *)
(* attempt; strangers stand for other clients of the receiver.             *)
(***************************************************************************)
EXTENDS Naturals, FiniteSets

CONSTANTS
  Strangers,    \* connections of others: <<"direct" or "relay", a number above 2>>
  PreauthLimit, \* PreauthLimit[k]: places before authentication, per route
  AuthLimit     \* places of authenticated connections

Kinds == {"direct", "relay"}
ASSUME StrangersAssumption == \A c \in Strangers : c[1] \in Kinds /\ c[2] > 2
ASSUME PlacesAssumption == PreauthLimit \in [Kinds -> Nat \ {0}] /\ AuthLimit \in Nat \ {0}

Channel(k, n) == <<k, n>>
Own == {Channel("direct", 1), Channel("relay", 1), Channel("relay", 2)}
Raws == Own \cup Strangers

VARIABLES
  client,     \* the exchange: [pc, pending, winner, sent]
  task,       \* task[k]: the dialling task of a route
  near,       \* near[c]: the client's end of a channel
  far,        \* far[c]: the receiver's end and its handler
  places,     \* the receiver's sets: [direct, relay, auth, connections]
  listener,   \* whether the receiver waits in its relay room
  closing,    \* Receiver.closing
  withdrawn   \* whether the receiver revoked the client

routeVars == <<client, task, near, far, places, listener, closing, withdrawn>>

(* A dialling task: before a channel exists, in TLS, in the probe, in the  *)
(* half second before the second attempt; the last three are done.         *)
Task == [pc : {"setup", "tls", "probe", "pause", "ready", "failed", "cancelled"}, attempt : 1..2]
Finished == {"ready", "failed", "cancelled"}
ClientPCs == {"racing", "settling", "sending", "waiting", "closing", "done"}
(* A handler: none, its task scheduled, in TLS, in TLS without trust in    *)
(* the client, serving, in its finally block, over; `open` is the socket.  *)
Far == [pc : {"none", "scheduled", "tls", "untrusted", "serving", "cleaning", "over"}, open : BOOLEAN]

RouteTypeOK ==
  /\ client.pc \in ClientPCs /\ client.pending \subseteq Kinds
  /\ client.winner \in Own \cup {<<>>} /\ client.sent \in [Own -> 0..2]
  /\ task \in [Kinds -> Task]
  /\ near \in [Own -> {"none", "open", "closed"}]
  /\ far \in [Raws -> Far]
  /\ DOMAIN places = {"direct", "relay", "auth", "connections"}
  /\ \A x \in DOMAIN places : places[x] \subseteq Raws
  /\ {listener, closing, withdrawn} \subseteq BOOLEAN

RouteInit ==
  /\ client = [pc |-> "racing", pending |-> Kinds, winner |-> <<>>, sent |-> [c \in Own |-> 0]]
  /\ task = [k \in Kinds |-> [pc |-> "setup", attempt |-> 1]]
  /\ near = [c \in Own |-> "none"]
  /\ far = [c \in Raws |-> [pc |-> "none", open |-> FALSE]]
  /\ places = [x \in {"direct", "relay", "auth", "connections"} |-> {}]
  /\ listener \in BOOLEAN
  /\ closing = FALSE /\ withdrawn = FALSE

Current(k) == Channel(k, task[k].attempt)

----------------------------------------------------------------------------
(* The receiver.                                                           *)

(* release() forgets a connection everywhere.                              *)
Released(c) == [x \in DOMAIN places |-> places[x] \ {c}]

(* spawn(): the place is reserved at once, or the connection is aborted.   *)
PlaceFree(c) == Cardinality(places[c[1]]) < PreauthLimit[c[1]]
Spawn(c) ==
  IF ~closing /\ PlaceFree(c)
  THEN /\ places' = [places EXCEPT ![c[1]] = @ \cup {c}, !.connections = @ \cup {c}]
       /\ far' = [far EXCEPT ![c] = [pc |-> "scheduled", open |-> TRUE]]
  ELSE /\ far' = [far EXCEPT ![c] = [pc |-> "over", open |-> FALSE]]
       /\ UNCHANGED places

(* The handler starts its TLS server with the certificates trusted then.   *)
HandlerStarts(c) ==
  /\ far[c].pc = "scheduled"
  /\ far' = [far EXCEPT ![c].pc = IF c \in Own /\ withdrawn THEN "untrusted" ELSE "tls"]
  /\ UNCHANGED <<client, task, near, places, listener, closing, withdrawn>>

(* TLS has ended.  A connection with a certificate leaves its preauth      *)
(* place for an authenticated one, if there is one left; one without stays *)
(* where it is, for a single request and two seconds.                      *)
Moved(c) == [places EXCEPT !.auth = @ \cup {c}, !.direct = @ \ {c}, !.relay = @ \ {c}]
Authenticates(c) ==
  /\ far[c].pc = "tls"
  /\ IF Cardinality(places.auth) < AuthLimit
     THEN places' = Moved(c) /\ far' = [far EXCEPT ![c].pc = "serving"]
     ELSE far' = [far EXCEPT ![c].pc = "cleaning"] /\ UNCHANGED places
StaysCertless(c) ==
  /\ far[c].pc = "tls"
  /\ far' = [far EXCEPT ![c].pc = "serving"]
  /\ UNCHANGED places

(* The receiver's TLS is over after the client's: the client has sent its  *)
(* last flight, and may have gone on or gone away since.                   *)
Finishing(c) == near[c] # "none" /\ ~(task[c[1]] = [pc |-> "tls", attempt |-> c[2]])
Served(c) ==
  /\ \/ c \in Strangers /\ (Authenticates(c) \/ StaysCertless(c))
     \/ c \in Own /\ Finishing(c) /\ Authenticates(c)
  /\ UNCHANGED <<client, task, near, listener, closing, withdrawn>>

(* Timeouts, a closed connection, the end of the budget, an error, a       *)
(* cancellation: the handler goes to its finally block.                    *)
HandlerEnds(c) ==
  /\ far[c].pc \in {"tls", "untrusted", "serving"}
  /\ far' = [far EXCEPT ![c].pc = "cleaning"]
  /\ UNCHANGED <<client, task, near, places, listener, closing, withdrawn>>

(* channel.close(), then abort() with release().                           *)
Cleanup(c) ==
  /\ far[c].pc = "cleaning"
  /\ far' = [far EXCEPT ![c] = [pc |-> "over", open |-> FALSE]]
  /\ places' = Released(c)
  /\ UNCHANGED <<client, task, near, listener, closing, withdrawn>>

(* watch_peer closes the channel of a peer that has been revoked; the        *)
(* handler notices.                                                        *)
WatchPeer(c) ==
  /\ withdrawn /\ c \in Own /\ far[c].pc = "serving" /\ far[c].open
  /\ far' = [far EXCEPT ![c].open = FALSE]
  /\ UNCHANGED <<client, task, near, places, listener, closing, withdrawn>>

(* close() cancels every handler; one that has not started never runs, and *)
(* its done callback aborts the connection.                                *)
Dropped == {c \in Raws : far[c].pc = "scheduled"}
Close ==
  /\ ~closing
  /\ closing' = TRUE
  /\ far' = [c \in Raws |-> CASE c \in Dropped -> [pc |-> "over", open |-> FALSE]
                              [] c \notin Dropped /\ far[c].pc = "scheduled" -> [pc |-> "over", open |-> TRUE]
                              [] far[c].pc \in {"tls", "untrusted", "serving"} -> [far[c] EXCEPT !.pc = "cleaning"]
                              [] OTHER -> far[c]]
  /\ places' = [x \in DOMAIN places |-> places[x] \ Dropped]
  /\ listener' = FALSE
  /\ UNCHANGED <<client, task, near, withdrawn>>

(* relay_listener goes back into a room, one at a time.                    *)
Listen ==
  /\ ~listener /\ ~closing
  /\ listener' = TRUE
  /\ UNCHANGED <<client, task, near, far, places, closing, withdrawn>>

StrangerArrives(c) ==
  /\ c \in Strangers /\ far[c].pc = "none"
  /\ c[1] = "relay" => listener
  /\ listener' = (listener /\ c[1] # "relay")
  /\ Spawn(c)
  /\ UNCHANGED <<client, task, near, closing, withdrawn>>

Withdraw ==
  /\ ~withdrawn
  /\ withdrawn' = TRUE
  /\ UNCHANGED <<client, task, near, far, places, listener, closing>>

----------------------------------------------------------------------------
(* The client's dialling tasks.                                            *)

To(k, pc) == task' = [task EXCEPT ![k].pc = pc]
Live(k) == task[k].pc \notin Finished

(* The connection is made.  Over the relay it takes the receiver out of    *)
(* its room, also when the client does not get to know of it.              *)
Connects(k) ==
  /\ task[k].pc = "setup" /\ ~closing
  /\ k = "relay" => listener
  /\ listener' = (listener /\ k # "relay")
  /\ Spawn(Current(k))
  /\ \/ near' = [near EXCEPT ![Current(k)] = "open"] /\ To(k, "tls")
     \/ k = "relay" /\ near' = [near EXCEPT ![Current(k)] = "closed"] /\ To(k, "failed")
  /\ UNCHANGED <<client, closing, withdrawn>>

(* A timeout of control or relay admission, before any connection, is      *)
(* tried once more.                                                        *)
Again(k, connected) == k = "relay" /\ ~connected /\ task[k].attempt = 1
TimesOut(k) ==
  /\ task[k].pc \in {"setup", "tls", "probe"}
  /\ near' = [near EXCEPT ![Current(k)] = IF @ = "open" THEN "closed" ELSE @]
  /\ To(k, IF Again(k, task[k].pc # "setup") THEN "pause" ELSE "failed")
  /\ UNCHANGED <<client, far, places, listener, closing, withdrawn>>

(* Every other failure ends the task: refused, no room, TLS, a receiver    *)
(* that is not the peer.  The channel is closed on the way out.            *)
Fails(k) ==
  /\ task[k].pc \in {"setup", "tls", "probe"}
  /\ near' = [near EXCEPT ![Current(k)] = IF @ = "open" THEN "closed" ELSE @]
  /\ To(k, "failed")
  /\ UNCHANGED <<client, far, places, listener, closing, withdrawn>>

TriesAgain(k) ==
  /\ task[k].pc = "pause"
  /\ task' = [task EXCEPT ![k] = [pc |-> "setup", attempt |-> @.attempt + 1]]
  /\ UNCHANGED <<client, near, far, places, listener, closing, withdrawn>>

(* The client's TLS needs the receiver's handler, and is over before it.   *)
Handshake(k) ==
  /\ task[k].pc = "tls" /\ far[Current(k)].pc \in {"tls", "untrusted"}
  /\ To(k, "probe")
  /\ UNCHANGED <<client, near, far, places, listener, closing, withdrawn>>

Probed(k) ==
  /\ task[k].pc = "probe" /\ far[Current(k)] = [pc |-> "serving", open |-> TRUE] /\ ~withdrawn
  /\ To(k, "ready")
  /\ UNCHANGED <<client, near, far, places, listener, closing, withdrawn>>

----------------------------------------------------------------------------
(* The client's exchange.                                                  *)

(* A cancelled task closes its channel as it unwinds.                      *)
Cancelled(ks) == [k \in Kinds |-> IF k \in ks /\ Live(k) THEN [task[k] EXCEPT !.pc = "cancelled"] ELSE task[k]]
ClosedBy(cs) == [c \in Own |-> IF c \in cs /\ near[c] = "open" THEN "closed" ELSE near[c]]

Ready(ks) == {k \in ks : task[k].pc = "ready"}
Preferred(ks) == IF "direct" \in ks THEN "direct" ELSE "relay"

(* asyncio.wait returns with what is finished by then.  A success wins,    *)
(* the direct one first; the others are cancelled, and a second success is *)
(* closed.  Without one the wait goes on as long as there is a task.       *)
LosersMutant(w) == {Current(k) : k \in {x \in Kinds \ {w} : Live(x)}}
Losers(w) == {Current(k) : k \in Kinds \ {w}}
Select ==
  LET done == {k \in client.pending : ~Live(k)} IN
  /\ client.pc = "racing" /\ done # {}
  /\ IF Ready(done) # {}
     THEN LET w == Preferred(Ready(done)) IN
          /\ client' = [client EXCEPT !.pc = "sending", !.pending = {}, !.winner = Current(w)]
          /\ task' = Cancelled(Kinds \ {w})
          /\ near' = ClosedBy(Losers(w))
     ELSE /\ client' = [client EXCEPT !.pending = @ \ done,
                                      !.pc = IF client.pending = done THEN "done" ELSE @]
          /\ UNCHANGED <<task, near>>
  /\ UNCHANGED <<far, places, listener, closing, withdrawn>>

(* The one submission: `sent` as soon as any of it may have left.  What    *)
(* happens to it afterwards, and an answer or none, ends the exchange.     *)
Send ==
  /\ client.pc = "sending"
  /\ client' = [client EXCEPT !.pc = "waiting", !.sent[client.winner] = @ + 1]
  /\ UNCHANGED <<task, near, far, places, listener, closing, withdrawn>>

AfterNoAnswer == "closing"
AnswerArrives ==
  /\ client.pc = "waiting"
  /\ client' = [client EXCEPT !.pc = "closing"]
  /\ UNCHANGED <<task, near, far, places, listener, closing, withdrawn>>
(* A frame that is refused before it leaves, a failed send, a lost answer. *)
NoAnswer ==
  /\ client.pc \in {"sending", "waiting"}
  /\ client' = [client EXCEPT !.pc = AfterNoAnswer]
  /\ UNCHANGED <<task, near, far, places, listener, closing, withdrawn>>

CloseChannel ==
  /\ client.pc = "closing"
  /\ client' = [client EXCEPT !.pc = "done"]
  /\ near' = ClosedBy({client.winner})
  /\ UNCHANGED <<task, far, places, listener, closing, withdrawn>>

RouteNext ==
  \/ \E c \in Raws : HandlerStarts(c) \/ Served(c) \/ HandlerEnds(c) \/ Cleanup(c)
                      \/ WatchPeer(c) \/ StrangerArrives(c)
  \/ \E k \in Kinds : Connects(k) \/ TimesOut(k) \/ Fails(k) \/ TriesAgain(k) \/ Handshake(k) \/ Probed(k)
  \/ Select \/ Send \/ AnswerArrives \/ NoAnswer \/ CloseChannel
  \/ Close \/ Listen \/ Withdraw

RouteSpec == RouteInit /\ [][RouteNext]_routeVars

----------------------------------------------------------------------------
(* Properties.                                                             *)

(* However the race ends (both routes ready at once, one late, none, a     *)
(* failed submission), the exchange leaves no channel of its own open, and *)
(* while it submits it holds just the winner.                              *)
NoChannelLeft ==
  LET open == {c \in Own : near[c] = "open"} IN
  /\ client.pc = "done" => open = {}
  /\ client.pc \in {"sending", "waiting", "closing"} => open \subseteq {client.winner}

(* The receiver's places bound what it has open: every open connection     *)
(* holds exactly one place of its kind, no place is held by one that is    *)
(* over, and no kind has more than its limit, whoever comes in a burst.    *)
PlacesBound ==
  /\ \A k \in Kinds : Cardinality(places[k]) <= PreauthLimit[k]
  /\ Cardinality(places.auth) <= AuthLimit
  /\ \A c \in Raws : far[c].open =>
       c \in places.connections /\ Cardinality({x \in Kinds \cup {"auth"} : c \in places[x]}) = 1
  /\ \A x \in DOMAIN places : \A c \in places[x] : far[c].pc \notin {"none", "over"}

(* The application request goes out once at most over all routes and       *)
(* attempts, and only over a channel whose peer has answered the probe.    *)
SubmittedOnce ==
  \A c \in Own : client.sent[c] > 0 =>
    /\ client.sent[c] = 1
    /\ c = client.winner /\ task[c[1]].pc = "ready" /\ task[c[1]].attempt = c[2]
    /\ \A o \in Own \ {c} : client.sent[o] = 0

(* The relay route is tried again only if the first attempt cannot have    *)
(* reached the receiver: a timeout after the attachment may have used up   *)
(* its waiting room and is reported as it is.                              *)
NoRetryAfterAttach == task["relay"].attempt = 2 => far[Channel("relay", 1)].pc = "none"

(* The exchange and the receiver's admission together: one submission over *)
(* one channel, no second attempt that could be a second arrival, and      *)
(* neither side keeps a connection that nobody serves.                     *)
ExchangeSafe ==
  /\ RouteTypeOK
  /\ NoChannelLeft
  /\ SubmittedOnce
  /\ NoRetryAfterAttach
  /\ PlacesBound
=============================================================================
