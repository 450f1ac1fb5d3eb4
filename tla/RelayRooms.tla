----------------------------- MODULE RelayRooms -----------------------------
(***************************************************************************)
(* The blind relay's connections and rooms (relay.py): a ticket issued by  *)
(* /v1/session is redeemed once by /v1/connect, which reserves a place     *)
(* under three limits; the connection's handler then opens a room, joins   *)
(* one or is refused, waits to be paired, forwards, and takes its room and *)
(* its partner down with it.                                               *)
(*                                                                         *)
(* One asyncio loop runs everything: a handler is cut only where it        *)
(* awaits, so process_request and the part of the handler before its first *)
(* wait are single steps.  A room is named after the connection that       *)
(* opened it.  Time is what has run out: `expired` tickets (which also     *)
(* bound the life of the stream they admitted) and rooms that are late.    *)
(***************************************************************************)
EXTENDS Naturals, FiniteSets

CONSTANTS
  Tickets,     \* the session tickets, each for one account
  RoomOf,      \* RoomOf[t]: the room of the ticket's account: [user, receiver]
  RoleOf,      \* RoleOf[t] \in Roles
  DeviceOf,    \* DeviceOf[t]: the device of the ticket's account
  Socks,       \* the WebSocket connections, each used once
  Limits,      \* [sessions, global, user, device |-> a bound of RelayLimits]
  NoSock       \* not a connection

Roles == {"receiver", "client"}
OtherRole(r) == IF r = "receiver" THEN "client" ELSE "receiver"

ASSUME TicketAssumption ==
  /\ RoleOf \in [Tickets -> Roles]
  /\ DOMAIN RoomOf = Tickets /\ DOMAIN DeviceOf = Tickets
  /\ NoSock \notin Socks
(* RelayLimits.validate: a device has no more than its user, a user no     *)
(* more than all.                                                          *)
ASSUME LimitsAssumption ==
  /\ Limits \in [{"sessions", "global", "user", "device"} -> Nat \ {0}]
  /\ Limits.device <= Limits.user /\ Limits.user <= Limits.global

VARIABLES
  issued,       \* tickets that were ever issued
  expired,      \* issued tickets whose 120 seconds are over
  sessions,     \* Relay.sessions: tickets waiting to be redeemed
  revoked,      \* devices whose authorization the control service withdrew
  connections,  \* Relay.connections
  waiting,      \* Relay.waiting: the room that waits under each room key
  room,         \* room[s]: the slot that s opened
  sock          \* sock[s]: the connection and its handler

roomVars == <<issued, expired, sessions, revoked, connections, waiting, room, sock>>

Rooms == {RoomOf[t] : t \in Tickets}
Devices == {DeviceOf[t] : t \in Tickets} \cup {k.receiver : k \in Rooms}
(* `pc` of a connection: not made; accepted, its handler not started;      *)
(* turned away as a second one of its role; in the wait for a partner;     *)
(* woken as paired; forwarding; before its finally block; there, waiting   *)
(* for the closing handshakes; over.                                       *)
PCs == {"new", "accepted", "busy", "waiting", "woken", "attached", "closing", "leaving", "done"}
NoTicket == "no ticket"
Sock == [pc : PCs, open : BOOLEAN, ticket : Tickets \cup {NoTicket}, slot : Socks \cup {NoSock},
         partner : Socks \cup {NoSock}]
Room == [members : [Roles -> Socks \cup {NoSock}], ready : BOOLEAN, late : BOOLEAN]
NewSock == [pc |-> "new", open |-> FALSE, ticket |-> NoTicket, slot |-> NoSock, partner |-> NoSock]
NewRoom == [members |-> [r \in Roles |-> NoSock], ready |-> FALSE, late |-> FALSE]

RoomTypeOK ==
  /\ issued \subseteq Tickets /\ expired \subseteq issued /\ sessions \subseteq issued \ expired
  /\ revoked \subseteq Devices
  /\ connections \subseteq Socks
  /\ waiting \in [Rooms -> Socks \cup {NoSock}]
  /\ room \in [Socks -> Room]
  /\ sock \in [Socks -> Sock]

RoomInit ==
  /\ issued = {} /\ expired = {} /\ sessions = {} /\ revoked = {} /\ connections = {}
  /\ waiting = [k \in Rooms |-> NoSock]
  /\ room = [s \in Socks |-> NewRoom]
  /\ sock = [s \in Socks |-> NewSock]

Key(s) == RoomOf[sock[s].ticket]
Role(s) == RoleOf[sock[s].ticket]
Active(t) == {DeviceOf[t], RoomOf[t].receiver} \cap revoked = {}

(* close_waiting_room takes a room out of `waiting` only if it is still    *)
(* the one there.                                                          *)
WithoutRoom(w, k, r) == IF w[k] = r THEN [w EXCEPT ![k] = NoSock] ELSE w

----------------------------------------------------------------------------
(* process_request: no step of it awaits.                                  *)

Held(T) == Cardinality({c \in connections : sock[c].ticket \in T})

(* Admission was granted: a ticket is issued unless too many are pending.  *)
Session(t) ==
  /\ t \notin issued
  /\ Cardinality(sessions) < Limits.sessions
  /\ issued' = issued \cup {t}
  /\ sessions' = sessions \cup {t}
  /\ UNCHANGED <<expired, revoked, connections, waiting, room, sock>>

(* The three limits, each over every connection that has not been let go,  *)
(* the closing ones included.                                              *)
Full(t) ==
  \/ Held({u \in Tickets : RoomOf[u].user = RoomOf[t].user}) >= Limits.user
  \/ Held({u \in Tickets : DeviceOf[u] = DeviceOf[t]}) >= Limits.device
  \/ Cardinality(connections) >= Limits.global

(* A refusal leaves the ticket and the places as they are.                 *)
AfterRefusal(t) == sessions
Refuse(s, t) ==
  /\ t \notin sessions \/ ~Active(t) \/ Full(t)
  /\ sessions' = AfterRefusal(t)
  /\ UNCHANGED <<issued, expired, revoked, connections, waiting, room, sock>>

Redeemed(t) == sessions \ {t}

Accept(s, t) ==
  /\ t \in sessions /\ Active(t) /\ ~Full(t)
  /\ sock' = [sock EXCEPT ![s] = [NewSock EXCEPT !.pc = "accepted", !.open = TRUE, !.ticket = t]]
  /\ connections' = connections \cup {s}
  /\ sessions' = Redeemed(t)
  /\ UNCHANGED <<issued, expired, revoked, waiting, room>>

Connect(s) == sock[s].pc = "new" /\ \E t \in issued : Refuse(s, t) \/ Accept(s, t)

----------------------------------------------------------------------------
(* The handler.                                                            *)

(* The library runs the handler when the handshake has gone through.  A    *)
(* room whose deadline is over is not joined any more: its own handler may *)
(* only not have noticed yet.                                              *)
JoinedMutant(s) ==
  LET w == waiting[Key(s)] IN
  IF w # NoSock THEN w ELSE s
Joined(s) ==
  LET w == waiting[Key(s)] IN
  IF w # NoSock /\ ~room[w].late THEN w ELSE s

Enter(s, r) ==
  LET slot == [room[r] EXCEPT !.members[Role(s)] = s]
      pairs == slot.members[OtherRole(Role(s))] # NoSock IN
  /\ room' = [room EXCEPT ![r] = [slot EXCEPT !.ready = pairs]]
  /\ waiting' = [waiting EXCEPT ![Key(s)] = IF pairs THEN NoSock ELSE r]
  /\ sock' = [sock EXCEPT ![s].pc = "waiting", ![s].slot = r]

Occupied(s, r) == room[r].members[Role(s)] # NoSock
TurnAway(s, r) ==
  /\ sock' = [sock EXCEPT ![s].pc = "busy", ![s].slot = r]
  /\ UNCHANGED <<waiting, room>>

StartRoom(s) ==
  /\ sock[s].pc = "accepted" /\ sock[s].open
  /\ LET r == Joined(s) IN
     IF Occupied(s, r) THEN TurnAway(s, r) ELSE Enter(s, r)
  /\ UNCHANGED <<issued, expired, sessions, revoked, connections>>

(* The wait ends with the partner, the connection or the time.  By then    *)
(* any of them may have come too; a connection that is just gone may or    *)
(* may not have been seen.                                                 *)
Wake(s) ==
  LET r == sock[s].slot IN
  /\ sock[s].pc = "waiting"
  /\ room[r].ready \/ room[r].late \/ ~sock[s].open
  /\ \E seen \in {FALSE, ~sock[s].open} :
       /\ room[r].ready \/ room[r].late \/ seen
       /\ IF room[r].ready /\ ~seen
          THEN /\ sock' = [sock EXCEPT ![s].pc = "woken"]
               /\ UNCHANGED waiting
          ELSE /\ sock' = [sock EXCEPT ![s].pc = "closing"]
               /\ waiting' = WithoutRoom(waiting, Key(s), r)
  /\ UNCHANGED <<issued, expired, sessions, revoked, connections, room>>

(* The partner may have left the slot since; telling of the attachment may *)
(* fail too.                                                               *)
Attach(s) ==
  LET other == room[sock[s].slot].members[OtherRole(Role(s))] IN
  /\ sock[s].pc = "woken"
  /\ \/ other # NoSock /\ sock' = [sock EXCEPT ![s].pc = "attached", ![s].partner = other]
     \/ (other = NoSock \/ ~sock[s].open) /\ sock' = [sock EXCEPT ![s].pc = "closing"]
  /\ UNCHANGED <<issued, expired, sessions, revoked, connections, waiting, room>>

(* Forwarding ends with the connection, the ticket's time, a frame it does *)
(* not take, the byte budget, or a partner that does not take a frame.     *)
StreamEnds(s) ==
  /\ sock[s].pc = "attached"
  /\ sock' = [sock EXCEPT ![s].pc = "closing"]
  /\ UNCHANGED <<issued, expired, sessions, revoked, connections, waiting, room>>

(* The finally block gives the place back, leaves the slot, takes it out   *)
(* of `waiting` and closes the partner; only then it closes its own        *)
(* connection, for which it may have to wait.  An empty slot is garbage.   *)
Left(r, x) == IF room[r].members[OtherRole(x)] = NoSock THEN NewRoom
              ELSE [room[r] EXCEPT !.members[x] = NoSock]
Out(s) == [sock[s] EXCEPT !.pc = "leaving", !.slot = NoSock, !.partner = NoSock]
Cleared(s) ==
  LET r == sock[s].slot IN
  /\ connections' = connections \ {s}
  /\ IF room[r].members[Role(s)] = s
     THEN LET other == room[r].members[OtherRole(Role(s))] IN
          /\ room' = [room EXCEPT ![r] = Left(r, Role(s))]
          /\ waiting' = WithoutRoom(waiting, Key(s), r)
          /\ sock' = [c \in Socks |->
                        CASE c = s -> Out(s)
                          [] c = other -> [sock[c] EXCEPT !.open = FALSE]
                          [] OTHER -> sock[c]]
     ELSE /\ sock' = [sock EXCEPT ![s] = Out(s)]
          /\ UNCHANGED <<room, waiting>>

Finish(s) ==
  /\ sock[s].pc \in {"closing", "busy"}
  /\ Cleared(s)
  /\ UNCHANGED <<issued, expired, sessions, revoked>>

CloseOwn(s) ==
  /\ sock[s].pc = "leaving"
  /\ sock' = [sock EXCEPT ![s].pc = "done", ![s].open = FALSE]
  /\ UNCHANGED <<issued, expired, sessions, revoked, connections, waiting, room>>

(* release_slot, for connections whose handler never ran or runs on.       *)
ReleaseSlot(s) ==
  /\ ~sock[s].open /\ s \in connections
  /\ connections' = connections \ {s}
  /\ sock' = [sock EXCEPT ![s].pc = IF @ = "accepted" THEN "done" ELSE @]
  /\ UNCHANGED <<issued, expired, sessions, revoked, waiting, room>>

(* watch_authorization polls as long as the handler runs.                  *)
Watching == {"busy", "waiting", "woken", "attached"}
WatchCloses(s) ==
  /\ sock[s].pc \in Watching /\ sock[s].open /\ ~Active(sock[s].ticket)
  /\ sock' = [sock EXCEPT ![s].open = FALSE]
  /\ UNCHANGED <<issued, expired, sessions, revoked, connections, waiting, room>>

----------------------------------------------------------------------------
(* Outside.                                                                *)

Disconnect(s) ==
  /\ sock[s].open
  /\ sock' = [sock EXCEPT ![s].open = FALSE]
  /\ UNCHANGED <<issued, expired, sessions, revoked, connections, waiting, room>>

TicketExpires(t) ==
  /\ t \in sessions
  /\ expired' = expired \cup {t}
  /\ sessions' = sessions \ {t}
  /\ UNCHANGED <<issued, revoked, connections, waiting, room, sock>>

Deadline(r) ==
  /\ \E k \in Rooms : waiting[k] = r
  /\ ~room[r].late
  /\ room' = [room EXCEPT ![r].late = TRUE]
  /\ UNCHANGED <<issued, expired, sessions, revoked, connections, waiting, sock>>

WithdrawDevice(d) ==
  /\ d \notin revoked
  /\ revoked' = revoked \cup {d}
  /\ UNCHANGED <<issued, expired, sessions, connections, waiting, room, sock>>

Handler(s) == StartRoom(s) \/ Wake(s) \/ Attach(s) \/ Finish(s) \/ CloseOwn(s)
RoomNext ==
  \/ \E t \in Tickets : Session(t) \/ TicketExpires(t)
  \/ \E s \in Socks : Connect(s) \/ Handler(s) \/ StreamEnds(s) \/ ReleaseSlot(s)
                        \/ WatchCloses(s) \/ Disconnect(s) \/ Deadline(s)
  \/ \E d \in Devices : WithdrawDevice(d)

RoomSpec == RoomInit /\ [][RoomNext]_roomVars

(* What the loop goes on to do by itself: run a handler that can go on,    *)
(* notice a closed connection, poll an authorization.  These are the       *)
(* guards of the steps above, StreamEnds only once the connection closed.  *)
GoesOn(s) ==
  LET c == sock[s] IN
  \/ c.pc = "accepted" /\ c.open
  \/ c.pc = "waiting" /\ (room[c.slot].ready \/ room[c.slot].late \/ ~c.open)
  \/ c.pc \in {"busy", "woken", "closing", "leaving"}
  \/ ~c.open /\ (c.pc = "attached" \/ s \in connections)
  \/ c.pc \in Watching /\ c.open /\ ~Active(c.ticket)

----------------------------------------------------------------------------
(* Properties.                                                             *)

Admitted == {s \in Socks : sock[s].pc # "new"}

(* A ticket admits one connection, and none gets lost: as long as it has   *)
(* not expired it is either still there to be redeemed or was used         *)
(* (process_request looks it up, refuses for capacity, and only then pops  *)
(* it).                                                                    *)
TicketsOnce ==
  /\ \A s, c \in Admitted : sock[s].ticket = sock[c].ticket => s = c
  /\ \A t \in issued \ expired : t \in sessions \/ \E s \in Admitted : sock[s].ticket = t

(* The limits hold over every open connection, whatever closes meanwhile:  *)
(* a place is reserved before the handshake ends and given back by the     *)
(* connection's own handler when it ends, or when the connection has       *)
(* closed.  A connection that its handler is closing does not count.       *)
WithinLimits ==
  LET used == {s \in Admitted : sock[s].open /\ sock[s].pc # "leaving"} IN
  /\ Cardinality(connections) <= Limits.global
  /\ used \subseteq connections
  /\ \A s \in used :
       /\ Cardinality({c \in used : Key(c).user = Key(s).user}) <= Limits.user
       /\ Cardinality({c \in used : DeviceOf[sock[c].ticket] = DeviceOf[sock[s].ticket]}) <= Limits.device

(* A room that waits can be joined: it has one member, whose handler still *)
(* waits in it and serves that room.  A handler that has given up, timed   *)
(* out or finished leaves none behind (close_waiting_room before any       *)
(* cleanup can yield).                                                     *)
WaitingAlive ==
  \A k \in Rooms : waiting[k] # NoSock =>
    LET r == room[waiting[k]] IN
    \E s \in Socks : /\ {r.members[x] : x \in Roles} \ {NoSock} = {s}
                     /\ sock[s].pc = "waiting" /\ sock[s].slot = waiting[k] /\ Key(s) = k
                     /\ ~r.ready

(* Frames only go between the two roles of one room: the partner of a      *)
(* forwarding handler serves the same user and receiver in the other role, *)
(* in the same slot, and forwards to nobody else.                          *)
ForwardsToItsOwn ==
  \A s \in Socks : sock[s].pc = "attached" =>
    LET o == sock[s].partner IN
    /\ Key(o) = Key(s) /\ Role(o) = OtherRole(Role(s))
    /\ sock[o].pc \notin {"leaving", "done"} => sock[o].slot = sock[s].slot
    /\ sock[o].partner \in {NoSock, s}

(* A room whose deadline has passed unpaired is never paired any more,     *)
(* though its opener may still be there and be slow to notice.             *)
LateRoomsStayClosed == [][\A r \in Socks : room[r].late /\ ~room[r].ready => ~room'[r].ready]_roomVars

(* When the loop has nothing left to do by itself, the places taken are    *)
(* those of open connections of active devices, and a leg that forwards    *)
(* has its partner forwarding back: whoever ends first, whenever, takes    *)
(* the other one along and nothing stays behind in a place or a room.      *)
NothingLeftBehind ==
  (\A s \in Socks : ~GoesOn(s)) =>
    \A s \in connections :
      /\ sock[s].open /\ Active(sock[s].ticket)
      /\ sock[s].pc = "waiting" => \E k \in Rooms : waiting[k] = sock[s].slot
      /\ sock[s].pc = "attached" => sock[sock[s].partner].partner = s

(* What the relay guarantees: admissions within the limits, rooms that can *)
(* be joined as long as they wait and no longer, frames that stay in their *)
(* room, and nothing left behind.                                          *)
RoomsSafe ==
  /\ [](/\ RoomTypeOK
        /\ TicketsOnce
        /\ WithinLimits
        /\ WaitingAlive
        /\ ForwardsToItsOwn
        /\ NothingLeftBehind)
  /\ LateRoomsStayClosed
=============================================================================
