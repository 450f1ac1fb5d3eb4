-------------------------- MODULE AntigravityBridge --------------------------
(***************************************************************************)
(* The opt-in bridge of an Antigravity TUI and the commands that send      *)
(* through it (session_peer_core/antigravity.py).                          *)
(*                                                                         *)
(* A bridge runs inside the TUI of one thread.  Under the thread's lock it *)
(* binds a socket and writes a registration with a new generation, answers *)
(* one connection at a time, remembers the requests of its generation in   *)
(* memory only, and removes its files when it stops.  A bridge may be      *)
(* killed at any point, also while the native call it made goes on.        *)
(* Every attempt to send goes through the registration, a status query and *)
(* one request; the operator may repeat a request id, with the generation  *)
(* it was first sent to, from this machine or through a connection that    *)
(* was lost.                                                               *)
(***************************************************************************)
EXTENDS Integers, FiniteSets

CONSTANTS
  Bridges,      \* starts of the bridge, numbered: each is its own generation
  Attempts,     \* commands that send, numbered
  RequestIds,   \* ids the operator may give and repeat
  Texts,
  MaxRequests,  \* --max-requests of every bridge
  MaxTui        \* bound: starts of the TUI

ASSUME BridgeAssumption ==
  Bridges \subseteq Nat \ {0} /\ Attempts \subseteq Nat \ {0} /\ "" \notin RequestIds
  /\ MaxRequests \in Nat /\ MaxTui \in Nat

VARIABLES
  tui,        \* the running start of the TUI, 0: none
  tuis,       \* its starts so far
  locked,     \* the bridge that holds the thread's lock, 0: none
  bound,      \* the bridge whose socket is at the thread's path, 0: no file
  registered, \* the generation in the registration file, 0: no file
  bridge,     \* what each bridge is doing
  attempt,    \* what each sending command is doing
  natives     \* ghost: <<bridge, attempt>> of every native call, and whether it was accepted

agyVars == <<tui, tuis, locked, bound, registered, bridge, attempt, natives>>

(* A request is known by the id given, or by its attempt's own fresh one.   *)
NoBridge == [pc |-> "none", owner |-> 0, seen |-> {}, queue |-> {}, at |-> 0]
Id(own, given) == [own |-> own, given |-> given]
NoAttempt == [pc |-> "none", id |-> Id(0, ""), pin |-> 0, text |-> "", to |-> 0, told |-> ""]

AgyInit ==
  /\ tui = 1 /\ tuis = 1 /\ locked = 0 /\ bound = 0 /\ registered = 0
  /\ bridge = [b \in Bridges |-> NoBridge] /\ attempt = [a \in Attempts |-> NoAttempt]
  /\ natives = {}

At(b, pc) == bridge[b].pc = pc
Moves(b, pc) == bridge' = [bridge EXCEPT ![b].pc = pc]
Listening == {"listening", "serving", "native"}
(* The process that started the bridge still runs and is still in the thread. *)
OwnerLive(b) == tui # 0 /\ bridge[b].owner = tui

-----------------------------------------------------------------------------
(* The bridge.                                                              *)

BridgeStarts(b) ==
  /\ At(b, "none") /\ \A o \in Bridges : o < b => ~At(o, "none")
  /\ tui # 0
  /\ IF locked # 0
     THEN Moves(b, "gone") /\ UNCHANGED locked
     ELSE /\ bridge' = [bridge EXCEPT ![b].pc = "locked", ![b].owner = tui] /\ locked' = b
  /\ UNCHANGED <<tui, tuis, bound, registered, attempt, natives>>

(* What an earlier bridge left behind is removed under the lock.            *)
RemoveSocket(b) ==
  /\ At(b, "locked")
  /\ bound' = 0 /\ Moves(b, "cleared")
  /\ UNCHANGED <<tui, tuis, locked, registered, attempt, natives>>
BindSocket(b) ==
  /\ At(b, "cleared") /\ bound = 0
  /\ registered' = 0 /\ bound' = b /\ Moves(b, "listening")
  /\ UNCHANGED <<tui, tuis, locked, attempt, natives>>
Publish(b) ==
  /\ At(b, "listening") /\ registered = 0
  /\ registered' = b /\ Moves(b, "serving")
  /\ UNCHANGED <<tui, tuis, locked, bound, attempt, natives>>

(* The attempts in a set lose their connection.                             *)
Dropped(as) == [a \in Attempts |-> IF a \in as /\ attempt[a].pc = "waiting"
                                   THEN [attempt[a] EXCEPT !.pc = "done", !.told = "unknown"] ELSE attempt[a]]
Open(b) == bridge[b].queue \cup ({bridge[b].at} \ {0})

(* A signal, a stop request, the end of its time or of its owner.           *)
BridgeStops(b) ==
  /\ At(b, "serving")
  /\ bridge' = [bridge EXCEPT ![b].pc = "stopping", ![b].queue = {}]
  /\ attempt' = Dropped(Open(b))
  /\ UNCHANGED <<tui, tuis, locked, bound, registered, natives>>
CleanUp(b) ==
  /\ At(b, "stopping")
  /\ bound' = 0 /\ Moves(b, "leaving")
  /\ UNCHANGED <<tui, tuis, locked, registered, attempt, natives>>
Leave(b) ==
  /\ At(b, "leaving")
  /\ registered' = 0 /\ locked' = 0 /\ Moves(b, "gone")
  /\ UNCHANGED <<tui, tuis, bound, attempt, natives>>

(* Only the lock goes with a killed bridge.                                 *)
BridgeKilled(b) ==
  /\ bridge[b].pc \notin {"none", "gone"}
  /\ bridge' = [bridge EXCEPT ![b] = [NoBridge EXCEPT !.pc = "gone"]]
  /\ locked' = IF locked = b THEN 0 ELSE locked
  /\ attempt' = Dropped(Open(b))
  /\ UNCHANGED <<tui, tuis, bound, registered, natives>>

(* The answer reaches an attempt that still waits for it.                   *)
Answer(a, told) ==
  attempt' = IF attempt[a].pc = "waiting" THEN [attempt EXCEPT ![a].pc = "done", ![a].told = told] ELSE attempt

Seen(b, id) == {s \in bridge[b].seen : s.id = id}

Refused(b, a) ==
  \/ attempt[a].to # b                                    \* stale_generation
  \/ ~OwnerLive(b)                                        \* owner_not_live
  \/ \E s \in Seen(b, attempt[a].id) : s.text # attempt[a].text
  \/ Seen(b, attempt[a].id) = {} /\ Cardinality(bridge[b].seen) >= MaxRequests
RepeatedMutant(b, a) == \E s \in Seen(b, attempt[a].id) : s.text = attempt[a].text /\ s.result = "submitted"
Repeated(b, a) == \E s \in Seen(b, attempt[a].id) : s.text = attempt[a].text

(* One connection is served.  A new request is entered as unknown before    *)
(* the native call; the result of that call replaces the entry.             *)
Serve(b, a) ==
  /\ At(b, "serving") /\ a \in bridge[b].queue
  /\ IF Refused(b, a)
     THEN bridge' = [bridge EXCEPT ![b].queue = @ \ {a}] /\ Answer(a, "refused") /\ UNCHANGED natives
     ELSE IF Repeated(b, a)
     THEN /\ bridge' = [bridge EXCEPT ![b].queue = @ \ {a}]
          /\ Answer(a, (CHOOSE s \in Seen(b, attempt[a].id) : TRUE).result)
          /\ UNCHANGED natives
     ELSE /\ bridge' = [bridge EXCEPT ![b].pc = "native", ![b].queue = @ \ {a}, ![b].at = a,
                ![b].seen = @ \cup {[id |-> attempt[a].id, text |-> attempt[a].text, result |-> "unknown"]}]
          /\ natives' = natives \cup {[by |-> b, for |-> a, accepted |-> FALSE]}
          /\ UNCHANGED attempt
  /\ UNCHANGED <<tui, tuis, locked, bound, registered>>

(* The thread takes the message, with or without the bridge.                *)
NativeAccepts(n) ==
  /\ ~n.accepted
  /\ natives' = (natives \ {n}) \cup {[n EXCEPT !.accepted = TRUE]}
  /\ UNCHANGED <<tui, tuis, locked, bound, registered, bridge, attempt>>

(* The native program ends or is given up after 15 seconds; only exit code  *)
(* 0 says that it was accepted.                                             *)
NativeEnds(b, ok) ==
  /\ At(b, "native")
  /\ LET a == bridge[b].at
         result == IF ok THEN "submitted" ELSE "unknown"
     IN /\ ok => [by |-> b, for |-> a, accepted |-> TRUE] \in natives
        /\ bridge' = [bridge EXCEPT ![b].pc = "serving", ![b].at = 0,
             ![b].seen = {s \in @ : s.id # attempt[a].id}
                           \cup {[id |-> attempt[a].id, text |-> attempt[a].text, result |-> result]}]
        /\ Answer(a, result)
  /\ UNCHANGED <<tui, tuis, locked, bound, registered, natives>>

-----------------------------------------------------------------------------
(* A sending command.                                                       *)

(* A given id needs a generation: that of some bridge the operator saw.     *)
AttemptStarts(a, id, pin, text) ==
  /\ attempt[a].pc = "none" /\ \A o \in Attempts : o < a => attempt[o].pc # "none"
  /\ (pin # 0) => bridge[pin].pc # "none"
  /\ id # "" => pin # 0
  /\ attempt' = [attempt EXCEPT ![a] = [NoAttempt EXCEPT !.pc = "look", !.pin = pin, !.text = text,
                   !.id = IF id = "" THEN Id(a, "") ELSE Id(0, id)]]
  /\ UNCHANGED <<tui, tuis, locked, bound, registered, bridge, natives>>

Ends(a, told) == attempt' = [attempt EXCEPT ![a].pc = "done", ![a].told = told]

(* The registration is read, its owner looked at and its bridge asked.      *)
ReadRegistration(a) ==
  /\ attempt[a].pc = "look"
  /\ IF registered = 0 \/ (registered # 0 /\ ~OwnerLive(registered))
     THEN Ends(a, "not_registered")
     ELSE attempt' = [attempt EXCEPT ![a].pc = "ask", ![a].to = registered]
  /\ UNCHANGED <<tui, tuis, locked, bound, registered, bridge, natives>>

AskStatus(a, ready) ==
  /\ attempt[a].pc = "ask"
  /\ ready => bound # 0 /\ bridge[bound].pc \in Listening /\ bound = attempt[a].to /\ OwnerLive(bound)
  /\ IF ~ready THEN Ends(a, "not_registered")
     ELSE IF attempt[a].pin \notin {0, attempt[a].to} THEN Ends(a, "stale")
     ELSE attempt' = [attempt EXCEPT ![a].pc = "post"]
  /\ UNCHANGED <<tui, tuis, locked, bound, registered, bridge, natives>>

(* Whoever is bound to the path now gets the request.                       *)
Post(a) ==
  /\ attempt[a].pc = "post"
  /\ IF bound # 0 /\ bridge[bound].pc \in Listening
     THEN /\ attempt' = [attempt EXCEPT ![a].pc = "waiting"]
          /\ bridge' = [bridge EXCEPT ![bound].queue = @ \cup {a}]
     ELSE Ends(a, "unknown") /\ UNCHANGED bridge
  /\ UNCHANGED <<tui, tuis, locked, bound, registered, natives>>

(* Twenty seconds pass, or the connection is lost; the request stays.       *)
AttemptGivesUp(a) ==
  /\ attempt[a].pc = "waiting" /\ Ends(a, "unknown")
  /\ UNCHANGED <<tui, tuis, locked, bound, registered, bridge, natives>>

TuiEnds == /\ tui # 0 /\ tui' = 0
           /\ UNCHANGED <<tuis, locked, bound, registered, bridge, attempt, natives>>
TuiStarts == /\ tui = 0 /\ tuis < MaxTui /\ tui' = tuis + 1 /\ tuis' = tuis + 1
             /\ UNCHANGED <<locked, bound, registered, bridge, attempt, natives>>

BridgeActs(b) ==
  \/ BridgeStarts(b) \/ RemoveSocket(b) \/ BindSocket(b) \/ Publish(b)
  \/ BridgeStops(b) \/ CleanUp(b) \/ Leave(b) \/ BridgeKilled(b)
  \/ \E a \in Attempts : Serve(b, a)
  \/ \E ok \in BOOLEAN : NativeEnds(b, ok)
AttemptActs(a) ==
  \/ \E id \in RequestIds \cup {""}, pin \in Bridges \cup {0}, text \in Texts : AttemptStarts(a, id, pin, text)
  \/ ReadRegistration(a) \/ \E ready \in BOOLEAN : AskStatus(a, ready)
  \/ Post(a) \/ AttemptGivesUp(a)
AgyNext ==
  \/ \E b \in Bridges : BridgeActs(b)
  \/ \E a \in Attempts : AttemptActs(a)
  \/ \E n \in natives : NativeAccepts(n)
  \/ TuiEnds \/ TuiStarts
AgySpec == AgyInit /\ [][AgyNext]_agyVars

-----------------------------------------------------------------------------
Calls(b, id) == {n \in natives : n.by = b /\ attempt[n.for].id = id}

(* However often a request is repeated to a generation, given up by those   *)
(* who wait or queued behind a slow native call, the thread is called at    *)
(* most once for it.                                                        *)
OneCallPerRequest == \A b \in Bridges, a \in Attempts : Cardinality(Calls(b, attempt[a].id)) <= 1

(* "submitted" is told only for a text the thread accepted, and an attempt  *)
(* told that nothing was sent has made no call and will make none.          *)
RepliesTrue ==
  \A a \in Attempts :
    /\ attempt[a].told = "submitted" =>
         \E n \in Calls(attempt[a].to, attempt[a].id) : n.accepted /\ attempt[n.for].text = attempt[a].text
    /\ attempt[a].told \in {"refused", "stale", "not_registered"} => ~\E n \in natives : n.for = a

(* A request never reaches the thread through a generation it was not meant *)
(* for, and no generation makes more calls than its limit.                  *)
GenerationsKept ==
  /\ \A n \in natives : attempt[n.for].to = n.by /\ attempt[n.for].pin \in {0, n.by}
  /\ \A b \in Bridges : Cardinality({n \in natives : n.by = b}) <= MaxRequests

(* Neither the start nor the end of another bridge takes the files of one   *)
(* that serves, and what a killed one left behind never passes for it.      *)
FilesOfTheServing ==
  \A b \in Bridges : bridge[b].pc \in {"serving", "native"} => bound = b /\ registered = b /\ locked = b

(* A bridge that dies, is replaced or answers late never makes a message    *)
(* arrive twice or a told outcome false.                                    *)
BridgeSafe == OneCallPerRequest /\ RepliesTrue /\ GenerationsKept /\ FilesOfTheServing
=============================================================================
