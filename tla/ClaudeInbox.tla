----------------------------- MODULE ClaudeInbox -----------------------------
(***************************************************************************)
(* Posting one message to a Claude session, on this machine or over SSH    *)
(* (session_peer_core/claude.py, target_generation.py, ssh.py, sending.py).*)
(*                                                                         *)
(* The machine has processes, the registry files in which sessions say     *)
(* where their inbox is, and the inbox sockets.  Process numbers, socket   *)
(* paths and file numbers come back for other owners, registry files       *)
(* outlive their sessions, and all of this goes on between any two looks   *)
(* of the sender, who may pin the generation an earlier listing showed.    *)
(*                                                                         *)
(* One revalidation (claude.py:114) is one step: it only refuses, and a    *)
(* change between two of its reads is a change right before or after it.   *)
(***************************************************************************)
EXTENDS Integers, FiniteSets

CONSTANTS
  Pids,         \* process numbers
  Sockets,      \* paths of inbox sockets
  Profiles,     \* how many directories hold registry files
  Names,        \* names of sessions
  Wanted,       \* what the operator asks for: [name, pid], one of them given
  MaxBirths,    \* bound: processes started
  MaxNodes,     \* bound: file numbers
  MaxSwaps,     \* bound: replacements of a profile's directory
  Uses          \* how the sender is used: "here", "ssh"

ASSUME ClaudeAssumption ==
  /\ Pids \subseteq Nat \ {0} /\ Profiles \in Nat /\ MaxBirths \in Nat /\ MaxNodes \in Nat
  /\ "" \notin Sockets

VARIABLES
  life,       \* process number -> the birth of the process running under it, 0: none
  births,     \* processes started so far
  listed,     \* <<profile, process number>> -> the registry file
  inbox,      \* path -> the socket bound there
  freed,      \* file numbers that had an owner before
  reused,     \* whether one of them was given out again
  swaps,      \* profile -> how often its directory was replaced by another
  sender,     \* the one sender, on this machine
  caller      \* what its caller knows: on this machine what was printed

machineVars == <<life, births, listed, inbox, freed, reused, swaps>>
claudeVars == <<life, births, listed, inbox, freed, reused, swaps, sender, caller>>

NoEntry == [started |-> 0, path |-> "", name |-> ""]
NoProcess == [pid |-> 0, birth |-> 0]
Unbound == [node |-> 0, owner |-> NoProcess]
NoPin == [pid |-> 0, birth |-> 0, path |-> "", node |-> 0, dir |-> 0]
NoRow == [pid |-> 0, dir |-> 0, swap |-> 0, started |-> 0, path |-> "", name |-> "",
          alive |-> FALSE, node |-> 0, owner |-> NoProcess]
Unused == [pc |-> "idle", where |-> "", want |-> [name |-> "", pid |-> 0], pin |-> NoPin, calm |-> FALSE,
           dir |-> 0, swap |-> 0, files |-> {}, rows |-> {}, broken |-> FALSE, row |-> NoRow,
           birth |-> 0, conn |-> NoProcess, wrote |-> NoProcess, told |-> ""]

ClaudeInit ==
  /\ life = [p \in Pids |-> 0] /\ births = 0
  /\ listed = [f \in (1 .. Profiles) \X Pids |-> NoEntry]
  /\ inbox = [s \in Sockets |-> Unbound] /\ freed = {} /\ reused = FALSE
  /\ swaps = [d \in 1 .. Profiles |-> 0]
  /\ sender = Unused /\ caller = ""

Process(p) == [pid |-> p, birth |-> life[p]]
Alive(o) == o # NoProcess /\ life[o.pid] = o.birth

-----------------------------------------------------------------------------
(* The machine: processes and sessions that know nothing of the sender.     *)

(* Ghost: the sender notes that sessions came since it began.               *)
Disturbed == sender' = [sender EXCEPT !.calm = FALSE]

ProcessBegins(p) ==
  /\ life[p] = 0 /\ births < MaxBirths
  /\ life' = [life EXCEPT ![p] = births + 1] /\ births' = births + 1
  /\ Disturbed
  /\ UNCHANGED <<listed, inbox, freed, reused, swaps, caller>>

(* A session binds its inbox, over one that a dead session left there.      *)
OpensInbox(p, s, n) ==
  /\ life[p] # 0 /\ \A t \in Sockets : inbox[t].owner # Process(p)
  /\ ~Alive(inbox[s].owner)
  /\ \A t \in Sockets : inbox[t].node # n
  /\ inbox' = [inbox EXCEPT ![s] = [node |-> n, owner |-> Process(p)]]
  /\ freed' = freed \cup ({inbox[s].node} \ {0})
  /\ reused' = (reused \/ n \in freed)
  /\ Disturbed
  /\ UNCHANGED <<life, births, listed, swaps, caller>>

Registers(p, d, s, n) ==
  /\ life[p] # 0 /\ inbox[s].owner = Process(p)
  /\ listed' = [listed EXCEPT ![<<d, p>>] = [started |-> life[p], path |-> s, name |-> n]]
  /\ Disturbed
  /\ UNCHANGED <<life, births, inbox, freed, reused, swaps, caller>>

(* A process ends; only one that ends in order takes its things with it.    *)
ProcessEnds(p, orderly) ==
  /\ life[p] # 0
  /\ life' = [life EXCEPT ![p] = 0]
  /\ IF orderly
     THEN /\ inbox' = [s \in Sockets |-> IF inbox[s].owner = Process(p) THEN Unbound ELSE inbox[s]]
          /\ freed' = freed \cup {inbox[s].node : s \in {t \in Sockets : inbox[t].owner = Process(p)}}
          /\ listed' = [f \in DOMAIN listed |->
                          IF f[2] = p /\ listed[f].started = life[p] THEN NoEntry ELSE listed[f]]
     ELSE UNCHANGED <<inbox, freed, listed>>
  /\ UNCHANGED <<births, reused, swaps, sender, caller>>

(* Another directory takes a profile's place.                               *)
ProfileSwapped(d) ==
  /\ swaps[d] < MaxSwaps
  /\ swaps' = [swaps EXCEPT ![d] = @ + 1]
  /\ listed' = [f \in DOMAIN listed |-> IF f[1] = d THEN NoEntry ELSE listed[f]]
  /\ Disturbed
  /\ UNCHANGED <<life, births, inbox, freed, reused, caller>>

Machine ==
  \/ \E p \in Pids : ProcessBegins(p) \/ \E o \in BOOLEAN : ProcessEnds(p, o)
  \/ \E p \in Pids, s \in Sockets, n \in 1 .. MaxNodes : OpensInbox(p, s, n)
  \/ \E p \in Pids, d \in 1 .. Profiles, s \in Sockets, n \in Names : Registers(p, d, s, n)
  \/ \E d \in 1 .. Profiles : ProfileSwapped(d)

-----------------------------------------------------------------------------
(* What the sender reads of the machine.                                    *)

RowOf(d, p, swap) ==
  [pid |-> p, dir |-> d, swap |-> swap, started |-> listed[<<d, p>>].started, path |-> listed[<<d, p>>].path,
   name |-> listed[<<d, p>>].name, alive |-> life[p] # 0, node |-> 0, owner |-> NoProcess]
Reachable(r) == r.alive /\ r.node # 0

(* The same directory, registry file and socket as when the row was read.   *)
(* Here a process counts as alive whoever runs under its number.            *)
RevalidatesMutant(r) ==
  /\ swaps[r.dir] = r.swap
  /\ listed[<<r.dir, r.pid>>].path = r.path /\ listed[<<r.dir, r.pid>>].started = r.started
  /\ life[r.pid] # 0
Revalidates(r) ==
  /\ swaps[r.dir] = r.swap
  /\ listed[<<r.dir, r.pid>>].path = r.path /\ listed[<<r.dir, r.pid>>].started = r.started
  /\ life[r.pid] # 0
  /\ inbox[r.path].node = r.node /\ r.node # 0

Generation(r, birth) ==
  [pid |-> r.pid, birth |-> birth, path |-> r.path, node |-> inbox[r.path].node, dir |-> r.dir]

(* Live rows that claim one number, path or socket are all unusable.        *)
Conflict(rows) ==
  \E r, q \in rows : /\ r # q /\ r.alive /\ q.alive
                     /\ r.pid = q.pid \/ r.path = q.path \/ (r.node = q.node /\ r.node # 0)
Asked(rows, want) ==
  {r \in rows : Reachable(r) /\ IF want.name = "" THEN r.pid = want.pid ELSE r.name = want.name}

-----------------------------------------------------------------------------
(* A listing with generations: the row, its process's birth, then the rest. *)

ListRow(d, p) ==
  /\ sender.pc = "idle" /\ sender.pin = NoPin /\ listed[<<d, p>>] # NoEntry
  /\ sender' = [sender EXCEPT !.pc = "birth of row",
                  !.row = [RowOf(d, p, swaps[d]) EXCEPT !.node = inbox[listed[<<d, p>>].path].node]]
  /\ UNCHANGED <<machineVars, caller>>

ListBirth ==
  /\ sender.pc = "birth of row"
  /\ sender' = IF life[sender.row.pid] = 0 THEN Unused
               ELSE [sender EXCEPT !.pc = "rest of row", !.birth = life[sender.row.pid]]
  /\ UNCHANGED <<machineVars, caller>>

ListRest ==
  /\ sender.pc = "rest of row"
  /\ sender' = [Unused EXCEPT !.pin = IF Revalidates(sender.row) THEN Generation(sender.row, sender.birth)
                                      ELSE NoPin]
  /\ UNCHANGED <<machineVars, caller>>

-----------------------------------------------------------------------------
(* The sender.  Over SSH the same program runs on the machine.              *)

(* Every session that has an inbox has said so in some registry file.       *)
Settled ==
  \A s \in Sockets : Alive(inbox[s].owner) =>
    \E d \in 1 .. Profiles :
      /\ listed[<<d, inbox[s].owner.pid>>].path = s
      /\ listed[<<d, inbox[s].owner.pid>>].started = inbox[s].owner.birth

Conclude(told) ==
  /\ sender' = [sender EXCEPT !.pc = "done", !.told = told]
  /\ caller' = IF sender.where = "here" THEN told ELSE caller
Goes(pc) == sender' = [sender EXCEPT !.pc = pc] /\ UNCHANGED caller
(* A pinned target that is not found is reported as stale: nothing sent.    *)
NotFound == IF sender.pin = NoPin THEN "error" ELSE "refused"

Begin(where, want, pinned) ==
  /\ sender.pc = "idle" /\ (pinned <=> sender.pin # NoPin)
  /\ sender' = [Unused EXCEPT !.pc = "scan", !.dir = 1, !.where = where, !.want = want,
                  !.pin = sender.pin, !.calm = Settled]
  /\ UNCHANGED <<machineVars, caller>>

(* ssh cannot be started at all.                                            *)
LaunchFails(want) ==
  /\ sender.pc = "idle" /\ "ssh" \in Uses
  /\ sender' = [Unused EXCEPT !.pc = "done", !.where = "ssh", !.want = want, !.pin = sender.pin]
  /\ caller' = "transport"
  /\ UNCHANGED machineVars

(* The names of a profile's files and the directory they are in.            *)
ScanProfile ==
  /\ sender.pc = "scan" /\ sender.dir <= Profiles
  /\ sender' = [sender EXCEPT !.pc = "entry", !.swap = swaps[sender.dir],
                  !.files = {p \in Pids : listed[<<sender.dir, p>>] # NoEntry}]
  /\ UNCHANGED <<machineVars, caller>>

(* Files are read in order.  One that has gone leaves the scan incomplete   *)
(* when there are several profiles.                                         *)
ReadEntry ==
  /\ sender.pc = "entry"
  /\ IF sender.files = {} THEN sender' = [sender EXCEPT !.pc = "scan", !.dir = @ + 1]
     ELSE LET p == CHOOSE q \in sender.files : \A o \in sender.files : q <= o
              f == <<sender.dir, p>>
          IN sender' = [sender EXCEPT !.files = @ \ {p},
                !.broken = @ \/ (listed[f] = NoEntry /\ Profiles > 1),
                !.pc = IF listed[f] = NoEntry THEN "entry" ELSE "look",
                !.row = IF listed[f] = NoEntry THEN NoRow ELSE RowOf(sender.dir, p, sender.swap)]
  /\ UNCHANGED <<machineVars, caller>>

LookAtInbox ==
  /\ sender.pc = "look"
  /\ LET r == [sender.row EXCEPT !.node = inbox[sender.row.path].node, !.owner = inbox[sender.row.path].owner]
     IN sender' = [sender EXCEPT !.pc = "entry", !.row = NoRow,
          !.broken = @ \/ swaps[sender.dir] # sender.swap,
          !.rows = IF swaps[sender.dir] = sender.swap THEN @ \cup {r} ELSE @]
  /\ UNCHANGED <<machineVars, caller>>

Choose ==
  /\ sender.pc = "scan" /\ sender.dir > Profiles
  /\ LET found == Asked(sender.rows, sender.want)
     IN IF sender.broken \/ Conflict(sender.rows) \/ Cardinality(found) # 1
        THEN Conclude(NotFound)
        ELSE /\ sender' = [sender EXCEPT !.pc = "post", !.row = CHOOSE r \in found : TRUE, !.rows = {}]
             /\ UNCHANGED caller
  /\ UNCHANGED machineVars

(* The last look before the connection.                                     *)
Require ==
  /\ sender.pc = "post"
  /\ IF /\ Revalidates(sender.row)
        /\ sender.pin # NoPin => Generation(sender.row, life[sender.row.pid]) = sender.pin
     THEN Goes("connect") ELSE Conclude("refused")
  /\ UNCHANGED machineVars

ConnectInbox ==
  /\ sender.pc = "connect"
  /\ LET o == inbox[sender.row.path].owner
     IN IF Alive(o) THEN /\ sender' = [sender EXCEPT !.pc = "connected", !.conn = o]
                         /\ UNCHANGED caller
        ELSE Conclude("unreachable")
  /\ UNCHANGED machineVars

(* The connection decides who reads; the path is looked at once more.       *)
Recheck ==
  /\ sender.pc = "connected"
  /\ IF ~Revalidates(sender.row) \/ (sender.pin # NoPin /\ sender.conn.pid # sender.row.pid)
     THEN Conclude("refused")
     ELSE Goes(IF sender.pin = NoPin THEN "write" ELSE "birth")
  /\ UNCHANGED machineVars

VerifyBirth ==
  /\ sender.pc = "birth"
  /\ IF life[sender.row.pid] = 0 THEN Conclude("refused")
     ELSE /\ sender' = [sender EXCEPT !.pc = "verify", !.birth = life[sender.row.pid]]
          /\ UNCHANGED caller
  /\ UNCHANGED machineVars

VerifyRest ==
  /\ sender.pc = "verify"
  /\ IF Revalidates(sender.row) /\ Generation(sender.row, sender.birth) = sender.pin
     THEN Goes("write") ELSE Conclude("refused")
  /\ UNCHANGED machineVars

(* The message arrives, although an error may follow it; a reader that died *)
(* gets nothing.                                                            *)
Write(told) ==
  /\ sender.pc = "write" /\ (told = "posted" => Alive(sender.conn))
  /\ sender' = [sender EXCEPT !.pc = "done", !.told = told,
                  !.wrote = IF Alive(sender.conn) THEN sender.conn ELSE NoProcess]
  /\ caller' = IF sender.where = "here" THEN told ELSE caller
  /\ UNCHANGED machineVars

SenderKilled ==
  /\ sender.pc \notin {"idle", "birth of row", "rest of row", "done", "dead"}
  /\ sender' = [sender EXCEPT !.pc = "dead"]
  /\ UNCHANGED <<machineVars, caller>>

(* Over SSH: a complete answer is the answer, also when ssh ends badly.     *)
(* Anything else of a command once launched leaves the outcome unknown,     *)
(* whether the program over there still runs, has ended or died.            *)
Answered ==
  /\ sender.where = "ssh" /\ sender.pc = "done" /\ caller = ""
  /\ caller' = sender.told
  /\ UNCHANGED <<machineVars, sender>>
AnswerLost ==
  /\ sender.where = "ssh" /\ caller = ""
  /\ caller' = "unknown"
  /\ UNCHANGED <<machineVars, sender>>

Sending ==
  \/ \E d \in 1 .. Profiles, p \in Pids : ListRow(d, p)
  \/ ListBirth \/ ListRest
  \/ \E w \in Uses, t \in Wanted, pinned \in BOOLEAN : Begin(w, t, pinned)
  \/ \E t \in Wanted : LaunchFails(t)
  \/ ScanProfile \/ ReadEntry \/ LookAtInbox \/ Choose \/ Require \/ ConnectInbox \/ Recheck
  \/ VerifyBirth \/ VerifyRest \/ \E told \in {"posted", "failed"} : Write(told)
  \/ SenderKilled \/ Answered \/ AnswerLost

ClaudeNext == Machine \/ Sending
ClaudeSpec == ClaudeInit /\ [][ClaudeNext]_claudeVars

-----------------------------------------------------------------------------
Wrote == sender.wrote # NoProcess

(* A message pinned to a generation is read by the very process that was    *)
(* listed, or by nobody, whatever numbers, paths and files were reused.     *)
PinnedReachesItsProcess ==
  Wrote /\ sender.pin # NoPin => sender.wrote = [pid |-> sender.pin.pid, birth |-> sender.pin.birth]

(* Any message is read by the process whose inbox was seen when its row was *)
(* read, as long as file numbers are not given out again meanwhile.         *)
InboxAsSelected == Wrote /\ ~reused => sender.wrote = sender.row.owner

(* Where no session comes while the command runs, a message is read by the  *)
(* session that wrote the selected registry file, although dead sessions'   *)
(* files look alive once their numbers are used again.                      *)
StaleFilesHarmless ==
  Wrote /\ sender.calm => sender.wrote = [pid |-> sender.row.pid, birth |-> sender.row.started]

(* What the caller was told of the effect is true then and stays true.      *)
ToldTrue ==
  /\ caller \in {"refused", "error", "unreachable", "transport"} => ~Wrote
  /\ caller \in {"refused", "error", "unreachable", "transport"} => sender.pc \in {"done", "dead"}
  /\ caller = "posted" => Wrote

(* A message to a Claude session is read by the session it was meant for,   *)
(* and what its sender learns is true.                                      *)
ClaudeSafe == PinnedReachesItsProcess /\ InboxAsSelected /\ StaleFilesHarmless /\ ToldTrue
=============================================================================
