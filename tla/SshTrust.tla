------------------------------ MODULE SshTrust ------------------------------
(***************************************************************************)
(* The SSH configuration an operator selects for one command               *)
(* (session_peer_core/ssh_config.py): the path is walked without following *)
(* links, every directory and the file are held open, the file is read in  *)
(* pieces, and the identities of all of them with a digest are the         *)
(* selection.  Before each ssh of the command, its queries (-G) and its    *)
(* connection, the whole walk is repeated; ssh then opens the path itself. *)
(*                                                                         *)
(* The path has one directory of interest.  A directory, or a file, has a  *)
(* number for the device, inode and owner; every write or change of the    *)
(* mode of a file shows in its times and is counted, the mode of a         *)
(* directory is part of its identity.  Descriptors may fail to close.      *)
(***************************************************************************)
EXTENDS Integers, FiniteSets

CONSTANTS
  MaxNode,      \* bound on directories and on files
  MaxChanges,   \* bound on what others change
  Modes         \* how a command asks ssh before it connects

ASSUME TrustAssumption ==
  MaxNode \in Nat \ {0} /\ MaxChanges \in Nat /\ Modes \subseteq {"explicit", "plain", "bounded", "identity"}

VARIABLES
  there,      \* the directory at the path
  entry,      \* entry[d]: the file under the name in it
  changed,    \* changed[f]: how often a file was changed
  unsafe,     \* directories and files others may write, as <<"dir", n>>
  made,       \* directories and files so far
  walk,       \* the command, its walk and its descriptors
  sshUsed,    \* ghost: what each ssh found at the path
  changes

sshTrustVars == <<there, entry, changed, unsafe, made, walk, sshUsed, changes>>
pathVars == <<there, entry, changed, unsafe, made, changes>>

Nodes == 1 .. MaxNode
Nothing == [dir |-> 0, safe |-> TRUE, file |-> <<0, 0>>]
NoWalk == [pc |-> "idle", mode |-> "", selected |-> Nothing, fds |-> {}, dir |-> 0, safe |-> TRUE, before |-> <<0, 0>>, data |-> {},
           outcome |-> "", checking |-> FALSE, late |-> FALSE, ssh |-> 0]

TrustInit ==
  /\ there = 1 /\ entry = [d \in Nodes |-> 1] /\ changed = [f \in Nodes |-> 0]
  /\ unsafe \in {{}, {<<"dir", 1>>}, {<<"file", 1>>}}
  /\ made = 1 /\ walk = NoWalk /\ sshUsed = {} /\ changes = 0

(* _ssh_config_identity.                                                   *)
Identity(f) == <<f, changed[f]>>
(* _ssh_config_check_fd: nobody else may change it.                        *)
Trusted(n) == n \notin unsafe
AtPath == [dir |-> there, safe |-> Trusted(<<"dir", there>>), file |-> Identity(entry[there])]

-----------------------------------------------------------------------------
(* _ssh_config_snapshot.  Any system call may fail, and an interrupt may   *)
(* come; what is open is closed on every way out.                          *)

Walking == walk.pc \in {"dir", "file", "read", "confirm"}
Leaves(o) == [walk EXCEPT !.pc = "close file", !.outcome = o]

Again == [walk EXCEPT !.pc = "dir", !.late = FALSE, !.data = {}, !.outcome = ""]
StartsWalk ==
  /\ walk.pc = "next"
  /\ walk' = [Again EXCEPT !.checking = TRUE]
  /\ UNCHANGED <<pathVars, sshUsed>>
OpensDirectory ==
  /\ walk.pc = "dir"
  /\ LET opened == [walk EXCEPT !.fds = {"dir"}, !.dir = there, !.safe = Trusted(<<"dir", there>>)] IN
     walk' = IF opened.safe THEN [opened EXCEPT !.pc = "file"]
             ELSE [opened EXCEPT !.pc = "close file", !.outcome = "unsafe"]
  /\ UNCHANGED <<pathVars, sshUsed>>
OpensFile ==
  LET f == entry[walk.dir] IN
  /\ walk.pc = "file"
  /\ walk' = [(IF Trusted(<<"file", f>>) THEN [walk EXCEPT !.pc = "read"] ELSE Leaves("unsafe"))
                EXCEPT !.fds = {"dir", "file"}, !.before = Identity(f)]
  /\ UNCHANGED <<pathVars, sshUsed>>
ReadsChunk ==
  /\ walk.pc = "read"
  /\ \E more \in BOOLEAN :
       walk' = [walk EXCEPT !.pc = IF more THEN "read" ELSE "confirm", !.data = @ \cup {Identity(walk.before[1])}]
  /\ UNCHANGED <<pathVars, sshUsed>>
(* The open file, and the one under its name in the held directory.        *)
UnchangedSince == Identity(walk.before[1]) = walk.before /\ Identity(entry[walk.dir]) = walk.before
Confirms ==
  /\ walk.pc = "confirm"
  /\ walk' = Leaves(IF ~Trusted(<<"file", walk.before[1]>>) THEN "unsafe"
                    ELSE IF UnchangedSince THEN "ok" ELSE "changed")
  /\ UNCHANGED <<pathVars, sshUsed>>
WalkFails ==
  /\ Walking /\ \E o \in {"failed", "interrupted"} : walk' = Leaves(o)
  /\ UNCHANGED <<pathVars, sshUsed>>

(* _ssh_config_cleanup and its scope: a failure to close is reported only  *)
(* when nothing else went wrong, an interrupt always, and the second       *)
(* descriptor is closed whatever the first did.                            *)
Closed(o) == {o, IF o = "ok" THEN "cleanup" ELSE o, "interrupted"}
AfterFileMutant(o) == IF o = walk.outcome THEN "close dir" ELSE "return"
AfterFile(o) == "close dir"
ClosesFile ==
  /\ walk.pc = "close file"
  /\ \E o \in IF "file" \in walk.fds THEN Closed(walk.outcome) ELSE {walk.outcome} :
       walk' = [walk EXCEPT !.pc = AfterFile(o), !.outcome = o, !.fds = @ \ {"file"}]
  /\ UNCHANGED <<pathVars, sshUsed>>
ClosesDirectory ==
  /\ walk.pc = "close dir"
  /\ \E o \in IF "dir" \in walk.fds THEN Closed(walk.outcome) ELSE {walk.outcome} :
       walk' = [walk EXCEPT !.pc = "return", !.outcome = o, !.fds = @ \ {"dir"}]
  /\ UNCHANGED <<pathVars, sshUsed>>

-----------------------------------------------------------------------------
(* select_trusted_ssh_config and trusted_ssh_command.                      *)

(* The destination and every ssh option are looked at before the selection,*)
(* for it is the selected configuration that is to decide the rest.        *)
Selects ==
  /\ walk.pc = "idle"
  /\ \/ \E m \in Modes : walk' = [Again EXCEPT !.mode = m]
     \/ walk' = [walk EXCEPT !.pc = "refused", !.outcome = "not allowed"]
  /\ UNCHANGED <<pathVars, sshUsed>>
SeenNow == [dir |-> walk.dir, safe |-> walk.safe, file |-> walk.before]
SameSelection == SeenNow = walk.selected
Returns ==
  /\ walk.pc = "return"
  /\ walk' = IF walk.outcome # "ok" THEN [walk EXCEPT !.pc = "refused"]
             ELSE IF ~walk.checking THEN [walk EXCEPT !.pc = "next", !.selected = SeenNow]
             ELSE IF SameSelection THEN [walk EXCEPT !.pc = "run"] ELSE [walk EXCEPT !.pc = "refused", !.outcome = "changed"]
  /\ UNCHANGED <<pathVars, sshUsed>>

(* The login user is asked of ssh unless the destination names it, and     *)
(* with a proof of identity the address and the port before that.  The     *)
(* user may stay unknown, but not to a handoff, whose query keeps its      *)
(* budget; the address may not.                                            *)
Queries == CASE walk.mode = "explicit" -> 0 [] walk.mode = "identity" -> 2 [] OTHER -> 1
MustAnswer == walk.mode = "bounded" \/ (walk.mode = "identity" /\ walk.ssh = 0)
Runs == sshUsed' = sshUsed \cup {[found |-> AtPath, late |-> walk.late]}
AsksSsh ==
  /\ walk.pc = "run" /\ walk.ssh < Queries
  /\ \/ Runs /\ walk' = [walk EXCEPT !.pc = "next", !.ssh = @ + 1]
     \/ /\ Runs \/ UNCHANGED sshUsed
        /\ walk' = IF MustAnswer THEN [walk EXCEPT !.pc = "refused", !.outcome = "no answer"]
                   ELSE [walk EXCEPT !.pc = "next", !.ssh = @ + 1]
  /\ UNCHANGED pathVars
Connects ==
  /\ walk.pc = "run" /\ walk.ssh = Queries
  /\ Runs \/ UNCHANGED sshUsed
  /\ walk' = [walk EXCEPT !.pc = "ended", !.ssh = @ + 1]
  /\ UNCHANGED pathVars

-----------------------------------------------------------------------------
(* What others do to the path.                                             *)

Changes ==
  /\ walk.pc \notin {"idle", "refused", "ended"} /\ changes < MaxChanges /\ changes' = changes + 1
  /\ \/ \E d \in 1 .. made : d # there /\ there' = d /\ UNCHANGED <<entry, changed, unsafe, made>>
     \/ /\ made < MaxNode /\ made' = made + 1                      \* another directory, with the same file
        /\ there' = made' /\ entry' = [entry EXCEPT ![made'] = entry[there]] /\ UNCHANGED <<changed, unsafe>>
     \/ /\ made < MaxNode /\ made' = made + 1                      \* another file
        /\ entry' = [entry EXCEPT ![there] = made'] /\ UNCHANGED <<there, changed, unsafe>>
     \/ \E f \in 1 .. made :
          /\ changed' = [changed EXCEPT ![f] = @ + 1] /\ UNCHANGED <<there, entry, made>>
          /\ unsafe' \in {unsafe, unsafe \cup {<<"file", f>>}}
     \/ \E d \in 1 .. made : unsafe' = unsafe \cup {<<"dir", d>>} /\ UNCHANGED <<there, entry, changed, made>>
  /\ walk' = [walk EXCEPT !.late = TRUE]
  /\ UNCHANGED sshUsed

TrustNext ==
  \/ Selects \/ StartsWalk \/ OpensDirectory \/ OpensFile \/ ReadsChunk \/ Confirms \/ WalkFails
  \/ ClosesFile \/ ClosesDirectory \/ Returns \/ AsksSsh \/ Connects \/ Changes

TrustSpec == TrustInit /\ [][TrustNext]_sshTrustVars

-----------------------------------------------------------------------------
(* What a selection guarantees.                                            *)

(* Every ssh of a command finds at the path what was selected, safe and    *)
(* read as one whole, unless it was changed after the last walk before     *)
(* that ssh began: all of them use one configuration.                      *)
OneConfiguration ==
  /\ \A u \in sshUsed : u.late \/ (u.found = walk.selected /\ u.found.safe)
  /\ walk.pc = "run" => walk.data = {walk.selected.file}

(* A walk leaves no descriptor behind, whatever fails on its way or in its *)
(* cleanup, and a failure is never turned into a selection.                *)
DescriptorsClosed == walk.pc \in {"idle", "next", "run", "refused", "ended"} => walk.fds = {}

(* One configuration for all of a command, and nothing left open.          *)
SshTrustSafe == OneConfiguration /\ DescriptorsClosed
=============================================================================
