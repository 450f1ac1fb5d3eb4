------------------------------ MODULE HostProofs ------------------------------
(***************************************************************************)
(* Proofs about the programs that reach or describe other hosts: the SSH   *)
(* configuration selected for a command (SshTrust), the correlated handoff *)
(* over SSH (RemoteHandoff), the private book of routes and recipients     *)
(* (AddressBook), the installation of a release on a host (Updates) and    *)
(* sends to Codex threads with the wakes they lead to (CodexWake).         *)
(***************************************************************************)
EXTENDS SshTrust, RemoteHandoff, AddressBook, Updates, CodexWake, FiniteSetTheorems, SequenceTheorems, NaturalsInduction, TLAPS

-----------------------------------------------------------------------------
(* The SSH configuration of one command.                                   *)

Pcs == {"idle", "next", "dir", "file", "read", "confirm", "close file", "close dir", "return", "run", "refused", "ended"}
Outcomes == {"", "ok", "unsafe", "changed", "failed", "interrupted", "cleanup", "not allowed", "no answer"}
Identities == (Nodes \cup {0}) \X Nat
Seen == [dir : Nodes \cup {0}, safe : BOOLEAN, file : Identities]
Walks == [pc : Pcs, mode : Modes \cup {""}, selected : Seen, fds : SUBSET {"dir", "file"}, dir : Nodes \cup {0}, safe : BOOLEAN,
          before : Identities, data : SUBSET Identities, outcome : Outcomes, checking : BOOLEAN, late : BOOLEAN, ssh : Nat]

TrustTypeOK ==
  /\ there \in Nodes /\ made \in Nodes /\ entry \in [Nodes -> Nodes] /\ changed \in [Nodes -> Nat]
  /\ walk \in Walks

(* A walk that reads a directory, or a file, has one.                      *)
ReadTyped ==
  /\ walk.pc = "file" => walk.dir \in Nodes
  /\ walk.pc = "read" => walk.before[1] \in Nodes

(* What is open follows from the place the walk has reached.               *)
FdsFollow ==
  /\ walk.pc \in {"idle", "next", "dir", "return", "run", "refused", "ended"} => walk.fds = {}
  /\ walk.pc = "file" => walk.fds \subseteq {"dir"}
  /\ walk.pc = "close dir" => walk.fds \subseteq {"dir"}

(* A walk that nothing disturbed holds what is at the path.                *)
Undisturbed == walk.late \/ (walk.dir = there /\ walk.safe = Trusted(<<"dir", there>>))
FileUndisturbed == walk.late \/ walk.before = Identity(entry[there])
(* What was read of the file is as old as the identity taken of it, and no *)
(* newer than the file is.                                                 *)
ReadSince ==
  /\ walk.before[1] \in Nodes /\ walk.before[2] <= changed[walk.before[1]]
  /\ \A x \in walk.data : x[1] = walk.before[1] /\ walk.before[2] <= x[2] /\ x[2] <= changed[x[1]]

WalkOver == walk.pc \in {"close file", "close dir", "return"} /\ walk.outcome = "ok"
WalkHolds ==
  /\ walk.pc \in {"dir", "file"} => walk.data = {}
  /\ walk.pc \in {"file", "read", "confirm"} => walk.dir \in Nodes /\ walk.safe /\ Undisturbed
  /\ walk.pc \in {"read", "confirm"} => FileUndisturbed /\ ReadSince
  /\ walk.pc = "confirm" => walk.data # {}
  /\ WalkOver => walk.safe /\ Undisturbed /\ FileUndisturbed /\ walk.data = {walk.before}
  /\ walk.pc = "run" =>
       /\ walk.checking /\ walk.selected.safe /\ walk.data = {walk.selected.file}
       /\ walk.late \/ AtPath = walk.selected

UsesHold ==
  /\ ~walk.checking => sshUsed = {}
  /\ walk.pc = "idle" => ~walk.checking
  /\ \A u \in sshUsed : u.late \/ (u.found = walk.selected /\ u.found.safe)

TrustInv == TrustTypeOK /\ FdsFollow /\ WalkHolds /\ UsesHold

LEMMA TrustInitially == TrustInit => TrustInv
<1> SUFFICES ASSUME TrustInit PROVE TrustInv
  OBVIOUS
<1>1. 1 \in Nodes /\ Nodes \subseteq Nat BY TrustAssumption DEF Nodes
<1>2. TrustTypeOK
  <2>1. <<0, 0>> \in Identities BY DEF Identities
  <2>2. Nothing \in Seen BY <2>1 DEF Nothing, Seen
  <2>3. NoWalk \in Walks BY <2>1, <2>2 DEF NoWalk, Walks, Pcs, Outcomes
  <2> QED BY <1>1, <2>3 DEF TrustInit, TrustTypeOK
<1>3. FdsFollow /\ WalkHolds /\ UsesHold
  BY DEF TrustInit, NoWalk, FdsFollow, WalkHolds, WalkOver, UsesHold
<1> QED BY <1>2, <1>3 DEF TrustInv

-----------------------------------------------------------------------------

(* The steps of a walk change nothing at the path.                         *)
WalkStep ==
  \/ Selects \/ StartsWalk \/ OpensDirectory \/ OpensFile \/ ReadsChunk \/ Confirms \/ WalkFails
  \/ ClosesFile \/ ClosesDirectory \/ Returns

LEMMA PlacesOutcomes ==
  /\ \A p \in {"idle", "next", "dir", "file", "read", "confirm", "close file", "close dir", "return", "run", "refused", "ended"} :
       p \in Pcs
  /\ \A o \in {"", "ok", "unsafe", "changed", "failed", "interrupted", "cleanup", "not allowed", "no answer"} : o \in Outcomes
  BY DEF Pcs, Outcomes

(* A walk that begins again, and one that leaves.                          *)
LEMMA RewrittenWalks ==
  ASSUME walk \in Walks
  PROVE  /\ Again \in Walks
         /\ \A o \in Outcomes : Leaves(o) \in Walks
<1>1. "dir" \in Pcs /\ "close file" \in Pcs /\ "" \in Outcomes BY PlacesOutcomes
<1>2. Again \in Walks BY <1>1 DEF Again, Walks
<1>3. \A o \in Outcomes : Leaves(o) \in Walks BY <1>1 DEF Leaves, Walks
<1> QED BY <1>2, <1>3

LEMMA WalkTypes == ASSUME TrustTypeOK, ReadTyped, WalkStep PROVE TrustTypeOK' /\ UNCHANGED <<pathVars, sshUsed>>
<1>1. UNCHANGED <<pathVars, sshUsed>>
  BY DEF WalkStep, Selects, StartsWalk, OpensDirectory, OpensFile, ReadsChunk, Confirms, WalkFails, ClosesFile, ClosesDirectory, Returns
<1>2. there \in Nodes /\ entry \in [Nodes -> Nodes] /\ changed \in [Nodes -> Nat] /\ walk \in Walks
  BY DEF TrustTypeOK
<1>3. \A f \in Nodes : Identity(f) \in Identities BY <1>2 DEF Identity, Identities
<1>4. Again \in Walks /\ \A o \in Outcomes : Leaves(o) \in Walks BY <1>2, RewrittenWalks
<1>5. walk' \in Walks
  <2>1. CASE Selects
    <3>1. CASE \E m \in Modes : walk' = [Again EXCEPT !.mode = m]
      BY <1>4, <3>1 DEF Walks
    <3>2. CASE walk' = [walk EXCEPT !.pc = "refused", !.outcome = "not allowed"]
      BY <1>2, <3>2, PlacesOutcomes DEF Walks
    <3> QED BY <2>1, <3>1, <3>2 DEF Selects
  <2>2. CASE StartsWalk BY <1>4, <2>2 DEF StartsWalk, Walks
  <2>3. CASE OpensDirectory
    <3> DEFINE opened == [walk EXCEPT !.fds = {"dir"}, !.dir = there, !.safe = Trusted(<<"dir", there>>)]
    <3>1. Trusted(<<"dir", there>>) \in BOOLEAN BY DEF Trusted
    <3>2. opened \in Walks BY <1>2, <3>1 DEF Walks
    <3>3. walk' = [opened EXCEPT !.pc = "file"] \/ walk' = [opened EXCEPT !.pc = "close file", !.outcome = "unsafe"]
      BY <2>3 DEF OpensDirectory
    <3> HIDE DEF opened
    <3> QED BY <3>2, <3>3, PlacesOutcomes DEF Walks
  <2>4. CASE OpensFile
    <3> DEFINE f == entry[walk.dir]
    <3>1. PICK w \in Walks : walk' = [w EXCEPT !.fds = {"dir", "file"}, !.before = Identity(f)]
      <4>1. [walk EXCEPT !.pc = "read"] \in Walks BY <1>2, PlacesOutcomes DEF Walks
      <4> QED BY <1>4, <2>4, <4>1, PlacesOutcomes DEF OpensFile
    <3>2. Identity(f) \in Identities BY <1>2, <1>3, <2>4 DEF OpensFile, ReadTyped
    <3> HIDE DEF f
    <3> QED BY <3>1, <3>2 DEF Walks
  <2>5. CASE ReadsChunk
    <3>1. Identity(walk.before[1]) \in Identities
      BY <1>3, <2>5 DEF ReadsChunk, ReadTyped
    <3>2. walk.data \cup {Identity(walk.before[1])} \in SUBSET Identities
      BY <1>2, <3>1 DEF Walks
    <3>3. PICK p \in Pcs : walk' = [walk EXCEPT !.pc = p, !.data = @ \cup {Identity(walk.before[1])}]
      BY <2>5, PlacesOutcomes DEF ReadsChunk
    <3> QED BY <1>2, <3>2, <3>3 DEF Walks
  <2>6. CASE Confirms BY <1>4, <2>6, PlacesOutcomes DEF Confirms
  <2>7. CASE WalkFails BY <1>4, <2>7, PlacesOutcomes DEF WalkFails
  <2>8. CASE ClosesFile
    <3>1. PICK o \in Outcomes : walk' = [walk EXCEPT !.pc = "close dir", !.outcome = o, !.fds = @ \ {"file"}]
      <4>1. walk.outcome \in Outcomes /\ \A o \in Outcomes : Closed(o) \subseteq Outcomes
        BY <1>2, PlacesOutcomes DEF Walks, Closed
      <4> QED BY <2>8, <4>1 DEF ClosesFile, AfterFile
    <3> QED BY <1>2, <3>1, PlacesOutcomes DEF Walks
  <2>9. CASE ClosesDirectory
    <3>1. PICK o \in Outcomes : walk' = [walk EXCEPT !.pc = "return", !.outcome = o, !.fds = @ \ {"dir"}]
      <4>1. walk.outcome \in Outcomes /\ \A o \in Outcomes : Closed(o) \subseteq Outcomes
        BY <1>2, PlacesOutcomes DEF Walks, Closed
      <4> QED BY <2>9, <4>1 DEF ClosesDirectory
    <3> QED BY <1>2, <3>1, PlacesOutcomes DEF Walks
  <2>10. CASE Returns
    <3>1. SeenNow \in Seen BY <1>2 DEF SeenNow, Seen, Walks
    <3>2. \/ \E p \in Pcs : walk' = [walk EXCEPT !.pc = p]
          \/ walk' = [walk EXCEPT !.pc = "next", !.selected = SeenNow]
          \/ walk' = [walk EXCEPT !.pc = "refused", !.outcome = "changed"]
      BY <2>10, PlacesOutcomes DEF Returns
    <3> QED BY <1>2, <3>1, <3>2, PlacesOutcomes DEF Walks
  <2> QED BY <2>1, <2>2, <2>3, <2>4, <2>5, <2>6, <2>7, <2>8, <2>9, <2>10 DEF WalkStep
<1> QED BY <1>1, <1>2, <1>5 DEF TrustTypeOK, pathVars

(* A walk is a record of these fields.                                     *)
Fields == {"pc", "mode", "selected", "fds", "dir", "safe", "before", "data", "outcome", "checking", "late", "ssh"}

LEMMA WalkRecord == ASSUME TrustTypeOK PROVE DOMAIN walk = Fields
  BY DEF TrustTypeOK, Walks, Fields

LEMMA WalkFds == ASSUME TrustTypeOK, FdsFollow, WalkStep PROVE FdsFollow'
<1>1. DOMAIN walk = Fields BY WalkRecord
<1>2. CASE Selects \/ StartsWalk
  BY <1>1, <1>2 DEF FdsFollow, Fields, Selects, StartsWalk, Again
<1>3. CASE OpensDirectory BY <1>1, <1>3 DEF FdsFollow, Fields, OpensDirectory
<1>4. CASE OpensFile BY <1>1, <1>4 DEF FdsFollow, Fields, OpensFile, Leaves
<1>5. CASE ReadsChunk
  <2>1. walk'.pc \in {"read", "confirm"} BY <1>1, <1>5 DEF Fields, ReadsChunk
  <2> QED BY <2>1 DEF FdsFollow
<1>6. CASE Confirms
  <2>1. \E o : walk' = Leaves(o) BY <1>6 DEF Confirms
  <2> QED BY <1>1, <2>1 DEF FdsFollow, Fields, Leaves
<1>7. CASE WalkFails \/ Returns
  BY <1>1, <1>7 DEF FdsFollow, Fields, Walking, WalkFails, Returns, Leaves
<1>8. CASE ClosesFile
  <2>1. walk.fds \subseteq {"dir", "file"} BY DEF TrustTypeOK, Walks
  <2>2. walk'.pc = "close dir" /\ walk'.fds = walk.fds \ {"file"}
    BY <1>1, <1>8 DEF Fields, ClosesFile, AfterFile
  <2> QED BY <2>1, <2>2 DEF FdsFollow
<1>9. CASE ClosesDirectory
  <2>1. walk.fds \subseteq {"dir"} BY <1>9 DEF ClosesDirectory, FdsFollow
  <2>2. walk'.pc = "return" /\ walk'.fds = walk.fds \ {"dir"}
    BY <1>1, <1>9 DEF Fields, ClosesDirectory
  <2> QED BY <2>1, <2>2 DEF FdsFollow
<1> QED BY <1>2, <1>3, <1>4, <1>5, <1>6, <1>7, <1>8, <1>9 DEF WalkStep

-----------------------------------------------------------------------------
(* What a walk holds.                                                      *)

LEMMA OpeningHolds ==
  ASSUME TrustInv, Selects \/ StartsWalk \/ OpensDirectory \/ OpensFile
  PROVE  WalkHolds' /\ UsesHold'
<1> USE DEF Fields, WalkHolds, UsesHold, WalkOver, Undisturbed, FileUndisturbed, Trusted
<1>1. DOMAIN walk = Fields /\ TrustTypeOK /\ WalkHolds /\ UsesHold
  BY WalkRecord DEF TrustInv
<1>2. UNCHANGED <<there, entry, changed, unsafe, made, changes, sshUsed>>
  BY DEF Selects, StartsWalk, OpensDirectory, OpensFile, pathVars
<1>3. CASE Selects
  <2>1. /\ walk'.pc \in {"dir", "refused"} /\ (walk'.pc = "dir" => walk'.data = {}) /\ walk.pc = "idle"
        /\ walk'.checking = walk.checking /\ walk'.selected = walk.selected
    BY <1>1, <1>3 DEF Selects, Again
  <2> QED BY <1>1, <1>2, <2>1
<1>4. CASE StartsWalk
  <2>1. /\ walk'.pc = "dir" /\ walk'.data = {} /\ walk'.checking /\ walk'.selected = walk.selected
    BY <1>1, <1>4 DEF StartsWalk, Again
  <2> QED BY <1>1, <1>2, <2>1
<1>5. CASE OpensDirectory
  <2>1. /\ walk'.pc \in {"file", "close file"} /\ walk'.dir = there /\ walk'.safe = Trusted(<<"dir", there>>)
        /\ walk'.pc = "file" => walk'.safe
        /\ walk'.pc = "close file" => walk'.outcome = "unsafe"
        /\ walk'.data = walk.data /\ walk.pc = "dir"
        /\ walk'.checking = walk.checking /\ walk'.selected = walk.selected
    BY <1>1, <1>5 DEF OpensDirectory
  <2> QED BY <1>1, <1>2, <2>1 DEF TrustTypeOK
<1>6. CASE OpensFile
  <2> DEFINE f == entry[walk.dir]
  <2>1. /\ walk'.pc \in {"read", "close file"}
        /\ walk'.pc = "close file" => walk'.outcome = "unsafe"
        /\ walk'.data = walk.data /\ walk'.dir = walk.dir /\ walk'.safe = walk.safe /\ walk'.late = walk.late
        /\ walk'.before = Identity(f) /\ walk.pc = "file"
        /\ walk'.checking = walk.checking /\ walk'.selected = walk.selected
    BY <1>1, <1>6 DEF OpensFile, Leaves
  <2>2. walk.dir \in Nodes /\ f \in Nodes /\ changed[f] \in Nat
    BY <1>1, <2>1 DEF TrustTypeOK
  <2>3. walk'.before[1] = f /\ walk'.before[2] = changed[f]
    <3>1. walk'.before = <<f, changed[f]>> BY <2>1 DEF Identity
    <3> HIDE DEF f
    <3> QED BY ONLY <3>1
  <2>4. ReadSince'
    <3>1. walk'.data = {} BY <1>1, <2>1
    <3> QED BY ONLY <1>2, <2>2, <2>3, <3>1 DEF ReadSince, Nodes
  <2>5. FileUndisturbed'
    <3>1. walk'.late \/ f = entry'[there'] BY <1>1, <1>2, <2>1
    <3>2. walk'.late \/ walk'.before = <<entry'[there'], changed'[entry'[there']]>>
      BY <1>2, <2>1, <3>1 DEF Identity
    <3> QED BY <3>2 DEF Identity
  <2> HIDE DEF f
  <2> QED BY <1>1, <1>2, <2>1, <2>4, <2>5
<1> QED BY <1>3, <1>4, <1>5, <1>6

LEMMA ReadingHolds == ASSUME TrustInv, ReadsChunk PROVE WalkHolds' /\ UsesHold'
<1> DEFINE f == walk.before[1]
<1>1. DOMAIN walk = Fields /\ TrustTypeOK /\ WalkHolds /\ UsesHold
  BY WalkRecord DEF TrustInv
<1>2. UNCHANGED <<there, entry, changed, unsafe, made, changes, sshUsed>>
  BY DEF ReadsChunk, pathVars
<1>3. /\ walk'.pc \in {"read", "confirm"} /\ walk'.data = walk.data \cup {Identity(f)}
      /\ walk'.dir = walk.dir /\ walk'.safe = walk.safe /\ walk'.late = walk.late /\ walk'.before = walk.before
      /\ walk'.checking = walk.checking /\ walk'.selected = walk.selected /\ walk.pc = "read"
  BY <1>1 DEF ReadsChunk, Fields
<1>4. walk.dir \in Nodes /\ walk.safe /\ Undisturbed /\ FileUndisturbed /\ ReadSince
  BY <1>1, <1>3 DEF WalkHolds
<1>5. Undisturbed' /\ FileUndisturbed'
  BY <1>2, <1>3, <1>4 DEF Undisturbed, FileUndisturbed, Trusted, Identity
<1>6. f \in Nodes /\ walk.before[2] <= changed[f] /\ changed[f] \in Nat
  BY <1>1, <1>4 DEF ReadSince, TrustTypeOK
<1>7. ReadSince'
  <2>1. ASSUME NEW x \in walk'.data
        PROVE  x[1] = f /\ walk.before[2] <= x[2] /\ x[2] <= changed[x[1]]
    <3>1. CASE x \in walk.data BY <1>4, <3>1 DEF ReadSince
    <3>2. CASE x = <<f, changed[f]>> BY <1>6, <3>2
    <3> QED BY <1>3, <2>1, <3>1, <3>2 DEF Identity
  <2> QED BY <1>2, <1>3, <1>6, <2>1 DEF ReadSince, Nodes
<1> HIDE DEF f
<1> QED BY <1>1, <1>2, <1>3, <1>4, <1>5, <1>7 DEF WalkHolds, UsesHold, WalkOver

LEMMA ConfirmingHolds == ASSUME TrustInv, Confirms PROVE WalkHolds' /\ UsesHold'
<1> DEFINE f == walk.before[1]
<1>1. DOMAIN walk = Fields /\ TrustTypeOK /\ WalkHolds /\ UsesHold
  BY WalkRecord DEF TrustInv
<1>2. UNCHANGED <<there, entry, changed, unsafe, made, changes, sshUsed>>
  BY DEF Confirms, pathVars
<1>3. PICK o : walk' = Leaves(o) /\ (o = "ok" => UnchangedSince) BY DEF Confirms
<1>4. /\ walk'.pc = "close file" /\ walk'.outcome = o /\ walk'.data = walk.data
      /\ walk'.dir = walk.dir /\ walk'.safe = walk.safe /\ walk'.late = walk.late /\ walk'.before = walk.before
      /\ walk'.checking = walk.checking /\ walk'.selected = walk.selected /\ walk.pc = "confirm"
  BY <1>1, <1>3 DEF Confirms, Leaves, Fields
<1>5. walk.safe /\ Undisturbed /\ FileUndisturbed /\ ReadSince /\ walk.data # {}
  BY <1>1, <1>4 DEF WalkHolds
<1>6. Undisturbed' /\ FileUndisturbed'
  BY <1>2, <1>4, <1>5 DEF Undisturbed, FileUndisturbed, Trusted, Identity
<1>7. ASSUME o = "ok" PROVE walk.data = {walk.before}
  <2>1. walk.before = <<f, changed[f]>> BY <1>3, <1>7 DEF UnchangedSince, Identity
  <2>2. f \in Nodes /\ changed[f] \in Nat /\ walk.before[2] = changed[f]
    BY <1>1, <1>5, <2>1 DEF ReadSince, TrustTypeOK
  <2>3. ASSUME NEW x \in walk.data PROVE x = walk.before
    <3>1. x \in Identities BY <1>1 DEF TrustTypeOK, Walks
    <3>2. x[1] = f /\ walk.before[2] <= x[2] /\ x[2] <= changed[f] BY <1>5 DEF ReadSince
    <3>3. x = <<x[1], x[2]>> /\ x[2] \in Nat BY <3>1 DEF Identities
    <3>4. x[2] = changed[f] BY <2>2, <3>2, <3>3
    <3> HIDE DEF f
    <3> QED BY <2>1, <3>2, <3>3, <3>4
  <2> QED BY <1>5, <2>3
<1> HIDE DEF f
<1> QED BY <1>1, <1>2, <1>4, <1>5, <1>6, <1>7 DEF WalkHolds, UsesHold, WalkOver

LEMMA LeavingHolds ==
  ASSUME TrustInv, WalkFails \/ ClosesFile \/ ClosesDirectory
  PROVE  WalkHolds' /\ UsesHold'
<1>1. DOMAIN walk = Fields /\ TrustTypeOK /\ WalkHolds /\ UsesHold
  BY WalkRecord DEF TrustInv
<1>2. UNCHANGED <<there, entry, changed, unsafe, made, changes, sshUsed>>
  BY DEF WalkFails, ClosesFile, ClosesDirectory, pathVars
<1>3. /\ walk'.pc \in {"close file", "close dir", "return"} /\ walk'.data = walk.data /\ walk'.dir = walk.dir
      /\ walk'.safe = walk.safe /\ walk'.late = walk.late /\ walk'.before = walk.before
      /\ walk'.checking = walk.checking /\ walk'.selected = walk.selected
      /\ walk.pc # "idle" /\ (walk'.outcome = "ok" => WalkOver)
  <2>1. CASE WalkFails BY <1>1, <2>1 DEF WalkFails, Walking, Leaves, Fields
  <2>2. CASE ClosesFile
    BY <1>1, <2>2 DEF ClosesFile, AfterFile, Closed, WalkOver, Fields
  <2>3. CASE ClosesDirectory BY <1>1, <2>3 DEF ClosesDirectory, Closed, WalkOver, Fields
  <2> QED BY <2>1, <2>2, <2>3
<1>4. WalkOver => Undisturbed' /\ FileUndisturbed' /\ walk.safe /\ walk.data = {walk.before}
  BY <1>1, <1>2, <1>3 DEF WalkHolds, Undisturbed, FileUndisturbed, Trusted, Identity
<1> QED BY <1>1, <1>2, <1>3, <1>4 DEF WalkHolds, UsesHold, WalkOver

LEMMA ReturningHolds == ASSUME TrustInv, Returns PROVE WalkHolds' /\ UsesHold'
<1>1. DOMAIN walk = Fields /\ TrustTypeOK /\ WalkHolds /\ UsesHold
  BY WalkRecord DEF TrustInv
<1>2. UNCHANGED <<there, entry, changed, unsafe, made, changes, sshUsed>>
  BY DEF Returns, pathVars
<1>3. walk.pc = "return" BY DEF Returns
<1>4. CASE walk.outcome = "ok" /\ walk.checking /\ SameSelection
  <2>1. walk' = [walk EXCEPT !.pc = "run"] BY <1>4 DEF Returns
  <2>2. /\ walk'.pc = "run" /\ walk'.checking = walk.checking /\ walk'.selected = walk.selected
        /\ walk'.data = walk.data /\ walk'.late = walk.late
    BY <1>1, <2>1 DEF Fields
  <2>3. walk.safe /\ Undisturbed /\ FileUndisturbed /\ walk.data = {walk.before}
    BY <1>1, <1>3, <1>4 DEF WalkHolds, WalkOver
  <2>4. walk.selected.dir = walk.dir /\ walk.selected.safe = walk.safe /\ walk.selected.file = walk.before
    BY <1>4 DEF SameSelection, SeenNow
  <2>5. walk.late \/ AtPath = SeenNow
    BY <2>3 DEF Undisturbed, FileUndisturbed, AtPath, SeenNow
  <2>6. walk'.late \/ AtPath' = walk'.selected
    BY <1>2, <1>4, <2>2, <2>5 DEF SameSelection, AtPath, Trusted, Identity
  <2> QED BY <1>1, <1>2, <1>4, <2>2, <2>3, <2>4, <2>6 DEF WalkHolds, UsesHold, WalkOver
<1>5. CASE walk.outcome = "ok" /\ ~walk.checking
  <2>1. walk' = [walk EXCEPT !.pc = "next", !.selected = SeenNow] BY <1>5 DEF Returns
  <2>2. walk'.pc = "next" /\ walk'.checking = walk.checking BY <1>1, <2>1 DEF Fields
  <2> QED BY <1>1, <1>2, <1>5, <2>2 DEF WalkHolds, UsesHold, WalkOver
<1>6. CASE walk.outcome # "ok" \/ (walk.checking /\ ~SameSelection)
  <2>1. walk'.pc = "refused" /\ walk'.checking = walk.checking /\ walk'.selected = walk.selected
    BY <1>1, <1>6 DEF Returns, Fields
  <2> QED BY <1>1, <1>2, <2>1 DEF WalkHolds, UsesHold, WalkOver
<1> QED BY <1>4, <1>5, <1>6

-----------------------------------------------------------------------------
(* A step of ssh: it finds what was selected, or something changed since.  *)
LEMMA RunsAsSelected ==
  ASSUME TrustInv, walk.pc = "run", Runs \/ UNCHANGED sshUsed, walk'.selected = walk.selected
  PROVE  \A u \in sshUsed' : u.late \/ (u.found = walk'.selected /\ u.found.safe)
<1>1. WalkHolds /\ UsesHold BY DEF TrustInv
<1>2. walk.selected.safe /\ (walk.late \/ AtPath = walk.selected) BY <1>1 DEF WalkHolds
<1>3. CASE UNCHANGED sshUsed BY <1>1, <1>3 DEF UsesHold
<1>4. CASE Runs
  <2> DEFINE use == [found |-> AtPath, late |-> walk.late]
  <2>1. use.found = AtPath /\ use.late = walk.late
    OBVIOUS
  <2>2. sshUsed' = sshUsed \cup {use} BY <1>4 DEF Runs
  <2> HIDE DEF use
  <2> QED BY <1>1, <1>2, <2>1, <2>2 DEF UsesHold
<1> QED BY <1>3, <1>4

LEMMA SshHolds == ASSUME TrustInv, AsksSsh \/ Connects PROVE TrustInv'
<1>1. DOMAIN walk = Fields /\ TrustTypeOK /\ FdsFollow /\ WalkHolds /\ UsesHold /\ walk \in Walks
  BY WalkRecord DEF TrustInv, TrustTypeOK
<1>2. UNCHANGED pathVars /\ walk.pc = "run" /\ (Runs \/ UNCHANGED sshUsed)
  BY DEF AsksSsh, Connects
<1>3. \/ walk' = [walk EXCEPT !.pc = "next", !.ssh = @ + 1]
      \/ walk' = [walk EXCEPT !.pc = "refused", !.outcome = "no answer"]
      \/ walk' = [walk EXCEPT !.pc = "ended", !.ssh = @ + 1]
  BY DEF AsksSsh, Connects
<1>4. walk.ssh + 1 \in Nat
  <2>1. walk.ssh \in Nat BY <1>1 DEF Walks
  <2> QED BY <2>1
<1>5. walk' \in Walks
  <2>1. CASE walk' = [walk EXCEPT !.pc = "next", !.ssh = @ + 1]
    BY <1>1, <1>4, <2>1, PlacesOutcomes DEF Walks
  <2>2. CASE walk' = [walk EXCEPT !.pc = "refused", !.outcome = "no answer"]
    BY <1>1, <2>2, PlacesOutcomes DEF Walks
  <2>3. CASE walk' = [walk EXCEPT !.pc = "ended", !.ssh = @ + 1]
    BY <1>1, <1>4, <2>3, PlacesOutcomes DEF Walks
  <2> QED BY <1>3, <2>1, <2>2, <2>3
<1>6. /\ walk'.pc \in {"next", "refused", "ended"} /\ walk'.fds = walk.fds
      /\ walk'.checking = walk.checking /\ walk'.selected = walk.selected
  BY <1>1, <1>3 DEF Fields
<1>7. walk.fds = {} /\ walk.checking BY <1>1, <1>2 DEF FdsFollow, WalkHolds
<1>8. TrustTypeOK' /\ FdsFollow' /\ WalkHolds'
  BY <1>1, <1>2, <1>5, <1>6, <1>7 DEF TrustTypeOK, pathVars, FdsFollow, WalkHolds, WalkOver
<1>9. UsesHold' BY <1>2, <1>6, <1>7, RunsAsSelected DEF UsesHold
<1> QED BY <1>8, <1>9 DEF TrustInv

(* What others do disturbs the walk, and only adds to what they did.       *)
LEMMA ChangesHold == ASSUME TrustInv, Changes PROVE TrustInv'
<1>1. DOMAIN walk = Fields /\ TrustTypeOK /\ FdsFollow /\ WalkHolds /\ UsesHold /\ walk \in Walks
  BY WalkRecord DEF TrustInv, TrustTypeOK
<1>2. walk' = [walk EXCEPT !.late = TRUE] /\ sshUsed' = sshUsed BY DEF Changes
<1>3. walk' \in Walks BY <1>1, <1>2 DEF Walks
<1>4. /\ walk'.pc = walk.pc /\ walk'.fds = walk.fds /\ walk'.dir = walk.dir /\ walk'.safe = walk.safe
      /\ walk'.before = walk.before /\ walk'.data = walk.data /\ walk'.outcome = walk.outcome
      /\ walk'.checking = walk.checking /\ walk'.selected = walk.selected /\ walk'.late
  BY <1>1, <1>2 DEF Fields
<1>5. /\ there' \in Nodes /\ made' \in Nodes /\ entry' \in [Nodes -> Nodes] /\ changed' \in [Nodes -> Nat]
      /\ \A f \in Nodes : changed[f] <= changed'[f]
  <2>1. there \in Nodes /\ made \in Nodes /\ entry \in [Nodes -> Nodes] /\ changed \in [Nodes -> Nat]
    BY <1>1 DEF TrustTypeOK
  <2>2. Nodes \subseteq Nat /\ (\A d \in 1 .. made : d \in Nodes) /\ (made < MaxNode => made + 1 \in Nodes)
    BY <2>1, TrustAssumption DEF Nodes
  <2>3. CASE \E d \in 1 .. made : d # there /\ there' = d /\ UNCHANGED <<entry, changed, unsafe, made>>
    BY <2>1, <2>2, <2>3
  <2>4. CASE /\ made < MaxNode /\ made' = made + 1
             /\ there' = made' /\ entry' = [entry EXCEPT ![made'] = entry[there]] /\ UNCHANGED <<changed, unsafe>>
    BY <2>1, <2>2, <2>4
  <2>5. CASE /\ made < MaxNode /\ made' = made + 1
             /\ entry' = [entry EXCEPT ![there] = made'] /\ UNCHANGED <<there, changed, unsafe>>
    BY <2>1, <2>2, <2>5
  <2>6. CASE \E f \in 1 .. made : changed' = [changed EXCEPT ![f] = @ + 1] /\ UNCHANGED <<there, entry, made>>
    BY <2>1, <2>2, <2>6
  <2>7. CASE UNCHANGED <<there, entry, changed, made>> BY <2>1, <2>2, <2>7
  <2> QED BY <2>3, <2>4, <2>5, <2>6, <2>7 DEF Changes
<1>6. ReadSince => ReadSince'
  <2> SUFFICES ASSUME ReadSince PROVE ReadSince'
    OBVIOUS
  <2> DEFINE f == walk.before[1]
  <2>1. f \in Nodes /\ walk.before[2] <= changed[f] /\ walk.before[2] \in Nat /\ changed[f] \in Nat /\ changed'[f] \in Nat
    <3>1. walk.before \in Identities BY <1>1 DEF Walks
    <3> QED BY <1>1, <1>5, <3>1 DEF ReadSince, TrustTypeOK, Identities
  <2>2. ASSUME NEW x \in walk.data PROVE x[1] = f /\ walk.before[2] <= x[2] /\ x[2] <= changed'[x[1]]
    <3>1. x \in Identities BY <1>1 DEF Walks
    <3>2. x[1] = f /\ walk.before[2] <= x[2] /\ x[2] <= changed[f] /\ x[2] \in Nat
      BY <3>1 DEF ReadSince, Identities
    <3> QED BY <1>5, <2>1, <3>2
  <2>3. walk.before[2] <= changed'[f] BY <1>5, <2>1
  <2> QED BY <1>4, <2>1, <2>2, <2>3 DEF ReadSince
<1>7. TrustTypeOK' /\ FdsFollow' BY <1>1, <1>3, <1>4, <1>5 DEF TrustTypeOK, FdsFollow
<1>8. WalkHolds'
  BY <1>1, <1>4, <1>6 DEF WalkHolds, WalkOver, Undisturbed, FileUndisturbed
<1>9. UsesHold' BY <1>1, <1>2, <1>4 DEF UsesHold
<1> QED BY <1>7, <1>8, <1>9 DEF TrustInv

LEMMA TrustStep == TrustInv /\ [TrustNext]_sshTrustVars => TrustInv'
<1> SUFFICES ASSUME TrustInv, [TrustNext]_sshTrustVars PROVE TrustInv'
  OBVIOUS
<1>1. CASE WalkStep
  <2>1. ReadTyped BY DEF TrustInv, WalkHolds, ReadSince, ReadTyped
  <2>2. TrustTypeOK' /\ FdsFollow' BY <1>1, <2>1, WalkTypes, WalkFds DEF TrustInv
  <2>3. WalkHolds' /\ UsesHold'
    BY <1>1, OpeningHolds, ReadingHolds, ConfirmingHolds, LeavingHolds, ReturningHolds DEF WalkStep
  <2> QED BY <2>2, <2>3 DEF TrustInv
<1>2. CASE AsksSsh \/ Connects BY <1>2, SshHolds
<1>3. CASE Changes BY <1>3, ChangesHold
<1>4. CASE UNCHANGED sshTrustVars
  BY <1>4 DEF TrustInv, TrustTypeOK, FdsFollow, WalkHolds, UsesHold, WalkOver, Undisturbed, FileUndisturbed,
              ReadSince, Trusted, Identity, AtPath, sshTrustVars
<1> QED BY <1>1, <1>2, <1>3, <1>4 DEF TrustNext, WalkStep

(* Every ssh of a command, queries and connection, finds at the path what  *)
(* was selected, safe and read as one whole, unless somebody changed it    *)
(* after the last walk before it began; and no walk leaves a descriptor    *)
(* behind, whatever failed on its way or in its cleanup.                   *)
THEOREM ConfigurationTrusted == TrustSpec => []SshTrustSafe
<1>1. TrustInv => SshTrustSafe
  BY DEF TrustInv, FdsFollow, WalkHolds, UsesHold, SshTrustSafe, OneConfiguration, DescriptorsClosed
<1> QED BY <1>1, TrustInitially, TrustStep, PTL DEF TrustSpec

-----------------------------------------------------------------------------
(* A handoff over SSH.                                                     *)

InvocationFields == {"pc", "id", "cutoff", "anchor", "boot", "remaining", "gen", "dry", "outcome", "code"}
ChildFields == {"pc", "spawned", "response", "interrupted", "key"}

RemoteShapes == DOMAIN sender = Senders /\ DOMAIN child = Senders /\ DOMAIN job = Senders /\ DOMAIN delivered = Handoffs
Shaped(s) ==
  /\ DOMAIN sender[s] = InvocationFields /\ DOMAIN child[s] = ChildFields /\ DOMAIN job[s] = {"pc", "native"}
  /\ sender[s].pc \in {"idle", "probing", "refusing", "probed", "prepared", "effect", "bound", "outcome", "over"}
  /\ sender[s].outcome \in {"none"} \cup Natives /\ sender[s].code \in {0, 1, 130}
  /\ child[s].pc \in {"none", "running", "over"} /\ child[s].spawned \in {"no", "yes", "unknown"}
  /\ child[s].response \in {"none"} \cup Natives /\ child[s].key \in {"unseen", "observed", "refused"}
  /\ job[s].pc \in {"none", "queued", "effect", "done"} /\ job[s].native \in {"none"} \cup Natives
  /\ sender[s].gen \in Targets \cup {NoTarget}
  /\ sender[s].pc # "idle" => sender[s].id \in Handoffs
ClockTyped == now \in Times /\ target \in Targets /\ boot \in 0..1
LedgerTyped ==
  /\ ledger \in [Handoffs -> [phase : {"absent", "prepared", "attempted", "terminal"},
                              submission : {"not_attempted"} \cup Natives, gen : Targets \cup {NoTarget}]]
  /\ \A i \in Handoffs : /\ ledger[i].phase = "terminal" => ledger[i].submission # "not_attempted"
                         /\ ledger[i].phase = "attempted" => ledger[i].submission = "unknown"

(* What is left of the budget was taken after the anchor of the probe, so  *)
(* that both together do not reach beyond the cutoff.                      *)
Budgeted(s) ==
  /\ sender[s].cutoff \in Nat /\ sender[s].anchor \in Nat /\ sender[s].remaining \in Nat
  /\ sender[s].anchor <= now /\ sender[s].anchor + sender[s].remaining <= sender[s].cutoff
  /\ sender[s].pc \in {"idle", "probing"} => sender[s].remaining = 0

(* An invocation that committed its intent.                                *)
Active(s) == sender[s].pc \in {"effect", "bound", "outcome"} \/ child[s].pc # "none"

(* The child of an invocation and the command it carried.                  *)
Carried(s) ==
  /\ sender[s].pc \in {"idle", "probing", "refusing", "probed", "prepared"} => child[s].pc = "none"
  /\ sender[s].pc = "bound" => child[s].pc = "over" /\ child[s].response # "none"
  /\ sender[s].pc = "outcome" => child[s].pc # "none" /\ sender[s].outcome # "none"
  /\ child[s].pc = "none" => child[s] = NoChild /\ job[s] = NoJob
  /\ child[s].pc = "running" => child[s].spawned = "yes"
  /\ job[s].pc # "none" => child[s].spawned = "yes" /\ child[s].key = "observed"
  /\ job[s].pc # "done" => job[s].native = "none"
  /\ child[s].response # "none" => job[s].pc = "done" /\ job[s].native = child[s].response
  /\ sender[s].outcome # "none" => sender[s].pc \in {"refusing", "outcome", "over"}
  /\ child[s].pc = "running" => sender[s].outcome \in {"none", "unknown"}

(* What it may say of the session, and what the ledger says of it.         *)
EffectKnown(s) ==
  LET got == delivered[sender[s].id] IN
  /\ job[s].native = "submitted" => got # {}
  /\ job[s].native = "refused" => got = {}
  /\ MaySubmit(s) => got = {}
  /\ child[s].pc = "over" /\ sender[s].outcome = "submitted" => got # {}
  /\ child[s].pc = "over" /\ sender[s].outcome = "refused" => got = {} /\ ~MaySubmit(s)
Recorded(s) ==
  LET record == ledger[sender[s].id] IN
  /\ sender[s].pc \in {"effect", "bound", "outcome"} => record.phase = "attempted"
  /\ Active(s) => record.phase \in {"attempted", "terminal"}
  /\ Active(s) \/ sender[s].pc = "prepared" => record.phase # "absent" /\ record.gen = sender[s].gen

(* A record, and what the session got under it.                            *)
RecordHolds(i) ==
  /\ ledger[i].phase \in {"absent", "prepared"} =>
       /\ ledger[i].submission = "not_attempted" /\ delivered[i] = {}
       /\ \A s \in Senders : sender[s].id = i => ~Active(s)
  /\ ledger[i].submission = "submitted" => delivered[i] # {}
  /\ ledger[i].submission = "refused" => delivered[i] = {} /\ \A s \in Senders : sender[s].id = i => ~MaySubmit(s)
DeliveredHold(i) ==
  /\ \A e \in delivered[i] :
       /\ e.by \in Senders /\ sender[e.by].id = i /\ job[e.by].pc = "done"
       /\ e.at < sender[e.by].cutoff /\ e.gen = ledger[i].gen
  /\ \A e, f \in delivered[i] : e = f
OneActive == \A s, t \in Senders : Active(s) /\ Active(t) /\ sender[s].id = sender[t].id => s = t

(* What an answer may still be told as, and what the exit code 0 rests on. *)
Evident(s) ==
  /\ InPc(s, "outcome") /\ (child[s].response = "submitted" \/ child[s].pc = "running") =>
       \/ sender[s].outcome = "submitted" /\ sender[s].code = 0
       \/ sender[s].outcome = "unknown" /\ sender[s].code = 130
  /\ sender[s].pc \in {"outcome", "over"} /\ sender[s].code = 0 => sender[s].dry \/ job[s].native = "submitted"

Holds(s) == Shaped(s) /\ Budgeted(s) /\ Carried(s) /\ EffectKnown(s) /\ Recorded(s) /\ Evident(s)
RemoteInv ==
  /\ ClockTyped /\ LedgerTyped /\ RemoteShapes /\ OneActive
  /\ \A s \in Senders : Holds(s)
  /\ \A i \in Handoffs : RecordHolds(i) /\ DeliveredHold(i)

LEMMA RemoteInitially == RemoteInit => RemoteInv
<1> SUFFICES ASSUME RemoteInit PROVE RemoteInv
  OBVIOUS
<1>1. ClockTyped /\ LedgerTyped
  <2>1. 0 \in Times /\ 0 \in Targets BY RemoteBounds DEF Times, Targets
  <2>2. NoRecord \in [phase : {"absent", "prepared", "attempted", "terminal"},
                              submission : {"not_attempted"} \cup Natives, gen : Targets \cup {NoTarget}]
    BY DEF NoRecord
  <2> QED BY <2>1, <2>2 DEF RemoteInit, ClockTyped, LedgerTyped, NoRecord
<1>2. RemoteShapes /\ OneActive
  BY DEF RemoteInit, RemoteShapes, OneActive, Active, NotSending, NoChild
<1>3. ASSUME NEW s \in Senders PROVE Holds(s)
  <2>1. sender[s] = NotSending /\ child[s] = NoChild /\ job[s] = NoJob /\ now = 0
    BY DEF RemoteInit
  <2>2. Shaped(s)
    BY <2>1, RemoteBounds DEF Shaped, NotSending, NoChild, NoJob, InvocationFields, ChildFields, Targets
  <2>3. Budgeted(s) /\ Carried(s) /\ Evident(s)
    BY <2>1 DEF Budgeted, Carried, Evident, InPc, NotSending, NoChild, NoJob
  <2>4. EffectKnown(s) /\ Recorded(s)
    BY <2>1 DEF EffectKnown, Recorded, Active, MaySubmit, InPc, NotSending, NoChild, NoJob
  <2> QED BY <2>2, <2>3, <2>4 DEF Holds
<1>4. ASSUME NEW i \in Handoffs PROVE RecordHolds(i) /\ DeliveredHold(i)
  BY DEF RemoteInit, RecordHolds, DeliveredHold, Active, NoRecord, NotSending, NoChild
<1> QED BY <1>1, <1>2, <1>3, <1>4 DEF RemoteInv

(* The step of the promise for one id, and when a step that only gives up  *)
(* submissions is one.                                                     *)
PromiseStep(i) ==
  \/ RemotePromise!Stay(i) \/ RemotePromise!Take(i) \/ RemotePromise!Use(i)
  \/ RemotePromise!Refuse(i) \/ RemotePromise!Learn(i)
Promised == \A i \in Handoffs : PromiseStep(i)

LEMMA Eased ==
  ASSUME NEW i \in Handoffs, ledger'[i] = ledger[i], delivered'[i] = delivered[i], HeldBy(i)' => HeldBy(i),
         Cardinality(delivered[i]) \in Nat
  PROVE  PromiseStep(i)
<1>1. RemoteFact(i)' = RemoteFact(i) BY DEF RemoteFact
<1>2. \/ RemoteLicence(i)' = RemoteLicence(i)
      \/ RemoteLicence(i) = "held" /\ RemoteLicence(i)' = "spent"
  BY DEF RemoteLicence
<1> QED BY <1>1, <1>2 DEF PromiseStep, RemotePromise!Stay, RemotePromise!Use

LEMMA SentOnce ==
  ASSUME RemoteInv, NEW i \in Handoffs
  PROVE  Cardinality(delivered[i]) = IF delivered[i] = {} THEN 0 ELSE 1
<1>1. CASE delivered[i] = {} BY <1>1, FS_EmptySet
<1>2. CASE delivered[i] # {}
  <2>1. PICK e \in delivered[i] : TRUE BY <1>2
  <2>2. delivered[i] = {e} BY <2>1 DEF RemoteInv, DeliveredHold
  <2> QED BY <1>2, <2>2, FS_Singleton
<1> QED BY <1>1, <1>2

(* A step of one invocation, its child or its command, that touches        *)
(* neither the ledger nor the session, keeps the invariant if it keeps     *)
(* what the invariant says of this invocation, commits no intent and       *)
(* reopens no submission.                                                  *)
LEMMA Framed ==
  ASSUME RemoteInv, NEW s \in Senders,
         \A t \in Senders : t # s => sender'[t] = sender[t] /\ child'[t] = child[t] /\ job'[t] = job[t],
         RemoteShapes', UNCHANGED <<now, target, boot, ledger, delivered>>, Holds(s)',
         Active(s)' => Active(s) /\ sender'[s].id = sender[s].id,
         Active(s) => sender'[s].id = sender[s].id /\ sender'[s].cutoff = sender[s].cutoff,
         MaySubmit(s)' => MaySubmit(s),
         job[s].pc = "done" => job'[s].pc = "done"
  PROVE  RemoteInv' /\ Promised
<1>1. ClockTyped' /\ LedgerTyped' BY DEF RemoteInv, ClockTyped, LedgerTyped
<1>2. \A t \in Senders : t # s => (Active(t)' <=> Active(t)) /\ (MaySubmit(t)' <=> MaySubmit(t))
  BY DEF Active, MaySubmit, InPc
<1>3. \A t \in Senders : Holds(t)'
  <2>1. ASSUME NEW t \in Senders, t # s PROVE Holds(t)'
    <3>1. Holds(t) /\ sender'[t] = sender[t] /\ child'[t] = child[t] /\ job'[t] = job[t]
      BY <2>1 DEF RemoteInv
    <3>2. Shaped(t)' BY <3>1 DEF Holds, Shaped
    <3>3. Budgeted(t)' /\ Carried(t)' /\ Evident(t)'
      BY <3>1 DEF Holds, Budgeted, Carried, Evident, InPc
    <3>4. EffectKnown(t)' BY <1>2, <2>1, <3>1 DEF Holds, EffectKnown
    <3>5. Recorded(t)' BY <1>2, <2>1, <3>1 DEF Holds, Recorded
    <3> QED BY <3>2, <3>3, <3>4, <3>5 DEF Holds
  <2> QED BY <2>1
<1>4. OneActive' BY <1>2 DEF RemoteInv, OneActive
<1>5. ASSUME NEW i \in Handoffs PROVE RecordHolds(i)' /\ DeliveredHold(i)'
  <2>1. RecordHolds(i) /\ DeliveredHold(i) /\ \A t \in Senders : Holds(t)
    BY DEF RemoteInv
  <2>2. \A t \in Senders : sender'[t].id = i /\ MaySubmit(t)' => MaySubmit(t) /\ sender[t].id = i
    <3>1. MaySubmit(s) => Active(s)
      BY <2>1 DEF MaySubmit, Active, InPc, Holds, Carried, NoJob
    <3> QED BY <1>2, <3>1
  <2>3. RecordHolds(i)' BY <1>2, <2>1, <2>2 DEF RecordHolds
  <2>4. job[s].pc = "done" => Active(s) BY <2>1 DEF Active, Holds, Carried, NoJob
  <2>5. DeliveredHold(i)' BY <2>1, <2>4 DEF DeliveredHold
  <2> QED BY <2>3, <2>5
<1>6. ASSUME NEW i \in Handoffs PROVE PromiseStep(i)
  <2>1. MaySubmit(s) => Active(s)
    BY DEF RemoteInv, MaySubmit, Active, InPc, Holds, Carried, NoJob
  <2>2. HeldBy(i)' => HeldBy(i) BY <1>2, <2>1 DEF HeldBy
  <2>3. Cardinality(delivered[i]) \in Nat BY SentOnce
  <2> QED BY <2>2, <2>3, Eased
<1> QED BY <1>1, <1>3, <1>4, <1>5, <1>6 DEF RemoteInv, Promised

(* The steps before the intent.                                            *)

LEMMA StartKeeps == ASSUME RemoteInv, NEW s \in Senders, NEW i \in Handoffs, SendOverSsh(s, i) PROVE RemoteInv' /\ Promised
<1>1. Holds(s) /\ RemoteShapes /\ now \in Nat /\ sender[s].pc = "idle"
  BY RemoteBounds DEF RemoteInv, ClockTyped, Times, SendOverSsh, InPc
<1>2. PICK p \in {"refusing", "probing"}, dry \in BOOLEAN :
        sender' = [sender EXCEPT ![s] = [@ EXCEPT !.pc = p, !.id = i, !.cutoff = now + Budget, !.dry = dry]]
  BY DEF SendOverSsh
<1>3. UNCHANGED <<now, ledger, child, job, target, boot, delivered>> BY DEF SendOverSsh
<1>4. /\ DOMAIN sender' = Senders /\ \A t \in Senders : t # s => sender'[t] = sender[t]
      /\ sender'[s] = [sender[s] EXCEPT !.pc = p, !.id = i, !.cutoff = now + Budget, !.dry = dry]
  BY <1>1, <1>2 DEF RemoteShapes
<1>5. /\ sender'[s].pc = p /\ sender'[s].id = i /\ sender'[s].cutoff = now + Budget
      /\ sender'[s].anchor = sender[s].anchor /\ sender'[s].remaining = sender[s].remaining
      /\ sender'[s].gen = sender[s].gen /\ sender'[s].outcome = sender[s].outcome /\ sender'[s].code = sender[s].code
      /\ DOMAIN sender'[s] = InvocationFields
  BY <1>1, <1>4 DEF Holds, Shaped, InvocationFields
<1> HIDE <1>4
<1>6. child[s] = NoChild /\ job[s] = NoJob /\ sender[s].outcome = "none"
  BY <1>1 DEF Holds, Carried
<1>7. ~Active(s) /\ ~Active(s)' /\ ~MaySubmit(s)'
  BY <1>1, <1>3, <1>5, <1>6 DEF Active, MaySubmit, InPc, NoChild, NoJob
<1>8. Holds(s)'
  <2>1. Shaped(s)' BY <1>1, <1>3, <1>5 DEF Holds, Shaped
  <2>2. Budgeted(s)' BY <1>1, <1>3, <1>5, RemoteBounds DEF Holds, Budgeted
  <2>3. Carried(s)' /\ Evident(s)'
    BY <1>1, <1>3, <1>5, <1>6 DEF Carried, Evident, InPc, NoChild, NoJob
  <2>4. EffectKnown(s)' /\ Recorded(s)'
    BY <1>3, <1>5, <1>6, <1>7 DEF EffectKnown, Recorded, NoChild, NoJob
  <2> QED BY <2>1, <2>2, <2>3, <2>4 DEF Holds
<1>9. job[s].pc # "done" BY <1>6 DEF NoJob
<1> QED BY <1>1, <1>3, <1>4, <1>7, <1>8, <1>9, Framed DEF RemoteShapes

LEMMA ProbeKeeps ==
  ASSUME RemoteInv, NEW s \in Senders, RemoteProbe(s) \/ ProbeAnswered(s) \/ StopsBefore(s)
  PROVE  RemoteInv' /\ Promised
<1>1. Holds(s) /\ RemoteShapes /\ now \in Nat /\ target \in Targets /\ sender[s].pc \in {"probing", "probed", "prepared"}
  BY RemoteBounds DEF RemoteInv, ClockTyped, Times, RemoteProbe, ProbeAnswered, StopsBefore, InPc
<1>2. UNCHANGED <<now, ledger, child, job, target, boot, delivered>>
  BY DEF RemoteProbe, ProbeAnswered, StopsBefore
<1>3. /\ DOMAIN sender' = Senders /\ \A t \in Senders : t # s => sender'[t] = sender[t]
      /\ sender'[s].pc \in {"probing", "probed", "over"} /\ (sender'[s].pc = "probing" => sender[s].pc = "probing")
      /\ sender'[s].id = sender[s].id /\ sender'[s].cutoff = sender[s].cutoff
      /\ sender'[s].gen \in {sender[s].gen, target} /\ sender'[s].outcome = sender[s].outcome /\ sender'[s].code \in {sender[s].code, 1, 130}
      /\ (sender'[s].pc = "over" => sender'[s].code # 0)
      /\ \/ sender'[s].anchor = sender[s].anchor /\ sender'[s].remaining = sender[s].remaining
         \/ sender[s].pc = "probing" /\ now < sender[s].cutoff /\ sender'[s].anchor = now /\ sender'[s].remaining = sender[s].remaining
         \/ /\ sender[s].pc = "probing" /\ sender'[s].pc = "probed" /\ sender'[s].anchor = sender[s].anchor
            /\ sender'[s].remaining = IF now < sender[s].cutoff THEN sender[s].cutoff - now ELSE 0
      /\ DOMAIN sender'[s] = InvocationFields
  <2>1. CASE RemoteProbe(s)
    <3>1. sender'[s] = [sender[s] EXCEPT !.anchor = now, !.boot = boot, !.gen = target]
      BY <1>1, <2>1 DEF RemoteShapes, RemoteProbe
    <3> QED
      BY <1>1, <2>1, <3>1 DEF RemoteShapes, RemoteProbe, Holds, Shaped, InvocationFields, InPc
  <2>2. CASE ProbeAnswered(s)
    <3>1. sender'[s] = [sender[s] EXCEPT !.pc = "probed",
                          !.remaining = IF now < sender[s].cutoff THEN sender[s].cutoff - now ELSE 0]
      BY <1>1, <2>2 DEF RemoteShapes, ProbeAnswered
    <3> QED
      BY <1>1, <2>2, <3>1 DEF RemoteShapes, ProbeAnswered, Holds, Shaped, InvocationFields, InPc
  <2>3. CASE StopsBefore(s)
    <3>1. PICK code \in {1, 130} : sender' = [sender EXCEPT ![s].pc = "over", ![s].code = code]
      BY <2>3 DEF StopsBefore, Ended
    <3>2. sender'[s] = [sender[s] EXCEPT !.pc = "over", !.code = code]
      BY <1>1, <3>1 DEF RemoteShapes
    <3> QED BY <1>1, <3>1, <3>2 DEF RemoteShapes, Holds, Shaped, InvocationFields
  <2> QED BY <2>1, <2>2, <2>3
<1>4. child[s] = NoChild /\ job[s] = NoJob /\ sender[s].outcome = "none"
  BY <1>1 DEF Holds, Carried
<1>5. ~Active(s)' /\ ~Active(s) /\ ~MaySubmit(s)'
  BY <1>1, <1>2, <1>3, <1>4 DEF Active, MaySubmit, InPc, NoChild, NoJob
<1>6. Holds(s)'
  <2>1. Shaped(s)' BY <1>1, <1>2, <1>3 DEF Holds, Shaped
  <2>2. Budgeted(s)' BY <1>1, <1>2, <1>3 DEF Holds, Budgeted
  <2>3. Carried(s)' /\ Evident(s)'
    BY <1>1, <1>2, <1>3, <1>4 DEF Carried, Evident, InPc, NoChild, NoJob
  <2>4. EffectKnown(s)' /\ Recorded(s)'
    BY <1>2, <1>3, <1>4, <1>5 DEF EffectKnown, Recorded, NoChild, NoJob
  <2> QED BY <2>1, <2>2, <2>3, <2>4 DEF Holds
<1>7. job[s].pc # "done" BY <1>4 DEF NoJob
<1> QED BY <1>1, <1>2, <1>3, <1>5, <1>6, <1>7, Framed DEF RemoteShapes

(* The child and its command.                                              *)

LEMMA ChildKeeps ==
  ASSUME RemoteInv, NEW s \in Senders, NotSpawned(s) \/ Spawned(s) \/ KeySeen(s) \/ ChildEnds(s)
  PROVE  RemoteInv' /\ Promised
<1>1. Holds(s) /\ RemoteShapes BY DEF RemoteInv
<1>2. UNCHANGED <<now, ledger, sender, job, target, boot, delivered>>
  BY DEF NotSpawned, Spawned, KeySeen, ChildEnds
<1>3. /\ DOMAIN child' = Senders /\ \A t \in Senders : t # s => child'[t] = child[t]
      /\ DOMAIN child'[s] = ChildFields
      /\ \/ /\ sender[s].pc = "effect" /\ child[s].pc = "none"
            /\ child'[s].response = "none" /\ child'[s].key = "unseen"
            /\ \/ child'[s].pc = "over" /\ child'[s].spawned \in {"no", "unknown"}
               \/ child'[s].pc = "running" /\ child'[s].spawned = "yes"
         \/ /\ child[s].pc = "running" /\ child'[s].pc = "running" /\ child[s].key = "unseen"
            /\ child'[s].key \in {"observed", "refused"}
            /\ child'[s].response = child[s].response /\ child'[s].spawned = child[s].spawned
         \/ /\ child[s].pc = "running" /\ child'[s].pc = "over" /\ child'[s].key = child[s].key
            /\ child'[s].spawned = child[s].spawned /\ child'[s].response \in {"none", job[s].native}
  <2>1. CASE NotSpawned(s)
    <3>1. PICK int \in BOOLEAN : child' = [child EXCEPT ![s] = [@ EXCEPT !.pc = "over", !.interrupted = int]]
      BY <2>1 DEF NotSpawned
    <3>2. child'[s] = [child[s] EXCEPT !.pc = "over", !.interrupted = int]
      BY <1>1, <3>1 DEF RemoteShapes
    <3>3. child[s] = NoChild /\ sender[s].pc = "effect" /\ child[s].pc = "none"
      BY <1>1, <2>1 DEF NotSpawned, Holds, Carried, InPc
    <3> QED
      BY <1>1, <3>1, <3>2, <3>3 DEF RemoteShapes, NoChild, ChildFields, Holds, Shaped
  <2>2. CASE Spawned(s)
    <3>1. child[s] = NoChild /\ sender[s].pc = "effect" /\ child[s].pc = "none"
      BY <1>1, <2>2 DEF Spawned, Holds, Carried, InPc
    <3>2. CASE child' = [child EXCEPT ![s] = [@ EXCEPT !.pc = "running", !.spawned = "yes"]]
      <4>1. child'[s] = [child[s] EXCEPT !.pc = "running", !.spawned = "yes"]
        BY <1>1, <3>2 DEF RemoteShapes
      <4> QED
        BY <1>1, <3>1, <3>2, <4>1 DEF RemoteShapes, NoChild, ChildFields, Holds, Shaped
    <3>3. CASE child' = [child EXCEPT ![s] = [@ EXCEPT !.pc = "over", !.spawned = "unknown", !.interrupted = TRUE]]
      <4>1. child'[s] = [child[s] EXCEPT !.pc = "over", !.spawned = "unknown", !.interrupted = TRUE]
        BY <1>1, <3>3 DEF RemoteShapes
      <4> QED
        BY <1>1, <3>1, <3>3, <4>1 DEF RemoteShapes, NoChild, ChildFields, Holds, Shaped
    <3> QED BY <2>2, <3>2, <3>3 DEF Spawned
  <2>3. CASE KeySeen(s)
    <3>1. PICK k \in {"observed", "refused"} : child' = [child EXCEPT ![s].key = k]
      BY <2>3 DEF KeySeen
    <3>2. child'[s] = [child[s] EXCEPT !.key = k] BY <1>1, <3>1 DEF RemoteShapes
    <3> QED
      BY <1>1, <2>3, <3>1, <3>2 DEF RemoteShapes, KeySeen, ChildFields, Holds, Shaped
  <2>4. CASE ChildEnds(s)
    <3>1. PICK int \in BOOLEAN, r \in {"none", job[s].native} :
            child' = [child EXCEPT ![s].pc = "over", ![s].interrupted = int, ![s].response = r]
      BY <2>4 DEF ChildEnds
    <3>2. child'[s] = [child[s] EXCEPT !.pc = "over", !.interrupted = int, !.response = r]
      BY <1>1, <3>1 DEF RemoteShapes
    <3> QED
      BY <1>1, <2>4, <3>1, <3>2 DEF RemoteShapes, ChildEnds, ChildFields, Holds, Shaped
  <2> QED BY <2>1, <2>2, <2>3, <2>4
<1>4. child[s].pc = "none" => job[s].pc = "none" /\ job[s].native = "none"
  BY <1>1 DEF Holds, Carried, NoJob
<1>5. Active(s) /\ Active(s)' /\ (MaySubmit(s)' => MaySubmit(s)) /\ sender[s].outcome \in {"none", "unknown"}
  BY <1>1, <1>2, <1>3 DEF Active, MaySubmit, InPc, Holds, Carried
<1>6. Holds(s)'
  <2>1. Shaped(s)' BY <1>1, <1>2, <1>3 DEF Holds, Shaped
  <2>2. Budgeted(s)' BY <1>1, <1>2 DEF Holds, Budgeted
  <2>3. Carried(s)' BY <1>1, <1>2, <1>3, <1>4, <1>5 DEF Holds, Shaped, Carried
  <2>4. EffectKnown(s)' BY <1>1, <1>2, <1>5 DEF Holds, EffectKnown
  <2>5. Recorded(s)' BY <1>1, <1>2, <1>5 DEF Holds, Recorded
  <2>6. Evident(s)' BY <1>1, <1>2, <1>3 DEF Holds, Evident, InPc
  <2> QED BY <2>1, <2>2, <2>3, <2>4, <2>5, <2>6 DEF Holds
<1> QED BY <1>1, <1>2, <1>3, <1>5, <1>6, Framed DEF RemoteShapes

LEMMA CommandKeeps ==
  ASSUME RemoteInv, NEW s \in Senders, SourceStreamed(s) \/ RemoteStarts(s) \/ RemoteFails(s)
  PROVE  RemoteInv' /\ Promised
<1>1. Holds(s) /\ RemoteShapes BY DEF RemoteInv
<1>2. UNCHANGED <<now, ledger, sender, child, target, boot, delivered>>
  BY DEF SourceStreamed, RemoteStarts, RemoteFails
<1>3. /\ DOMAIN job' = Senders /\ \A t \in Senders : t # s => job'[t] = job[t]
      /\ DOMAIN job'[s] = {"pc", "native"} /\ job[s].pc # "done" /\ child[s].pc # "none"
      /\ \/ /\ job[s].pc = "none" /\ child[s].pc = "running" /\ child[s].key = "observed"
            /\ job'[s].pc = "queued" /\ job'[s].native = job[s].native
         \/ job[s].pc = "queued" /\ job'[s].pc = "effect" /\ job'[s].native = job[s].native
         \/ job[s].pc \in {"queued", "effect"} /\ job'[s].pc = "done" /\ job'[s].native \in {"refused", "unknown"}
  <2>1. CASE SourceStreamed(s)
    <3>1. job'[s] = [job[s] EXCEPT !.pc = "queued"]
      BY <1>1, <2>1 DEF RemoteShapes, SourceStreamed
    <3> QED BY <1>1, <2>1, <3>1 DEF RemoteShapes, SourceStreamed, Holds, Shaped
  <2>2. CASE RemoteStarts(s)
    <3>1. \/ job'[s] = [job[s] EXCEPT !.pc = "effect"]
          \/ job'[s] = [pc |-> "done", native |-> "refused"]
      BY <1>1, <2>2 DEF RemoteShapes, RemoteStarts
    <3>2. job[s].pc = "queued" /\ child[s].pc # "none"
      BY <1>1, <2>2 DEF RemoteStarts, Holds, Carried, NoJob
    <3> QED BY <1>1, <2>2, <3>1, <3>2 DEF RemoteShapes, RemoteStarts, Holds, Shaped
  <2>3. CASE RemoteFails(s)
    <3>1. PICK n \in {"refused", "unknown"} : job' = [job EXCEPT ![s] = [pc |-> "done", native |-> n]]
      BY <2>3 DEF RemoteFails
    <3>2. job'[s] = [pc |-> "done", native |-> n] BY <1>1, <3>1 DEF RemoteShapes
    <3>3. job[s].pc = "effect" /\ child[s].pc # "none"
      BY <1>1, <2>3 DEF RemoteFails, Holds, Carried, NoJob
    <3> QED BY <1>1, <3>1, <3>2, <3>3 DEF RemoteShapes
  <2> QED BY <2>1, <2>2, <2>3
<1>4. MaySubmit(s) /\ Active(s) /\ (Active(s)' <=> Active(s))
  BY <1>1, <1>2, <1>3 DEF Active, MaySubmit, Holds, Carried
<1>5. delivered[sender[s].id] = {} BY <1>1, <1>4 DEF Holds, EffectKnown
<1>6. Holds(s)'
  <2>1. Shaped(s)' BY <1>1, <1>2, <1>3 DEF Holds, Shaped, Natives
  <2>2. Budgeted(s)' /\ Evident(s)'
    BY <1>1, <1>2, <1>3 DEF Holds, Budgeted, Carried, Evident, InPc
  <2>3. Carried(s)'
    <3>1. child[s].spawned = "yes" /\ child[s].key = "observed" /\ child[s].response = "none"
      <4>1. job[s].pc = "none" => child[s].pc = "running" /\ child[s].key = "observed"
        BY <1>3
      <4>2. child[s].pc = "running" => child[s].spawned = "yes"
        BY <1>1 DEF Holds, Carried
      <4> QED BY <1>1, <1>3, <4>1, <4>2 DEF Holds, Carried
    <3> QED BY <1>1, <1>2, <1>3, <3>1 DEF Holds, Carried
  <2>4. EffectKnown(s)' BY <1>1, <1>2, <1>3, <1>4, <1>5 DEF Holds, EffectKnown
  <2>5. Recorded(s)' BY <1>1, <1>2, <1>4 DEF Holds, Recorded
  <2> QED BY <2>1, <2>2, <2>3, <2>4, <2>5 DEF Holds
<1> QED BY <1>1, <1>2, <1>3, <1>4, <1>6, Framed DEF RemoteShapes

(* The outcome, and the end of a sender.                                   *)

LEMMA NothingGot ==
  ASSUME RemoteInv, NEW s \in Senders, Active(s), job[s].pc # "done"
  PROVE  delivered[sender[s].id] = {}
<1>1. sender[s].id \in Handoffs BY DEF RemoteInv, Holds, Shaped, Carried, Active
<1>2. DeliveredHold(sender[s].id) /\ OneActive /\ \A t \in Senders : Holds(t)
  BY <1>1 DEF RemoteInv
<1>3. ASSUME NEW e \in delivered[sender[s].id] PROVE FALSE
  <2>1. e.by \in Senders /\ sender[e.by].id = sender[s].id /\ job[e.by].pc = "done"
    BY <1>2 DEF DeliveredHold
  <2>2. Active(e.by) BY <1>2, <2>1 DEF Holds, Carried, NoJob, Active
  <2> QED BY <1>2, <2>1, <2>2 DEF OneActive
<1> QED BY <1>3

LEMMA BindsKeeps == ASSUME RemoteInv, NEW s \in Senders, Binds(s) PROVE RemoteInv' /\ Promised
<1>1. Holds(s) /\ RemoteShapes /\ sender[s].pc = "effect" /\ child[s].pc = "over" /\ child[s].response # "none"
  BY DEF RemoteInv, Binds, InPc
<1>2. UNCHANGED <<now, ledger, child, job, target, boot, delivered>> BY DEF Binds
<1>3. sender'[s] = [sender[s] EXCEPT !.pc = "bound"] BY <1>1 DEF RemoteShapes, Binds
<1>4. DOMAIN sender' = Senders /\ \A t \in Senders : t # s => sender'[t] = sender[t]
  BY <1>1 DEF RemoteShapes, Binds
<1>5. /\ sender'[s].pc = "bound" /\ sender'[s].outcome = sender[s].outcome /\ sender'[s].code = sender[s].code
      /\ sender'[s].id = sender[s].id /\ sender'[s].cutoff = sender[s].cutoff /\ sender'[s].anchor = sender[s].anchor
      /\ sender'[s].remaining = sender[s].remaining /\ sender'[s].gen = sender[s].gen
      /\ DOMAIN sender'[s] = InvocationFields
  BY <1>1, <1>3 DEF Holds, Shaped, InvocationFields
<1>6. Active(s) /\ Active(s)' /\ (MaySubmit(s)' <=> MaySubmit(s))
  BY <1>1, <1>2, <1>5 DEF Active, MaySubmit, InPc
<1>7. Holds(s)'
  <2>1. Shaped(s)' BY <1>1, <1>2, <1>5 DEF Holds, Shaped
  <2>2. Budgeted(s)' /\ Evident(s)'
    BY <1>1, <1>2, <1>5 DEF Holds, Budgeted, Evident, InPc
  <2>3. Carried(s)' BY <1>1, <1>2, <1>5 DEF Holds, Carried
  <2>4. EffectKnown(s)' BY <1>1, <1>2, <1>5, <1>6 DEF Holds, EffectKnown
  <2>5. Recorded(s)' BY <1>1, <1>2, <1>5, <1>6 DEF Holds, Recorded
  <2> QED BY <2>1, <2>2, <2>3, <2>4, <2>5 DEF Holds
<1> QED BY <1>1, <1>2, <1>4, <1>5, <1>6, <1>7, Framed DEF RemoteShapes

(* What an outcome may rest on: the answer of the child that is bound,     *)
(* the proof that nothing was executed, or nothing.                        *)
ToldAs(s, o, c) ==
  /\ sender' = [sender EXCEPT ![s].pc = "outcome", ![s].outcome = o, ![s].code = c]
  /\ c = 0 \/ o = "submitted" => child[s].response = "submitted" /\ c = 0 /\ o = "submitted"
  /\ o # "unknown" => child[s].pc = "over"
  /\ o = "refused" => child[s].response = "refused" \/ child[s].spawned = "no" \/ child[s].key = "refused"
  /\ child[s].response = "submitted" \/ child[s].pc = "running" =>
       (o = "submitted" /\ c = 0) \/ (o = "unknown" /\ c = 130)

LEMMA Told ==
  ASSUME RemoteInv, NEW s \in Senders, Classify(s) \/ SenderInterrupted(s)
  PROVE  \E o \in Natives, c \in {0, 1, 130} : ToldAs(s, o, c)
<1>1. Holds(s) BY DEF RemoteInv
<1>2. ASSUME NEW o \in Natives, NEW c \in {0, 1, 130}, ToldAs(s, o, c)
      PROVE  \E p \in Natives, d \in {0, 1, 130} : ToldAs(s, p, d)
  BY <1>2, Zenon
<1>3. CASE InPc(s, "bound") /\ Tells(s, child[s].response, IF child[s].response = "submitted" THEN 0 ELSE 1)
  <2>1. child[s].pc = "over" /\ child[s].response \in Natives
    BY <1>1, <1>3 DEF Holds, Shaped, Carried, InPc
  <2>2. CASE child[s].response = "submitted"
    <3>1. ToldAs(s, "submitted", 0) BY <1>3, <2>1, <2>2 DEF Tells, ToldAs
    <3> QED BY <1>2, <3>1 DEF Natives
  <2>3. CASE child[s].response # "submitted"
    <3>1. ToldAs(s, child[s].response, 1) BY <1>3, <2>1, <2>3 DEF Tells, ToldAs
    <3> QED BY <1>2, <2>1, <3>1
  <2> QED BY <2>2, <2>3
<1>4. CASE InPc(s, "bound") /\ child[s].response = "submitted" /\ Tells(s, "submitted", 0)
  <2>1. ToldAs(s, "submitted", 0) BY <1>1, <1>4 DEF Tells, ToldAs, Holds, Carried, InPc
  <2> QED BY <1>2, <2>1 DEF Natives
<1>5. CASE Tells(s, "unknown", 130)
  <2>1. ToldAs(s, "unknown", 130) BY <1>5 DEF Tells, ToldAs
  <2> QED BY <1>2, <2>1 DEF Natives
<1>6. CASE /\ InPc(s, "effect") /\ child[s].pc = "over" /\ child[s].response = "none"
           /\ Tells(s, Unanswered(s), IF child[s].interrupted THEN 130 ELSE 1)
  <2> DEFINE c == IF child[s].interrupted THEN 130 ELSE 1
  <2>1. Unanswered(s) \in {"refused", "unknown"} /\ c \in {1, 130} BY DEF Unanswered
  <2>2. Unanswered(s) = "refused" => child[s].spawned = "no" \/ child[s].key = "refused"
    BY DEF Unanswered
  <2>3. sender' = [sender EXCEPT ![s].pc = "outcome", ![s].outcome = Unanswered(s), ![s].code = c]
    BY <1>6 DEF Tells
  <2> HIDE DEF c
  <2>4. ToldAs(s, Unanswered(s), c) BY <1>6, <2>1, <2>2, <2>3 DEF ToldAs
  <2>5. Unanswered(s) \in Natives /\ c \in {0, 1, 130} BY <2>1 DEF Natives
  <2> QED BY <1>2, <2>4, <2>5
<1> QED BY <1>3, <1>4, <1>5, <1>6 DEF Classify, SenderInterrupted

LEMMA ClassifyKeeps ==
  ASSUME RemoteInv, NEW s \in Senders, Classify(s) \/ SenderInterrupted(s)
  PROVE  RemoteInv' /\ Promised
<1>1. Holds(s) /\ RemoteShapes BY DEF RemoteInv
<1>2. UNCHANGED <<now, ledger, child, job, target, boot, delivered>>
  BY DEF Classify, SenderInterrupted
<1>3. sender[s].pc \in {"effect", "bound"} /\ child[s].pc # "none"
  BY <1>1 DEF Classify, SenderInterrupted, InPc, Holds, Carried
<1>0. PICK o \in Natives, c \in {0, 1, 130} : ToldAs(s, o, c) BY Told
<1>4. sender'[s] = [sender[s] EXCEPT !.pc = "outcome", !.outcome = o, !.code = c]
  BY <1>0, <1>1 DEF RemoteShapes, ToldAs
<1>5. /\ DOMAIN sender' = Senders /\ \A t \in Senders : t # s => sender'[t] = sender[t]
  BY <1>0, <1>1 DEF RemoteShapes, ToldAs
<1>6. /\ sender'[s].pc = "outcome" /\ sender'[s].outcome = o /\ sender'[s].code = c
      /\ sender'[s].id = sender[s].id /\ sender'[s].cutoff = sender[s].cutoff /\ sender'[s].anchor = sender[s].anchor
      /\ sender'[s].remaining = sender[s].remaining /\ sender'[s].gen = sender[s].gen
      /\ DOMAIN sender'[s] = InvocationFields
  BY <1>1, <1>4 DEF Holds, Shaped, InvocationFields
<1>7. Active(s) /\ Active(s)' /\ (MaySubmit(s)' <=> MaySubmit(s))
  BY <1>2, <1>3, <1>6 DEF Active, MaySubmit, InPc
<1>8. c = 0 \/ o = "submitted" => job[s].native = "submitted" /\ job[s].pc = "done" /\ c = 0
  BY <1>0, <1>1 DEF Holds, Carried, ToldAs
<1>9. o = "refused" => delivered[sender[s].id] = {} /\ ~MaySubmit(s)
  <2>1. CASE child[s].response = "refused"
    <3>1. job[s].pc = "done" /\ job[s].native = "refused"
      BY <1>1, <2>1 DEF Holds, Carried
    <3>2. o = "refused" => ~MaySubmit(s) BY <1>3, <3>1 DEF MaySubmit, InPc
    <3> QED BY <1>1, <3>1, <3>2 DEF Holds, EffectKnown
  <2>2. CASE child[s].spawned = "no" \/ child[s].key = "refused"
    <3>1. job[s].pc = "none" BY <1>1, <2>2 DEF Holds, Carried
    <3> QED BY <1>0, <1>1, <1>3, <1>7, <3>1, NothingGot DEF MaySubmit, InPc, ToldAs
  <2> QED BY <1>0, <2>1, <2>2 DEF ToldAs
<1>10. Holds(s)'
  <2>1. Shaped(s)' BY <1>1, <1>2, <1>3, <1>6 DEF Holds, Shaped
  <2>2. Budgeted(s)' BY <1>1, <1>2, <1>3, <1>6 DEF Holds, Budgeted
  <2>3. Carried(s)'
    <3>1. o \in Natives /\ (child[s].pc = "running" => o \in {"none", "unknown"})
      BY <1>0, <1>1, <1>8 DEF Holds, Carried, ToldAs
    <3> QED BY <1>1, <1>2, <1>3, <1>6, <3>1 DEF Holds, Carried, Natives
  <2>4. EffectKnown(s)'
    BY <1>0, <1>1, <1>2, <1>6, <1>7, <1>8, <1>9 DEF Holds, EffectKnown, ToldAs
  <2>5. Recorded(s)' BY <1>1, <1>2, <1>3, <1>6, <1>7 DEF Holds, Recorded
  <2>6. Evident(s)' BY <1>0, <1>2, <1>6, <1>8 DEF Evident, InPc, ToldAs
  <2> QED BY <2>1, <2>2, <2>3, <2>4, <2>5, <2>6 DEF Holds
<1> QED BY <1>1, <1>2, <1>5, <1>6, <1>7, <1>10, Framed DEF RemoteShapes

LEMMA DeathKeeps == ASSUME RemoteInv, NEW s \in Senders, SenderKilled(s) PROVE RemoteInv' /\ Promised
<1>1. Holds(s) /\ RemoteShapes /\ sender[s].pc # "idle" BY DEF RemoteInv, SenderKilled
<1>2. UNCHANGED <<now, ledger, child, job, target, boot, delivered>> BY DEF SenderKilled
<1>3. sender'[s] = [sender[s] EXCEPT !.pc = "over", !.outcome = "none", !.code = 1]
  BY <1>1 DEF RemoteShapes, SenderKilled
<1>4. DOMAIN sender' = Senders /\ \A t \in Senders : t # s => sender'[t] = sender[t]
  BY <1>1 DEF RemoteShapes, SenderKilled
<1>5. /\ sender'[s].pc = "over" /\ sender'[s].outcome = "none" /\ sender'[s].code = 1
      /\ sender'[s].id = sender[s].id /\ sender'[s].cutoff = sender[s].cutoff /\ sender'[s].anchor = sender[s].anchor
      /\ sender'[s].remaining = sender[s].remaining /\ sender'[s].gen = sender[s].gen
      /\ DOMAIN sender'[s] = InvocationFields
  BY <1>1, <1>3 DEF Holds, Shaped, InvocationFields
<1>6. (Active(s)' => Active(s)) /\ (MaySubmit(s)' => MaySubmit(s))
  BY <1>1, <1>2, <1>5 DEF Active, MaySubmit, InPc
<1>7. Holds(s)'
  <2>1. Shaped(s)' BY <1>1, <1>2, <1>5 DEF Holds, Shaped
  <2>2. Budgeted(s)' BY <1>1, <1>2, <1>5 DEF Holds, Budgeted
  <2>3. Carried(s)' /\ Evident(s)' BY <1>1, <1>2, <1>5 DEF Holds, Carried, Evident, InPc
  <2>4. EffectKnown(s)' BY <1>1, <1>2, <1>5, <1>6 DEF Holds, EffectKnown
  <2>5. Recorded(s)' BY <1>1, <1>2, <1>5, <1>6 DEF Holds, Recorded
  <2> QED BY <2>1, <2>2, <2>3, <2>4, <2>5 DEF Holds
<1> QED BY <1>1, <1>2, <1>4, <1>5, <1>6, <1>7, Framed DEF RemoteShapes

(* The transactions of the ledger.                                         *)

LEMMA Committed ==
  ASSUME RemoteInv, NEW s \in Senders, NEW i \in Handoffs, sender[s].id = i,
         \A t \in Senders : t # s => sender'[t] = sender[t], DOMAIN sender' = Senders,
         \A j \in Handoffs : j # i => ledger'[j] = ledger[j],
         UNCHANGED <<now, child, job, target, boot, delivered>>,
         sender'[s].id = i, sender'[s].cutoff = sender[s].cutoff,
         LedgerTyped', Holds(s)', RecordHolds(i)', OneActive',
         \A t \in Senders : t # s /\ sender[t].id = i => Recorded(t)',
         delivered[i] # {} => ledger'[i].gen = ledger[i].gen
  PROVE  RemoteInv' /\ \A j \in Handoffs : j # i => PromiseStep(j)
<1>1. ClockTyped' /\ RemoteShapes' BY DEF RemoteInv, ClockTyped, RemoteShapes
<1>2. \A t \in Senders : t # s => (Active(t)' <=> Active(t)) /\ (MaySubmit(t)' <=> MaySubmit(t))
  BY DEF Active, MaySubmit, InPc
<1>3. ASSUME NEW t \in Senders, t # s PROVE Holds(t)'
  <2>1. Holds(t) /\ sender'[t] = sender[t] BY <1>3 DEF RemoteInv
  <2>2. Shaped(t)' BY <2>1 DEF Holds, Shaped
  <2>3. Budgeted(t)' /\ Carried(t)' /\ Evident(t)'
    BY <2>1 DEF Holds, Budgeted, Carried, Evident, InPc
  <2>4. EffectKnown(t)' BY <1>2, <1>3, <2>1 DEF Holds, EffectKnown
  <2>5. Recorded(t)'
    <3>1. CASE sender[t].id = i BY <1>3, <3>1
    <3>2. CASE sender[t].id # i /\ (Active(t) \/ sender[t].pc = "prepared")
      <4>1. sender[t].id \in Handoffs BY <2>1, <3>2 DEF Holds, Shaped, Carried, Active
      <4> QED BY <1>2, <1>3, <2>1, <3>2, <4>1 DEF Holds, Recorded
    <3>3. CASE ~(Active(t) \/ sender[t].pc = "prepared")
      BY <1>2, <1>3, <2>1, <3>3 DEF Recorded, Active
    <3> QED BY <3>1, <3>2, <3>3
  <2> QED BY <2>2, <2>3, <2>4, <2>5 DEF Holds
<1>4. ASSUME NEW j \in Handoffs PROVE RecordHolds(j)' /\ DeliveredHold(j)'
  <2>1. RecordHolds(j) /\ DeliveredHold(j) BY DEF RemoteInv
  <2>2. CASE j # i BY <1>2, <2>1, <2>2 DEF RecordHolds, DeliveredHold
  <2>3. CASE j = i BY <2>1, <2>3 DEF DeliveredHold
  <2> QED BY <2>2, <2>3
<1>5. ASSUME NEW j \in Handoffs, j # i PROVE PromiseStep(j)
  <2>1. HeldBy(j)' => HeldBy(j) BY <1>2, <1>5 DEF HeldBy
  <2>2. Cardinality(delivered[j]) \in Nat BY SentOnce
  <2> QED BY <1>5, <2>1, <2>2, Eased
<1> QED BY <1>1, <1>3, <1>4, <1>5 DEF RemoteInv

LEMMA SubmitterActive == ASSUME NEW s \in Senders, Carried(s), MaySubmit(s) PROVE Active(s)
  BY DEF Carried, MaySubmit, Active, InPc, NoJob

(* A record that is not yet attempted has nobody who may submit.           *)
LEMMA OpenRecord ==
  ASSUME RemoteInv, NEW i \in Handoffs, ledger[i].phase \in {"absent", "prepared"}
  PROVE  /\ delivered[i] = {} /\ ledger[i].submission = "not_attempted"
         /\ \A t \in Senders : sender[t].id = i => ~Active(t) /\ ~MaySubmit(t)
<1>1. RecordHolds(i) /\ \A t \in Senders : Carried(t) BY DEF RemoteInv, Holds
<1> QED BY <1>1, SubmitterActive DEF RecordHolds

RecordSet == [phase : {"absent", "prepared", "attempted", "terminal"}, submission : {"not_attempted"} \cup Natives,
              gen : Targets \cup {NoTarget}]

LEMMA LedgerWritten ==
  ASSUME LedgerTyped, NEW i \in Handoffs, NEW r \in RecordSet, ledger' = [ledger EXCEPT ![i] = r],
         r.phase = "terminal" => r.submission # "not_attempted", r.phase = "attempted" => r.submission = "unknown"
  PROVE  LedgerTyped' /\ ledger'[i] = r /\ \A j \in Handoffs : j # i => ledger'[j] = ledger[j]
  BY DEF LedgerTyped, RecordSet

LEMMA RefusalPrepared == ASSUME RemoteInv, NEW s \in Senders, PrepareToRefuse(s) PROVE RemoteInv' /\ Promised
<1>1. /\ Holds(s) /\ RemoteShapes /\ LedgerTyped /\ OneActive
      /\ sender[s].pc = "refusing" /\ sender[s].gen = NoTarget /\ sender[s].id \in Handoffs
  BY DEF RemoteInv, PrepareToRefuse, Holds, Shaped, InPc
<1> PICK i \in Handoffs : i = sender[s].id BY <1>1
<1>2. UNCHANGED <<now, child, job, target, boot, delivered>> BY DEF PrepareToRefuse
<1>3. \/ /\ MayPrepare(i, NoTarget) /\ ledger' = [ledger EXCEPT ![i] = PreparedRecord(i, NoTarget)]
         /\ sender' = [sender EXCEPT ![s].outcome = "refused"]
      \/ ledger' = ledger /\ sender' = [sender EXCEPT ![s].pc = "over", ![s].code = 1]
  BY DEF PrepareToRefuse, Ended
<1>4. DOMAIN sender' = Senders /\ \A t \in Senders : t # s => sender'[t] = sender[t]
  BY <1>1, <1>3 DEF RemoteShapes
<1>5. \/ sender'[s] = [sender[s] EXCEPT !.outcome = "refused"]
      \/ ledger' = ledger /\ sender'[s] = [sender[s] EXCEPT !.pc = "over", !.code = 1]
  BY <1>1, <1>3 DEF RemoteShapes
<1>6. /\ sender'[s].pc \in {"refusing", "over"} /\ sender'[s].code \in {sender[s].code, 1}
      /\ (sender'[s].pc = "over" => sender'[s].code = 1)
      /\ sender'[s].outcome \in {sender[s].outcome, "refused"}
      /\ sender'[s].id = i /\ sender'[s].cutoff = sender[s].cutoff /\ sender'[s].anchor = sender[s].anchor
      /\ sender'[s].remaining = sender[s].remaining /\ sender'[s].gen = sender[s].gen
      /\ DOMAIN sender'[s] = InvocationFields
  <2>1. CASE sender'[s] = [sender[s] EXCEPT !.outcome = "refused"]
    BY <1>1, <2>1 DEF Holds, Shaped, InvocationFields
  <2>2. CASE sender'[s] = [sender[s] EXCEPT !.pc = "over", !.code = 1]
    BY <1>1, <2>2 DEF Holds, Shaped, InvocationFields
  <2> QED BY <1>5, <2>1, <2>2
<1>7. child[s] = NoChild /\ job[s] = NoJob BY <1>1 DEF Holds, Carried
<1>8. ~Active(s) /\ ~Active(s)' /\ ~MaySubmit(s) /\ ~MaySubmit(s)'
  BY <1>1, <1>2, <1>6, <1>7 DEF Active, MaySubmit, InPc, NoChild, NoJob
<1>9. Holds(s)'
  <2>1. Shaped(s)' BY <1>1, <1>2, <1>6 DEF Holds, Shaped, Natives
  <2>2. Budgeted(s)' BY <1>1, <1>2, <1>6 DEF Holds, Budgeted
  <2>3. Carried(s)' /\ Evident(s)'
    BY <1>1, <1>2, <1>6, <1>7 DEF Holds, Carried, Evident, InPc, NoChild, NoJob
  <2>4. EffectKnown(s)' /\ Recorded(s)'
    BY <1>1, <1>2, <1>6, <1>7, <1>8 DEF EffectKnown, Recorded, NoChild, NoJob
  <2> QED BY <2>1, <2>2, <2>3, <2>4 DEF Holds
<1>10. CASE ledger' = ledger
  BY <1>1, <1>2, <1>4, <1>6, <1>7, <1>8, <1>9, <1>10, Framed DEF RemoteShapes, NoJob
<1>11. CASE MayPrepare(i, NoTarget) /\ ledger' = [ledger EXCEPT ![i] = PreparedRecord(i, NoTarget)]
  <2>1. ledger[i].phase \in {"absent", "prepared"}
    BY <1>11 DEF MayPrepare, PreparedRecord
  <2>2. PreparedRecord(i, NoTarget) \in RecordSet BY DEF PreparedRecord, RecordSet
  <2>3. LedgerTyped' /\ ledger'[i] = PreparedRecord(i, NoTarget) /\ \A j \in Handoffs : j # i => ledger'[j] = ledger[j]
    BY <1>1, <1>11, <2>2, LedgerWritten DEF PreparedRecord
  <2>4. \A t \in Senders : (Active(t)' <=> Active(t)) /\ (MaySubmit(t)' <=> MaySubmit(t))
    BY <1>2, <1>4, <1>8 DEF Active, MaySubmit, InPc
  <2>5. RecordHolds(i)' /\ OneActive'
    <3>1. \A t \in Senders : sender'[t].id = i => sender[t].id = i BY <1>4
    <3>2. RecordHolds(i)'
      BY <1>1, <1>2, <2>1, <2>3, <2>4, <3>1, OpenRecord DEF RecordHolds, PreparedRecord
    <3>3. OneActive' BY <1>1, <1>4, <1>8, <2>4 DEF OneActive
    <3> QED BY <3>2, <3>3
  <2>6. ASSUME NEW t \in Senders, t # s, sender[t].id = i PROVE Recorded(t)'
    <3>1. sender'[t] = sender[t] /\ ~Active(t) /\ Recorded(t)
      BY <1>1, <1>4, <2>1, <2>6, OpenRecord DEF RemoteInv, Holds
    <3>2. sender[t].pc = "prepared" => ledger'[i] = ledger[i]
      BY <1>11, <2>3, <2>6, <3>1 DEF Recorded, MayPrepare
    <3> QED BY <2>3, <2>4, <2>6, <3>1, <3>2 DEF Recorded, PreparedRecord, Active
  <2>7. delivered[i] = {} BY <1>1, <2>1, OpenRecord
  <2>8. PromiseStep(i)
    <3>1. RemoteLicence(i)' = "open" /\ RemoteLicence(i) = "open"
      BY <2>1, <2>3 DEF PreparedRecord, RemoteLicence
    <3>2. RemoteFact(i)' = "none" /\ RemoteFact(i) = "none"
      BY <2>1, <2>3, OpenRecord DEF RemoteFact, PreparedRecord
    <3> QED BY <1>2, <3>1, <3>2 DEF PromiseStep, RemotePromise!Stay
  <2> QED
    BY <1>1, <1>2, <1>4, <1>6, <1>9, <2>3, <2>5, <2>6, <2>7, <2>8, Committed DEF Promised
<1> QED BY <1>3, <1>10, <1>11

LEMMA RefusalKeeps == ASSUME RemoteInv, NEW s \in Senders, RefuseEarly(s) PROVE RemoteInv' /\ Promised
<1>1. /\ Holds(s) /\ RemoteShapes /\ LedgerTyped /\ OneActive
      /\ sender[s].pc = "refusing" /\ sender[s].id \in Handoffs
  BY DEF RemoteInv, RefuseEarly, Holds, Shaped, InPc
<1> PICK i \in Handoffs : i = sender[s].id BY <1>1
<1>2. UNCHANGED <<now, child, job, target, boot, delivered>> BY DEF RefuseEarly
<1>3. sender' = [sender EXCEPT ![s].pc = "over", ![s].code = 1]
  BY DEF RefuseEarly, Ended
<1>4. DOMAIN sender' = Senders /\ \A t \in Senders : t # s => sender'[t] = sender[t]
  BY <1>1, <1>3 DEF RemoteShapes
<1>5. sender'[s] = [sender[s] EXCEPT !.pc = "over", !.code = 1]
  BY <1>1, <1>3 DEF RemoteShapes
<1>6. /\ sender'[s].pc = "over" /\ sender'[s].code = 1 /\ sender'[s].outcome = sender[s].outcome
      /\ sender'[s].id = i /\ sender'[s].cutoff = sender[s].cutoff /\ sender'[s].anchor = sender[s].anchor
      /\ sender'[s].remaining = sender[s].remaining /\ sender'[s].gen = sender[s].gen
      /\ DOMAIN sender'[s] = InvocationFields
  BY <1>1, <1>5 DEF Holds, Shaped, InvocationFields
<1>7. child[s] = NoChild /\ job[s] = NoJob BY <1>1 DEF Holds, Carried
<1>8. ~Active(s) /\ ~Active(s)' /\ ~MaySubmit(s) /\ ~MaySubmit(s)'
  BY <1>1, <1>2, <1>6, <1>7 DEF Active, MaySubmit, InPc, NoChild, NoJob
<1>9. Holds(s)'
  <2>1. Shaped(s)' BY <1>1, <1>2, <1>6 DEF Holds, Shaped, Natives
  <2>2. Budgeted(s)' BY <1>1, <1>2, <1>6 DEF Holds, Budgeted
  <2>3. Carried(s)' /\ Evident(s)'
    BY <1>1, <1>2, <1>6, <1>7 DEF Holds, Carried, Evident, InPc, NoChild, NoJob
  <2>4. EffectKnown(s)' /\ Recorded(s)'
    BY <1>1, <1>2, <1>6, <1>7, <1>8 DEF EffectKnown, Recorded, NoChild, NoJob
  <2> QED BY <2>1, <2>2, <2>3, <2>4 DEF Holds
<1>10. CASE ledger' = ledger
  BY <1>1, <1>2, <1>4, <1>6, <1>7, <1>8, <1>9, <1>10, Framed DEF RemoteShapes, NoJob
<1>11. CASE Refusable(i) /\ ledger' = [ledger EXCEPT ![i].phase = "terminal", ![i].submission = "refused"]
  <2> DEFINE r == [ledger[i] EXCEPT !.phase = "terminal", !.submission = "refused"]
  <2>1. ledger[i].phase = "prepared" /\ ledger[i] \in RecordSet /\ ledger' = [ledger EXCEPT ![i] = r]
    BY <1>1, <1>11 DEF Refusable, LedgerTyped, RecordSet
  <2>2. r \in RecordSet /\ r.phase = "terminal" /\ r.submission = "refused" /\ r.gen = ledger[i].gen
    BY <2>1 DEF RecordSet, Natives
  <2> HIDE DEF r
  <2>3. LedgerTyped' /\ ledger'[i] = r /\ \A j \in Handoffs : j # i => ledger'[j] = ledger[j]
    BY <1>1, <2>1, <2>2, LedgerWritten
  <2>4. \A t \in Senders : (Active(t)' <=> Active(t)) /\ (MaySubmit(t)' <=> MaySubmit(t))
    BY <1>2, <1>4, <1>8 DEF Active, MaySubmit, InPc
  <2>5. RecordHolds(i)' /\ OneActive'
    <3>1. \A t \in Senders : sender'[t].id = i => sender[t].id = i BY <1>4
    <3>2. RecordHolds(i)'
      BY <1>1, <1>2, <2>1, <2>2, <2>3, <2>4, <3>1, OpenRecord DEF RecordHolds
    <3>3. OneActive' BY <1>1, <1>4, <1>8, <2>4 DEF OneActive
    <3> QED BY <3>2, <3>3
  <2>6. ASSUME NEW t \in Senders, t # s, sender[t].id = i PROVE Recorded(t)'
    <3>1. sender'[t] = sender[t] /\ ~Active(t) /\ Recorded(t)
      BY <1>1, <1>4, <2>1, <2>6, OpenRecord DEF RemoteInv, Holds
    <3> QED BY <2>2, <2>3, <2>4, <2>6, <3>1 DEF Recorded, Active
  <2>7. delivered[i] = {} BY <1>1, <2>1, OpenRecord
  <2>8. PromiseStep(i)
    <3>1. ~HeldBy(i)' BY <1>4, <2>1, <2>4, OpenRecord DEF HeldBy
    <3>2. RemoteLicence(i) = "open" /\ RemoteLicence(i)' = "spent"
      BY <2>1, <2>2, <2>3, <3>1 DEF RemoteLicence
    <3>3. RemoteFact(i)' = "refused" BY <2>2, <2>3 DEF RemoteFact
    <3> QED BY <1>2, <3>2, <3>3 DEF PromiseStep, RemotePromise!Refuse
  <2> QED
    BY <1>1, <1>2, <1>4, <1>6, <1>9, <2>3, <2>5, <2>6, <2>7, <2>8, Committed DEF Promised
<1> QED BY <1>10, <1>11 DEF RefuseEarly

LEMMA PreparationKeeps == ASSUME RemoteInv, NEW s \in Senders, PrepareIntent(s) PROVE RemoteInv' /\ Promised
<1>1. /\ Holds(s) /\ RemoteShapes /\ LedgerTyped /\ OneActive
      /\ sender[s].pc = "probed" /\ sender[s].id \in Handoffs
  BY DEF RemoteInv, PrepareIntent, Holds, Shaped, InPc
<1> PICK i \in Handoffs : i = sender[s].id BY <1>1
<1>2. UNCHANGED <<now, child, job, target, boot, delivered>> BY DEF PrepareIntent
<1>3. /\ MayPrepare(i, sender[s].gen) /\ ledger' = [ledger EXCEPT ![i] = PreparedRecord(i, sender[s].gen)]
      /\ \/ sender[s].dry /\ sender' = [sender EXCEPT ![s].pc = "over", ![s].code = 0]
         \/ sender' = [sender EXCEPT ![s].pc = "prepared"]
  BY DEF PrepareIntent, Ended
<1>4. DOMAIN sender' = Senders /\ \A t \in Senders : t # s => sender'[t] = sender[t]
  BY <1>1, <1>3 DEF RemoteShapes
<1>5. \/ sender[s].dry /\ sender'[s] = [sender[s] EXCEPT !.pc = "over", !.code = 0]
      \/ sender'[s] = [sender[s] EXCEPT !.pc = "prepared"]
  BY <1>1, <1>3 DEF RemoteShapes
<1>6. /\ sender'[s].pc \in {"over", "prepared"} /\ sender'[s].code \in {sender[s].code, 0} /\ sender'[s].outcome = sender[s].outcome
      /\ (sender'[s].pc = "over" => sender'[s].dry)
      /\ sender'[s].id = i /\ sender'[s].cutoff = sender[s].cutoff /\ sender'[s].anchor = sender[s].anchor
      /\ sender'[s].remaining = sender[s].remaining /\ sender'[s].gen = sender[s].gen
      /\ DOMAIN sender'[s] = InvocationFields
  <2>1. CASE sender'[s] = [sender[s] EXCEPT !.pc = "prepared"]
    BY <1>1, <2>1 DEF Holds, Shaped, InvocationFields
  <2>2. CASE sender[s].dry /\ sender'[s] = [sender[s] EXCEPT !.pc = "over", !.code = 0]
    BY <1>1, <2>2 DEF Holds, Shaped, InvocationFields
  <2> QED BY <1>5, <2>1, <2>2
<1>7. child[s] = NoChild /\ job[s] = NoJob /\ sender[s].outcome = "none"
  BY <1>1 DEF Holds, Carried
<1>8. ~Active(s) /\ ~Active(s)' /\ ~MaySubmit(s) /\ ~MaySubmit(s)'
  BY <1>1, <1>2, <1>6, <1>7 DEF Active, MaySubmit, InPc, NoChild, NoJob
<1>9. ledger[i].phase \in {"absent", "prepared"} /\ sender[s].gen \in Targets \cup {NoTarget}
  BY <1>1, <1>3 DEF MayPrepare, PreparedRecord, Holds, Shaped
<1>10. PreparedRecord(i, sender[s].gen) \in RecordSet
  BY <1>9 DEF PreparedRecord, RecordSet
<1>11. LedgerTyped' /\ ledger'[i] = PreparedRecord(i, sender[s].gen) /\ \A j \in Handoffs : j # i => ledger'[j] = ledger[j]
  BY <1>1, <1>3, <1>10, LedgerWritten DEF PreparedRecord
<1>12. Holds(s)'
  <2>1. Shaped(s)' BY <1>1, <1>2, <1>6 DEF Holds, Shaped, Natives
  <2>2. Budgeted(s)' BY <1>1, <1>2, <1>6 DEF Holds, Budgeted
  <2>3. Carried(s)' /\ Evident(s)'
    BY <1>1, <1>2, <1>6, <1>7 DEF Holds, Carried, Evident, InPc, NoChild, NoJob
  <2>4. EffectKnown(s)' /\ Recorded(s)'
    BY <1>1, <1>2, <1>6, <1>7, <1>8, <1>11 DEF EffectKnown, Recorded, PreparedRecord, NoChild, NoJob
  <2> QED BY <2>1, <2>2, <2>3, <2>4 DEF Holds
<1>13. \A t \in Senders : (Active(t)' <=> Active(t)) /\ (MaySubmit(t)' <=> MaySubmit(t))
  BY <1>2, <1>4, <1>8 DEF Active, MaySubmit, InPc
<1>14. RecordHolds(i)' /\ OneActive'
  <2>1. \A t \in Senders : sender'[t].id = i => sender[t].id = i BY <1>4
  <2>2. RecordHolds(i)'
    BY <1>1, <1>2, <1>9, <1>11, <1>13, <2>1, OpenRecord DEF RecordHolds, PreparedRecord
  <2>3. OneActive' BY <1>1, <1>4, <1>8, <1>13 DEF OneActive
  <2> QED BY <2>2, <2>3
<1>15. ASSUME NEW t \in Senders, t # s, sender[t].id = i PROVE Recorded(t)'
  <2>1. sender'[t] = sender[t] /\ ~Active(t) /\ Recorded(t)
    BY <1>1, <1>4, <1>9, <1>15, OpenRecord DEF RemoteInv, Holds
  <2>2. sender[t].pc = "prepared" => ledger'[i] = ledger[i]
    BY <1>3, <1>11, <1>15, <2>1 DEF Recorded, MayPrepare
  <2> QED BY <1>11, <1>13, <1>15, <2>1, <2>2 DEF Recorded, PreparedRecord, Active
<1>16. delivered[i] = {} BY <1>1, <1>9, OpenRecord
<1>17. PromiseStep(i)
  <2>1. RemoteLicence(i)' = "open" /\ RemoteLicence(i) = "open"
    BY <1>9, <1>11 DEF PreparedRecord, RemoteLicence
  <2>2. RemoteFact(i)' = "none" /\ RemoteFact(i) = "none"
    BY <1>9, <1>11, OpenRecord DEF RemoteFact, PreparedRecord
  <2> QED BY <1>2, <2>1, <2>2 DEF PromiseStep, RemotePromise!Stay
<1> QED
  BY <1>1, <1>2, <1>4, <1>6, <1>11, <1>12, <1>14, <1>15, <1>16, <1>17, Committed DEF Promised

LEMMA IntentKeeps == ASSUME RemoteInv, NEW s \in Senders, Intend(s) PROVE RemoteInv' /\ Promised
<1>1. /\ Holds(s) /\ RemoteShapes /\ LedgerTyped /\ OneActive
      /\ sender[s].pc = "prepared" /\ sender[s].id \in Handoffs
  BY DEF RemoteInv, Intend, Holds, Shaped, InPc
<1> PICK i \in Handoffs : i = sender[s].id BY <1>1
<1>2. UNCHANGED <<now, child, job, target, boot, delivered>> BY DEF Intend
<1>3. /\ ledger[i].phase = "prepared"
      /\ ledger' = [ledger EXCEPT ![i].phase = "attempted", ![i].submission = "unknown"]
      /\ sender' = [sender EXCEPT ![s].pc = "effect"]
  BY DEF Intend, MayAttempt
<1>4. DOMAIN sender' = Senders /\ \A t \in Senders : t # s => sender'[t] = sender[t]
  BY <1>1, <1>3 DEF RemoteShapes
<1>5. sender'[s] = [sender[s] EXCEPT !.pc = "effect"] BY <1>1, <1>3 DEF RemoteShapes
<1>6. /\ sender'[s].pc = "effect" /\ sender'[s].code = sender[s].code /\ sender'[s].outcome = sender[s].outcome
      /\ sender'[s].id = i /\ sender'[s].cutoff = sender[s].cutoff /\ sender'[s].anchor = sender[s].anchor
      /\ sender'[s].remaining = sender[s].remaining /\ sender'[s].gen = sender[s].gen
      /\ DOMAIN sender'[s] = InvocationFields
  BY <1>1, <1>5 DEF Holds, Shaped, InvocationFields
<1>7. child[s] = NoChild /\ job[s] = NoJob /\ sender[s].outcome = "none"
  BY <1>1 DEF Holds, Carried
<1>8. delivered[i] = {} /\ \A t \in Senders : sender[t].id = i => ~Active(t) /\ ~MaySubmit(t)
  BY <1>3, OpenRecord
<1> DEFINE r == [ledger[i] EXCEPT !.phase = "attempted", !.submission = "unknown"]
<1>9. ledger[i] \in RecordSet /\ ledger' = [ledger EXCEPT ![i] = r]
  BY <1>1, <1>3 DEF LedgerTyped, RecordSet
<1>10. r \in RecordSet /\ r.phase = "attempted" /\ r.submission = "unknown" /\ r.gen = ledger[i].gen
  BY <1>9 DEF RecordSet, Natives
<1> HIDE DEF r
<1>11. LedgerTyped' /\ ledger'[i] = r /\ \A j \in Handoffs : j # i => ledger'[j] = ledger[j]
  BY <1>1, <1>9, <1>10, LedgerWritten
<1>12. ledger[i].gen = sender[s].gen BY <1>1 DEF Holds, Recorded
<1>13. Holds(s)'
  <2>1. Shaped(s)' BY <1>1, <1>2, <1>6 DEF Holds, Shaped, Natives
  <2>2. Budgeted(s)' BY <1>1, <1>2, <1>6 DEF Holds, Budgeted
  <2>3. Carried(s)' /\ Evident(s)'
    BY <1>1, <1>2, <1>6, <1>7 DEF Holds, Carried, Evident, InPc, NoChild, NoJob
  <2>4. EffectKnown(s)' BY <1>2, <1>6, <1>7, <1>8 DEF EffectKnown, NoChild, NoJob
  <2>5. Recorded(s)' BY <1>2, <1>6, <1>10, <1>11, <1>12 DEF Recorded
  <2> QED BY <2>1, <2>2, <2>3, <2>4, <2>5 DEF Holds
<1>14. \A t \in Senders : t # s => (Active(t)' <=> Active(t)) /\ (MaySubmit(t)' <=> MaySubmit(t))
  BY <1>2, <1>4 DEF Active, MaySubmit, InPc
<1>15. RecordHolds(i)' BY <1>10, <1>11 DEF RecordHolds
<1>16. OneActive' BY <1>1, <1>4, <1>6, <1>8, <1>14 DEF OneActive
<1>17. ASSUME NEW t \in Senders, t # s, sender[t].id = i PROVE Recorded(t)'
  <2>1. sender'[t] = sender[t] /\ ~Active(t) /\ Recorded(t)
    BY <1>1, <1>4, <1>8, <1>17 DEF RemoteInv, Holds
  <2> QED BY <1>10, <1>11, <1>14, <1>17, <2>1 DEF Recorded, Active
<1>18. PromiseStep(i)
  <2>1. HeldBy(i)' BY <1>2, <1>6, <1>7 DEF HeldBy, MaySubmit, InPc, NoChild
  <2>2. RemoteLicence(i) = "open" /\ RemoteLicence(i)' = "held"
    BY <1>3, <1>10, <1>11, <2>1 DEF RemoteLicence
  <2>3. RemoteFact(i)' = "none" /\ RemoteFact(i) = "none"
    BY <1>3, <1>10, <1>11, OpenRecord DEF RemoteFact
  <2> QED BY <1>2, <2>2, <2>3 DEF PromiseStep, RemotePromise!Take
<1> QED
  BY <1>1, <1>2, <1>4, <1>6, <1>8, <1>11, <1>13, <1>15, <1>16, <1>17, <1>18, Committed DEF Promised

LEMMA TerminalKeeps == ASSUME RemoteInv, NEW s \in Senders, RecordTerminal(s) PROVE RemoteInv' /\ Promised
<1>1. /\ Holds(s) /\ RemoteShapes /\ LedgerTyped /\ OneActive /\ sender[s].pc = "outcome" /\ sender[s].id \in Handoffs
  BY DEF RemoteInv, RecordTerminal, Holds, Shaped, InPc
<1> PICK i \in Handoffs : i = sender[s].id BY <1>1
<1>2. UNCHANGED <<now, child, job, target, boot, delivered>> BY DEF RecordTerminal
<1>3. /\ sender' = [sender EXCEPT ![s].pc = "over"]
      /\ \/ ledger' = [ledger EXCEPT ![i].phase = "terminal", ![i].submission = sender[s].outcome]
         \/ ledger' = ledger
  BY DEF RecordTerminal
<1>4. DOMAIN sender' = Senders /\ \A t \in Senders : t # s => sender'[t] = sender[t]
  BY <1>1, <1>3 DEF RemoteShapes
<1>5. sender'[s] = [sender[s] EXCEPT !.pc = "over"] BY <1>1, <1>3 DEF RemoteShapes
<1>6. /\ sender'[s].pc = "over" /\ sender'[s].code = sender[s].code /\ sender'[s].outcome = sender[s].outcome
      /\ sender'[s].dry = sender[s].dry
      /\ sender'[s].id = i /\ sender'[s].cutoff = sender[s].cutoff /\ sender'[s].anchor = sender[s].anchor
      /\ sender'[s].remaining = sender[s].remaining /\ sender'[s].gen = sender[s].gen
      /\ DOMAIN sender'[s] = InvocationFields
  BY <1>1, <1>5 DEF Holds, Shaped, InvocationFields
<1>7. /\ sender[s].outcome \in {"submitted", "refused"} => child[s].pc = "over"
      /\ child[s].pc # "none" /\ Active(s) /\ Active(s)' /\ (MaySubmit(s)' <=> MaySubmit(s))
  BY <1>1, <1>2, <1>6 DEF Holds, Shaped, Carried, Active, MaySubmit, InPc
<1>8. \A t \in Senders : (Active(t)' <=> Active(t)) /\ (MaySubmit(t)' <=> MaySubmit(t))
  BY <1>2, <1>4, <1>7 DEF Active, MaySubmit, InPc
<1>9. ASSUME ledger'[i].gen = ledger[i].gen, ledger'[i].phase \in {ledger[i].phase, "terminal"} PROVE Holds(s)'
  <2>1. Shaped(s)' BY <1>1, <1>2, <1>6 DEF Holds, Shaped, Natives
  <2>2. Budgeted(s)' BY <1>1, <1>2, <1>6 DEF Holds, Budgeted
  <2>3. Carried(s)' /\ Evident(s)'
    BY <1>1, <1>2, <1>6, <1>7 DEF Holds, Carried, Evident, InPc
  <2>4. EffectKnown(s)' BY <1>1, <1>2, <1>6, <1>8 DEF Holds, EffectKnown
  <2>5. Recorded(s)' BY <1>1, <1>2, <1>6, <1>8, <1>9 DEF Holds, Recorded
  <2> QED BY <2>1, <2>2, <2>3, <2>4, <2>5 DEF Holds
<1>10. CASE ledger' = ledger
  BY <1>1, <1>2, <1>4, <1>6, <1>7, <1>9, <1>10, Framed DEF RemoteShapes
<1>11. CASE ledger' = [ledger EXCEPT ![i].phase = "terminal", ![i].submission = sender[s].outcome]
  <2> DEFINE r == [ledger[i] EXCEPT !.phase = "terminal", !.submission = sender[s].outcome]
  <2>1. ledger[i].phase = "attempted" /\ ledger[i] \in RecordSet /\ ledger' = [ledger EXCEPT ![i] = r]
    BY <1>1, <1>11 DEF Holds, Recorded, LedgerTyped, RecordSet
  <2>2. sender[s].outcome \in Natives BY <1>1 DEF Holds, Shaped, Carried
  <2>3. r \in RecordSet /\ r.phase = "terminal" /\ r.submission = sender[s].outcome /\ r.gen = ledger[i].gen
    BY <2>1, <2>2 DEF RecordSet
  <2> HIDE DEF r
  <2>4. r.submission # "not_attempted" BY <2>2, <2>3 DEF Natives
  <2>5. LedgerTyped' /\ ledger'[i] = r /\ \A j \in Handoffs : j # i => ledger'[j] = ledger[j]
    BY <1>1, <2>1, <2>3, <2>4, LedgerWritten
  <2>6. RecordHolds(i)'
    <3>1. \A t \in Senders : sender'[t].id = i /\ MaySubmit(t)' => t = s
      <4>1. \A t \in Senders : sender'[t].id = i => sender[t].id = i BY <1>4
      <4>2. \A t \in Senders : MaySubmit(t) => Active(t)
        BY SubmitterActive DEF RemoteInv, Holds
      <4> QED BY <1>1, <1>7, <1>8, <4>1, <4>2 DEF OneActive
    <3>2. sender[s].outcome = "submitted" => delivered[i] # {}
      BY <1>1, <1>7 DEF Holds, EffectKnown
    <3>3. sender[s].outcome = "refused" => delivered[i] = {} /\ ~MaySubmit(s)
      BY <1>1, <1>7 DEF Holds, EffectKnown
    <3> QED BY <1>2, <1>8, <2>3, <2>5, <3>1, <3>2, <3>3 DEF RecordHolds
  <2>7. OneActive' BY <1>1, <1>4, <1>6, <1>8 DEF OneActive
  <2>8. ASSUME NEW t \in Senders, t # s, sender[t].id = i PROVE Recorded(t)'
    <3>1. sender'[t] = sender[t] /\ Recorded(t) BY <1>4, <2>8 DEF RemoteInv, Holds
    <3>2. ~Active(t) BY <1>1, <1>7, <2>8 DEF OneActive
    <3> QED BY <1>8, <2>3, <2>5, <2>8, <3>1, <3>2 DEF Recorded, Active
  <2>9. PromiseStep(i)
    <3>1. HeldBy(i)' <=> HeldBy(i)
      <4>1. \A t \in Senders : sender'[t].id = sender[t].id BY <1>4, <1>6
      <4> QED BY <1>8, <4>1 DEF HeldBy
    <3>2. RemoteLicence(i)' = RemoteLicence(i)
      BY <2>1, <2>3, <2>5, <3>1 DEF RemoteLicence
    <3>3. RemoteFact(i) = "none" BY <1>1, <2>1 DEF RemoteFact, LedgerTyped
    <3>4. CASE sender[s].outcome = "unknown"
      <4>1. RemoteFact(i)' = "none" BY <2>3, <2>5, <3>4 DEF RemoteFact
      <4> QED BY <1>2, <3>2, <3>3, <4>1 DEF PromiseStep, RemotePromise!Stay
    <3>5. CASE sender[s].outcome \in {"submitted", "refused"}
      <4>1. RemoteFact(i)' = sender[s].outcome BY <2>3, <2>5, <3>5 DEF RemoteFact
      <4>2. ~MaySubmit(s) /\ (sender[s].outcome = "submitted" <=> delivered[i] # {})
        BY <1>1, <1>7, <3>5 DEF Holds, EffectKnown
      <4>3. ~HeldBy(i)
        <5>1. \A t \in Senders : MaySubmit(t) => Active(t)
          BY SubmitterActive DEF RemoteInv, Holds
        <5> QED BY <1>1, <1>7, <4>2, <5>1 DEF HeldBy, OneActive
      <4>4. RemoteLicence(i) = "spent" BY <2>1, <4>3 DEF RemoteLicence
      <4>5. Cardinality(delivered[i]) = IF sender[s].outcome = "submitted" THEN 1 ELSE 0
        BY <4>2, SentOnce
      <4> QED BY <1>2, <3>2, <3>5, <4>1, <4>4, <4>5 DEF PromiseStep, RemotePromise!Learn
    <3> QED BY <2>2, <3>4, <3>5 DEF Natives
  <2> QED
    BY <1>1, <1>2, <1>4, <1>6, <1>9, <2>3, <2>5, <2>6, <2>7, <2>8, <2>9, Committed DEF Promised
<1> QED BY <1>3, <1>10, <1>11

(* The one submission.                                                     *)
LEMMA SubmissionKeeps == ASSUME RemoteInv, NEW s \in Senders, RemoteSubmits(s) PROVE RemoteInv' /\ Promised
<1>1. Holds(s) /\ RemoteShapes /\ OneActive /\ job[s].pc = "effect" /\ MaySubmit(s)
  BY DEF RemoteInv, RemoteSubmits, MaySubmit
<1>2. UNCHANGED <<now, ledger, sender, child, target, boot>> BY DEF RemoteSubmits
<1>3. child[s].pc # "none" /\ Active(s) /\ sender[s].id \in Handoffs
  BY <1>1 DEF Holds, Shaped, Carried, NoJob, Active
<1> PICK i \in Handoffs : i = sender[s].id BY <1>3
<1>4. delivered[i] = {} BY <1>1 DEF Holds, EffectKnown
<1> DEFINE e == [by |-> s, at |-> now, gen |-> target]
<1>5. PICK n \in {"submitted", "unknown"} :
        /\ delivered' = [delivered EXCEPT ![i] = {e}]
        /\ job' = [job EXCEPT ![s] = [pc |-> "done", native |-> n]]
  BY <1>4 DEF RemoteSubmits
<1>6. /\ DOMAIN delivered' = Handoffs /\ delivered'[i] = {e} /\ \A j \in Handoffs : j # i => delivered'[j] = delivered[j]
      /\ DOMAIN job' = Senders /\ job'[s] = [pc |-> "done", native |-> n] /\ \A t \in Senders : t # s => job'[t] = job[t]
  BY <1>1, <1>5 DEF RemoteShapes
<1>7. DOMAIN job'[s] = {"pc", "native"} /\ job'[s].pc = "done" /\ job'[s].native = n
  BY <1>6
<1>8. e.by = s /\ e.at = now /\ e.gen = target
  OBVIOUS
<1> HIDE DEF e
<1>9. now < sender[s].cutoff /\ target = sender[s].gen
  BY <1>1 DEF RemoteSubmits, WithinDeadline, RemoteCutoff, SameTarget, Holds, Budgeted, RemoteInv, ClockTyped, Times
<1>10. \A t \in Senders : /\ Active(t)' <=> Active(t)
                          /\ t # s => (MaySubmit(t)' <=> MaySubmit(t))
  BY <1>2, <1>6 DEF Active, MaySubmit, InPc
<1>11. ~MaySubmit(s)' BY <1>1, <1>2, <1>3, <1>7 DEF MaySubmit, InPc
<1>12. Holds(s)'
  <2>1. Shaped(s)' BY <1>1, <1>2, <1>7 DEF Holds, Shaped, Natives
  <2>2. Budgeted(s)' /\ Evident(s)'
    BY <1>1, <1>2 DEF Holds, Budgeted, Carried, Evident, InPc
  <2>3. Carried(s)' BY <1>1, <1>2, <1>3, <1>7 DEF Holds, Carried
  <2>4. EffectKnown(s)' BY <1>1, <1>2, <1>6, <1>7, <1>11 DEF Holds, EffectKnown
  <2>5. Recorded(s)' BY <1>1, <1>2, <1>10 DEF Holds, Recorded
  <2> QED BY <2>1, <2>2, <2>3, <2>4, <2>5 DEF Holds
<1>13. ASSUME NEW t \in Senders, t # s PROVE Holds(t)'
  <2>1. Holds(t) /\ job'[t] = job[t] BY <1>6, <1>13 DEF RemoteInv
  <2>2. Shaped(t)' /\ Budgeted(t)' /\ Carried(t)' /\ Evident(t)'
    BY <1>2, <2>1 DEF Holds, Shaped, Budgeted, Carried, Evident, InPc
  <2>3. Recorded(t)' BY <1>2, <1>10, <2>1 DEF Holds, Recorded
  <2>4. EffectKnown(t)'
    <3>1. CASE ~Active(t)
      BY <1>2, <1>10, <1>13, <2>1, <3>1, SubmitterActive DEF EffectKnown, Holds, Carried, Active, NoJob
    <3>2. CASE Active(t)
      <4>1. sender[t].id # i /\ sender[t].id \in Handoffs
        BY <1>1, <1>3, <1>13, <2>1, <3>2 DEF OneActive, Holds, Shaped, Carried, Active
      <4> QED BY <1>2, <1>6, <1>10, <1>13, <2>1, <4>1 DEF EffectKnown, Holds
    <3> QED BY <3>1, <3>2
  <2> QED BY <2>2, <2>3, <2>4 DEF Holds
<1>14. ASSUME NEW j \in Handoffs PROVE RecordHolds(j)' /\ DeliveredHold(j)'
  <2>1. RecordHolds(j) /\ DeliveredHold(j) BY DEF RemoteInv
  <2>2. CASE j # i
    BY <1>1, <1>2, <1>6, <1>7, <1>10, <1>11, <2>1, <2>2 DEF RecordHolds, DeliveredHold
  <2>3. CASE j = i
    <3>1. ledger[i].phase \in {"attempted", "terminal"} /\ ledger[i].gen = sender[s].gen
      BY <1>1, <1>3 DEF Holds, Recorded
    <3>2. RecordHolds(i)' BY <1>1, <1>2, <1>6, <2>1, <2>3, <3>1 DEF RecordHolds
    <3>3. DeliveredHold(i)' BY <1>2, <1>6, <1>7, <1>8, <1>9, <3>1 DEF DeliveredHold
    <3> QED BY <2>3, <3>2, <3>3
  <2> QED BY <2>2, <2>3
<1>15. ClockTyped' /\ LedgerTyped' /\ RemoteShapes' /\ OneActive'
  BY <1>1, <1>2, <1>6, <1>10 DEF RemoteInv, ClockTyped, LedgerTyped, RemoteShapes, OneActive
<1>16. ASSUME NEW j \in Handoffs PROVE PromiseStep(j)
  <2>1. HeldBy(j)' => HeldBy(j) BY <1>2, <1>10, <1>11 DEF HeldBy
  <2>2. CASE j # i BY <1>2, <1>6, <2>1, <2>2, SentOnce, Eased
  <2>3. CASE j = i
    <3>1. HeldBy(i) /\ ~HeldBy(i)'
      <4>1. \A t \in Senders : MaySubmit(t) => Active(t)
        BY SubmitterActive DEF RemoteInv, Holds
      <4>2. \A t \in Senders : sender[t].id = i /\ MaySubmit(t) => t = s
        BY <1>1, <1>3, <4>1 DEF OneActive
      <4>3. ~HeldBy(i)' BY <1>2, <1>10, <1>11, <4>2 DEF HeldBy
      <4> QED BY <1>1, <4>3 DEF HeldBy
    <3>2. ledger[i].phase \in {"attempted", "terminal"}
      BY <1>1, <1>3 DEF Holds, Recorded
    <3>3. RemoteLicence(i) = "held" /\ RemoteLicence(i)' = "spent"
      BY <1>2, <3>1, <3>2 DEF RemoteLicence
    <3>4. Cardinality(delivered[i]) = 0 /\ Cardinality(delivered'[i]) = 1
      BY <1>4, <1>6, FS_EmptySet, FS_Singleton
    <3>5. RemoteFact(i)' = RemoteFact(i) BY <1>2 DEF RemoteFact
    <3> QED BY <2>3, <3>3, <3>4, <3>5 DEF PromiseStep, RemotePromise!Use
  <2> QED BY <2>2, <2>3
<1> QED BY <1>12, <1>13, <1>14, <1>15, <1>16 DEF RemoteInv, Promised

(* Time, and what happens at the remote host.                              *)
LEMMA SurroundingsKeep == ASSUME RemoteInv, RemoteTick \/ TargetRestarts PROVE RemoteInv' /\ Promised
<1>1. UNCHANGED <<ledger, sender, child, job, boot, delivered>>
  BY DEF RemoteTick, TargetRestarts
<1>2. ClockTyped' /\ now <= now' /\ now \in Nat /\ now' \in Nat
  BY RemoteBounds DEF RemoteTick, TargetRestarts, RemoteInv, ClockTyped, Times, Targets
<1>3. \A t \in Senders : (Active(t)' <=> Active(t)) /\ (MaySubmit(t)' <=> MaySubmit(t))
  BY <1>1 DEF Active, MaySubmit, InPc
<1>4. ASSUME NEW t \in Senders PROVE Holds(t)'
  <2>1. Holds(t) BY DEF RemoteInv
  <2>2. Budgeted(t)' BY <1>1, <1>2, <2>1 DEF Holds, Budgeted
  <2>3. Shaped(t)' /\ Carried(t)' /\ Evident(t)'
    BY <1>1, <2>1 DEF Holds, Shaped, Carried, Evident, InPc
  <2>4. EffectKnown(t)' /\ Recorded(t)'
    BY <1>1, <1>3, <2>1 DEF Holds, EffectKnown, Recorded
  <2> QED BY <2>2, <2>3, <2>4 DEF Holds
<1>5. LedgerTyped' /\ RemoteShapes' /\ OneActive'
  BY <1>1, <1>3 DEF RemoteInv, LedgerTyped, RemoteShapes, OneActive
<1>6. \A i \in Handoffs : RecordHolds(i)' /\ DeliveredHold(i)'
  BY <1>1, <1>3 DEF RemoteInv, RecordHolds, DeliveredHold
<1>7. ASSUME NEW i \in Handoffs PROVE PromiseStep(i)
  BY <1>1, <1>3, SentOnce, Eased DEF HeldBy
<1> QED BY <1>2, <1>4, <1>5, <1>6, <1>7 DEF RemoteInv, Promised

LEMMA RebootKeeps == ASSUME RemoteInv, RemoteReboots PROVE RemoteInv' /\ Promised
<1>1. UNCHANGED <<now, ledger, sender, child, delivered>> BY DEF RemoteReboots
<1>2. ClockTyped' BY RemoteBounds DEF RemoteReboots, RemoteInv, ClockTyped, Targets
<1>3. ASSUME NEW t \in Senders
      PROVE  /\ Active(t)' <=> Active(t)
             /\ MaySubmit(t)' => MaySubmit(t)
             /\ job'[t] = job[t] \/ (job[t].pc \in {"queued", "effect"} /\ job'[t] = [pc |-> "done", native |-> "none"])
  <2>1. job'[t] = IF job[t].pc \in {"queued", "effect"} THEN [pc |-> "done", native |-> "none"] ELSE job[t]
    BY DEF RemoteReboots
  <2> QED BY <1>1, <2>1 DEF Active, MaySubmit, InPc
<1>4. ASSUME NEW t \in Senders PROVE Holds(t)'
  <2>1. Holds(t) BY DEF RemoteInv
  <2>2. CASE job'[t] = job[t]
    <3>1. MaySubmit(t)' <=> MaySubmit(t) BY <1>1, <2>2 DEF MaySubmit, InPc
    <3>2. Shaped(t)' /\ Budgeted(t)' /\ Carried(t)' /\ Evident(t)'
      BY <1>1, <2>1, <2>2 DEF Holds, Shaped, Budgeted, Carried, Evident, InPc
    <3>3. EffectKnown(t)' /\ Recorded(t)'
      BY <1>1, <1>3, <2>1, <2>2, <3>1 DEF Holds, EffectKnown, Recorded
    <3> QED BY <3>2, <3>3 DEF Holds
  <2>3. CASE job[t].pc \in {"queued", "effect"} /\ job'[t] = [pc |-> "done", native |-> "none"]
    <3>1. DOMAIN job'[t] = {"pc", "native"} /\ job'[t].pc = "done" /\ job'[t].native = "none"
      BY <2>3
    <3>2. Shaped(t)' /\ Budgeted(t)' /\ Evident(t)'
      BY <1>1, <2>1, <2>3, <3>1 DEF Holds, Shaped, Budgeted, Carried, Evident, InPc
    <3>3. Carried(t)' BY <1>1, <2>1, <2>3, <3>1 DEF Holds, Carried, NoJob
    <3>4. EffectKnown(t)' /\ Recorded(t)'
      BY <1>1, <1>3, <2>1, <3>1 DEF Holds, EffectKnown, Recorded
    <3> QED BY <3>2, <3>3, <3>4 DEF Holds
  <2> QED BY <1>3, <2>2, <2>3
<1>5. LedgerTyped' /\ RemoteShapes' /\ OneActive'
  <2>1. DOMAIN job' = Senders BY DEF RemoteReboots
  <2> QED BY <1>1, <1>3, <2>1 DEF RemoteInv, LedgerTyped, RemoteShapes, OneActive
<1>6. ASSUME NEW i \in Handoffs PROVE RecordHolds(i)' /\ DeliveredHold(i)'
  <2>1. RecordHolds(i) /\ DeliveredHold(i) BY DEF RemoteInv
  <2>2. RecordHolds(i)' BY <1>1, <1>3, <2>1 DEF RecordHolds
  <2>3. \A t \in Senders : job[t].pc = "done" => job'[t].pc = "done" BY <1>3
  <2>4. DeliveredHold(i)' BY <1>1, <2>1, <2>3 DEF DeliveredHold
  <2> QED BY <2>2, <2>4
<1>7. ASSUME NEW i \in Handoffs PROVE PromiseStep(i)
  BY <1>1, <1>3, SentOnce, Eased DEF HeldBy
<1> QED BY <1>2, <1>4, <1>5, <1>6, <1>7 DEF RemoteInv, Promised

LEMMA RemoteStep == RemoteInv /\ [RemoteNext]_remoteVars => RemoteInv' /\ Promised
<1> SUFFICES ASSUME RemoteInv, [RemoteNext]_remoteVars PROVE RemoteInv' /\ Promised
  OBVIOUS
<1>1. CASE \E s \in Senders : \/ \E i \in Handoffs : SendOverSsh(s, i)
                              \/ PrepareToRefuse(s) \/ RefuseEarly(s)
                              \/ RemoteProbe(s) \/ ProbeAnswered(s) \/ StopsBefore(s)
                              \/ PrepareIntent(s) \/ Intend(s)
  BY <1>1, StartKeeps, RefusalPrepared, RefusalKeeps, ProbeKeeps, PreparationKeeps, IntentKeeps
<1>2. CASE \E s \in Senders : \/ NotSpawned(s) \/ Spawned(s) \/ KeySeen(s) \/ SourceStreamed(s) \/ ChildEnds(s)
                              \/ RemoteStarts(s) \/ RemoteSubmits(s) \/ RemoteFails(s)
                              \/ Binds(s) \/ Classify(s) \/ SenderInterrupted(s) \/ RecordTerminal(s) \/ SenderKilled(s)
  BY <1>2, ChildKeeps, CommandKeeps, SubmissionKeeps, BindsKeeps, ClassifyKeeps, TerminalKeeps, DeathKeeps
<1>3. CASE RemoteTick \/ TargetRestarts \/ RemoteReboots
  BY <1>3, SurroundingsKeep, RebootKeeps
<1>4. CASE UNCHANGED remoteVars
  <2>1. UNCHANGED <<now, ledger, sender, child, job, target, boot, delivered>>
    BY <1>4 DEF remoteVars
  <2>2. \A t \in Senders : (Active(t)' <=> Active(t)) /\ (MaySubmit(t)' <=> MaySubmit(t))
    BY <2>1 DEF Active, MaySubmit, InPc
  <2>3. \A t \in Senders : Holds(t)'
    <3> SUFFICES ASSUME NEW t \in Senders PROVE Holds(t)'
      OBVIOUS
    <3>1. Holds(t) BY DEF RemoteInv
    <3>2. Shaped(t)' /\ Budgeted(t)' /\ Carried(t)' /\ Evident(t)'
      BY <2>1, <3>1 DEF Holds, Shaped, Budgeted, Carried, Evident, InPc
    <3>3. EffectKnown(t)' /\ Recorded(t)'
      BY <2>1, <2>2, <3>1 DEF Holds, EffectKnown, Recorded
    <3> QED BY <3>2, <3>3 DEF Holds
  <2>4. Promised BY <2>1, <2>2, SentOnce, Eased DEF HeldBy, Promised
  <2> QED
    BY <2>1, <2>2, <2>3, <2>4 DEF RemoteInv, ClockTyped, LedgerTyped, RemoteShapes, OneActive, RecordHolds, DeliveredHold
<1> QED BY <1>1, <1>2, <1>3, <1>4 DEF RemoteNext

LEMMA RemoteInvariance == RemoteSpec => []RemoteInv
  BY RemoteInitially, RemoteStep, PTL DEF RemoteSpec

LEMMA RemoteSound ==
  RemoteInv => /\ RemoteTypeOK /\ RemoteOutcomesTrue /\ EffectBeforeCutoff
               /\ RecordedTargetOnly /\ EvidenceKept /\ ExitsTrue
<1> SUFFICES ASSUME RemoteInv
             PROVE  /\ RemoteTypeOK /\ RemoteOutcomesTrue /\ EffectBeforeCutoff
                    /\ RecordedTargetOnly /\ EvidenceKept /\ ExitsTrue
  OBVIOUS
<1>1. /\ ClockTyped /\ LedgerTyped /\ \A s \in Senders : Holds(s)
      /\ \A i \in Handoffs : RecordHolds(i) /\ DeliveredHold(i)
  BY DEF RemoteInv
<1>2. RemoteTypeOK BY <1>1 DEF RemoteTypeOK, ClockTyped, LedgerTyped, Holds, Shaped
<1>3. RemoteOutcomesTrue
  <2> SUFFICES ASSUME NEW i \in Handoffs
               PROVE  /\ "submitted" \in Claims(i) => delivered[i] # {}
                      /\ "refused" \in Claims(i) => delivered[i] = {}
    BY DEF RemoteOutcomesTrue
  <2>1. ASSUME NEW s \in Senders, sender[s].id = i, InPc(s, "over"), child[s].pc = "over"
        PROVE  /\ sender[s].outcome = "submitted" => delivered[i] # {}
               /\ sender[s].outcome = "refused" => delivered[i] = {}
    BY <1>1, <2>1 DEF Holds, EffectKnown
  <2> QED BY <1>1, <2>1 DEF Claims, RecordHolds
<1>4. EffectBeforeCutoff /\ RecordedTargetOnly
  BY <1>1 DEF EffectBeforeCutoff, RecordedTargetOnly, DeliveredHold
<1>5. EvidenceKept BY <1>1 DEF EvidenceKept, Holds, Evident
<1>6. ExitsTrue
  <2> SUFFICES ASSUME NEW s \in Senders, InPc(s, "over"), sender[s].code = 0, ~sender[s].dry
               PROVE  \E e \in delivered[sender[s].id] : e.by = s
    BY DEF ExitsTrue
  <2>1. Holds(s) /\ job[s].native = "submitted" /\ sender[s].id \in Handoffs
    BY <1>1 DEF Holds, Shaped, Evident, InPc
  <2>2. PICK e \in delivered[sender[s].id] : TRUE BY <2>1 DEF Holds, EffectKnown
  <2>3. e.by \in Senders /\ sender[e.by].id = sender[s].id /\ job[e.by].pc = "done"
    BY <1>1, <2>1 DEF DeliveredHold
  <2>4. Active(s) /\ Active(e.by) BY <1>1, <2>1, <2>3 DEF Holds, Carried, Active, NoJob
  <2> QED BY <2>3, <2>4 DEF RemoteInv, OneActive
<1> QED BY <1>2, <1>3, <1>4, <1>5, <1>6

LEMMA RemoteRefines == RemoteSpec => RemoteKeepsPromise
<1>1. RemoteInit => RemotePromise!Init
  BY FS_EmptySet DEF RemoteInit, RemotePromise!Init, RemoteLicence, RemoteFact, NoRecord
<1>2. RemoteInv /\ [RemoteNext]_remoteVars => [RemotePromise!Next]_(RemotePromise!promise)
  BY RemoteStep DEF Promised, PromiseStep, RemotePromise!Next
<1> QED
  BY <1>1, <1>2, RemoteInvariance, PTL DEF RemoteSpec, RemoteKeepsPromise, RemotePromise!Spec

(* Two and more invocations of `send --host` with one correlation id, with *)
(* deaths of the sender, reboots and replaced targets at the remote host:  *)
(* at most one submits, before its cutoff and to the recorded target; what *)
(* is told and recorded is true and stays so, the exit code 0 included; an *)
(* answer is lost to nothing but an interrupt of the sender, which reports *)
(* unknown; and the whole keeps the promise of a correlated handoff.       *)
THEOREM RemoteHandoffSafe == RemoteSpec => RemoteSafe
  BY RemoteInvariance, RemoteSound, RemoteRefines, PTL DEF RemoteSafe

-----------------------------------------------------------------------------
(* The book of routes and recipients.                                      *)

BookFields == {"pc", "op", "file", "name", "given", "route", "seen", "label", "base", "told"}
BookPlaces == {"start", "lookup", "preset", "probe", "recheck", "lock", "read", "replace", "sync", "again", "route",
               "effect", "done"}
BookShapes ==
  /\ DOMAIN cmd = Users /\ DOMAIN since = Users /\ DOMAIN reached = Users
  /\ DOMAIN book = Files /\ DOMAIN older = Files /\ DOMAIN locked = Files
Versions(f) == older[f] \cup {book[f]}

(* Where a command may be, and with which file and operation.              *)
CommandPlaced(p) ==
  /\ DOMAIN cmd[p] = BookFields /\ cmd[p].pc \in BookPlaces
  /\ cmd[p].pc # "start" => cmd[p].file \in Files
  /\ cmd[p].pc \notin {"start", "done"} /\ cmd[p].file = "addresses" =>
       cmd[p].op \in {"add", "reselect", "send", "remove"}
  /\ cmd[p].pc \in {"lookup", "preset", "probe", "recheck", "again", "route", "effect"} =>
       cmd[p].file = "addresses" /\ cmd[p].op # "remove"
  /\ cmd[p].pc \in {"again", "route", "effect"} => cmd[p].op = "send"
  /\ cmd[p].pc \in {"recheck", "lock", "read", "replace", "sync"} => cmd[p].op # "send"
(* Its lock is its own, and what it will write was judged as the file is.  *)
Judged(p) == \A e, m : cmd[p].base.entries = e /\ Mutated(p, e) = m => ~DuplicateLabel(cmd[p].file, m)
HoldsFile(p) ==
  /\ cmd[p].pc \in {"read", "replace", "sync"} => locked[cmd[p].file] = {p}
  /\ cmd[p].pc = "replace" => cmd[p].base = book[cmd[p].file] /\ Judged(p)
(* Its change is in no file before it writes; in all that may come back    *)
(* once it was confirmed.                                                  *)
LogTrue(p) ==
  /\ cmd[p].pc \in BookPlaces \ {"sync", "done"} =>
       cmd[p].told = "" /\ \A f \in Files : \A v \in Versions(f) : p \notin v.log
  /\ cmd[p].pc = "sync" => cmd[p].told = "" /\ p \in book[cmd[p].file].log
  /\ cmd[p].told = "refused" => \A f \in Files : \A v \in Versions(f) : p \notin v.log
  /\ cmd[p].told = "ok" => cmd[p].file \in Files /\ \A v \in Versions(cmd[p].file) : p \in v.log
Followed(p) ==
  p \in Looking => Routes(book) \subseteq since[p].routes /\ Bindings(book) \subseteq since[p].bindings
Routed(p) ==
  cmd[p].file = "addresses" /\ cmd[p].op # "remove" /\
  (cmd[p].pc \in {"lock", "read", "replace", "sync"} \/ cmd[p].told = "ok") => cmd[p].route \in since[p].routes
(* A binding stands for what its command bound.                            *)
StandsFor(b, route, seen) ==
  IF b = 0 THEN seen = 0
  ELSE b \in Users /\ cmd[b].pc \in {"sync", "done"} /\ cmd[b].route = route /\ cmd[b].seen = seen
SendBound(p) ==
  /\ cmd[p].op = "send" /\ cmd[p].pc \in {"preset", "probe", "again", "route", "effect"} =>
       StandsFor(cmd[p].given.binding, cmd[p].route, cmd[p].seen)
  /\ cmd[p].pc \in {"route", "effect"} => cmd[p].given.binding \in since[p].bindings
  /\ cmd[p].pc = "effect" => cmd[p].route \in since[p].routes
SentRight(p) ==
  reached[p] # <<>> =>
    /\ cmd[p].pc = "done" /\ reached[p] = <<cmd[p].route, cmd[p].seen>>
    /\ cmd[p].given.binding \in since[p].bindings /\ cmd[p].route \in since[p].routes
    /\ StandsFor(cmd[p].given.binding, cmd[p].route, cmd[p].seen)
CommandRight(p) ==
  CommandPlaced(p) /\ HoldsFile(p) /\ LogTrue(p) /\ Followed(p) /\ Routed(p) /\ SendBound(p) /\ SentRight(p)

LabelsApart == \A v \in Versions("addresses") : ~DuplicateLabel("addresses", v.entries)
EntryBound(e) == StandsFor(e.binding, e.route, e.seen)
EntriesBound == \A v \in Versions("addresses") : \A n \in DOMAIN v.entries : EntryBound(v.entries[n])
BookInv == BookShapes /\ (\A p \in Users : CommandRight(p)) /\ LabelsApart /\ EntriesBound

-----------------------------------------------------------------------------
LEMMA SameMutation ==
  ASSUME NEW q, NEW e, cmd'[q] = cmd[q]
  PROVE  Mutated(q, e)' = Mutated(q, e)
BY DEF Mutated, NewEntry

LEMMA StandsOn ==
  ASSUME \A b \in Users : cmd[b].pc \in {"sync", "done"} =>
           cmd'[b].pc \in {"sync", "done"} /\ cmd'[b].route = cmd[b].route /\ cmd'[b].seen = cmd[b].seen,
         NEW b, NEW r, NEW s, StandsFor(b, r, s)
  PROVE  StandsFor(b, r, s)'
BY DEF StandsFor

(* A step of one command that leaves the files as they are.                *)
LEMMA CommandMoves ==
  ASSUME BookInv, NEW p \in Users, NEW c, cmd' = [cmd EXCEPT ![p] = c],
         book' = book, DOMAIN older' = Files, \A f \in Files : older'[f] \subseteq older[f],
         DOMAIN since' = Users, DOMAIN reached' = Users, DOMAIN locked' = Files,
         \A q \in Users \ {p} : /\ since'[q] = since[q] /\ reached'[q] = reached[q]
                                /\ \A f \in Files : locked[f] = {q} => locked'[f] = {q},
         cmd[p].pc \in {"sync", "done"} =>
           c.pc \in {"sync", "done"} /\ c.route = cmd[p].route /\ c.seen = cmd[p].seen,
         CommandRight(p)'
  PROVE  BookInv'
<1> USE DEF BookInv
<1>1. DOMAIN cmd' = Users /\ cmd'[p] = c /\ \A q \in Users \ {p} : cmd'[q] = cmd[q] BY DEF BookShapes
<1>2. BookShapes' BY <1>1 DEF BookShapes
<1>3. \A b \in Users : cmd[b].pc \in {"sync", "done"} =>
        cmd'[b].pc \in {"sync", "done"} /\ cmd'[b].route = cmd[b].route /\ cmd'[b].seen = cmd[b].seen
  BY <1>1
<1>4. \A b, r, s : StandsFor(b, r, s) => StandsFor(b, r, s)' BY <1>3, StandsOn
<1>5. \A f \in Files : \A v \in Versions(f)' : v \in Versions(f) BY DEF Versions
<1>6. ASSUME NEW q \in Users \ {p} PROVE CommandRight(q)'
  <2>1. cmd'[q] = cmd[q] /\ since'[q] = since[q] /\ reached'[q] = reached[q] BY <1>1, <1>6
  <2>2. CommandRight(q) BY <1>6
  <2> USE DEF CommandRight
  <2>3. CommandPlaced(q)' BY <2>1, <2>2 DEF CommandPlaced
  <2>4. HoldsFile(q)'
    <3>1. Judged(q) => Judged(q)' BY <2>1, SameMutation DEF Judged
    <3>2. cmd[q].pc \in {"read", "replace", "sync"} => cmd[q].file \in Files /\ locked[cmd[q].file] = {q}
      BY <2>2 DEF HoldsFile, CommandPlaced
    <3>3. \A f \in Files : locked[f] = {q} => locked'[f] = {q} BY <1>6
    <3> QED BY <2>1, <2>2, <3>1, <3>2, <3>3 DEF HoldsFile
  <2>5. LogTrue(q)'
    <3>1. cmd[q].told = "ok" => cmd[q].file \in Files BY <2>2 DEF LogTrue
    <3> QED BY <1>5, <2>1, <2>2, <3>1 DEF LogTrue
  <2>6. Followed(q)' /\ Routed(q)' BY <2>1, <2>2 DEF Followed, Routed, Looking, Routes, Bindings
  <2>7. SendBound(q)' BY <1>4, <2>1, <2>2 DEF SendBound
  <2>8. SentRight(q)' BY <1>4, <2>1, <2>2 DEF SentRight
  <2> QED BY <2>3, <2>4, <2>5, <2>6, <2>7, <2>8
<1>7. "addresses" \in Files BY DEF Files
<1>8. LabelsApart' BY <1>5, <1>7 DEF LabelsApart, DuplicateLabel
<1>9. EntriesBound' BY <1>4, <1>5, <1>7 DEF EntriesBound, EntryBound
<1> QED BY <1>2, <1>6, <1>8, <1>9

LEMMA WaitingFields ==
  /\ DOMAIN Waiting = BookFields /\ Waiting.pc = "start" /\ Waiting.op = "" /\ Waiting.told = "" /\ Waiting.file = ""
BY DEF Waiting, BookFields

(* A command that gives up before its write.                               *)
LEMMA GivesUp ==
  ASSUME BookInv, NEW p \in Users, cmd[p].pc \notin {"start", "sync", "done"}, NEW say \in {"refused", "nothing"},
         cmd' = [cmd EXCEPT ![p] = Forgotten(p, say)], locked' = Unlocked(p),
         book' = book, older' = older, reached' = reached, since' = since
  PROVE  BookInv'
<1>1. PICK c : c = Forgotten(p, say) OBVIOUS
<1>2. /\ DOMAIN c = BookFields /\ c.pc = "done" /\ c.op = "" /\ c.told = say /\ c.file = cmd[p].file
  BY <1>1, WaitingFields DEF Forgotten, BookFields
<1>3. BookShapes /\ CommandRight(p) BY DEF BookInv
<1>4. cmd'[p] = c BY <1>1, <1>3 DEF BookShapes
<1>5. DOMAIN locked' = Files /\ \A q \in Users \ {p}, f \in Files : locked[f] = {q} => locked'[f] = {q}
  BY DEF Unlocked
<1>6. cmd[p].pc \in BookPlaces \ {"sync", "done"} BY <1>3 DEF CommandRight, CommandPlaced
<1>7. CommandPlaced(p)' BY <1>2, <1>3, <1>4 DEF CommandRight, CommandPlaced, BookPlaces
<1>8. HoldsFile(p)' BY <1>2, <1>4 DEF HoldsFile
<1>9. LogTrue(p)' BY <1>2, <1>3, <1>4, <1>6 DEF LogTrue, CommandRight, Versions
<1>10. Followed(p)' BY <1>2, <1>4 DEF Followed, Looking
<1>11. Routed(p)' /\ SendBound(p)' BY <1>2, <1>4 DEF Routed, SendBound
<1>12. SentRight(p)' BY <1>3 DEF SentRight, CommandRight
<1>13. CommandRight(p)' BY <1>7, <1>8, <1>9, <1>10, <1>11, <1>12 DEF CommandRight
<1> QED BY <1>1, <1>3, <1>5, <1>13, CommandMoves DEF BookShapes

LEMMA SameFieldsMutation ==
  ASSUME NEW p, NEW e, cmd'[p].op = cmd[p].op, cmd'[p].file = cmd[p].file, cmd'[p].name = cmd[p].name,
         cmd'[p].route = cmd[p].route, cmd'[p].label = cmd[p].label, cmd'[p].seen = cmd[p].seen
  PROVE  Mutated(p, e)' = Mutated(p, e)
BY DEF Mutated, NewEntry

(* A step of one command that touches neither files nor locks.             *)
LEMMA CommandOnly ==
  ASSUME BookInv, NEW p \in Users, NEW c, cmd' = [cmd EXCEPT ![p] = c], locked' = locked,
         book' = book, older' = older, reached' = reached, cmd[p].pc \notin {"sync", "done"},
         DOMAIN since' = Users, \A q \in Users \ {p} : since'[q] = since[q],
         CommandRight(p)'
  PROVE  BookInv'
<1>1. BookShapes BY DEF BookInv
<1> QED BY <1>1, CommandMoves DEF BookShapes

LEMMA Early ==
  ASSUME BookInv, NEW p \in Users, cmd[p].pc \notin {"sync", "done"}
  PROVE  /\ cmd[p].pc \in BookPlaces \ {"sync", "done"} /\ reached[p] = <<>> /\ cmd[p].told = ""
         /\ \A f \in Files : \A v \in Versions(f) : p \notin v.log
         /\ DOMAIN cmd[p] = BookFields /\ DOMAIN cmd = Users
BY DEF BookInv, BookShapes, CommandRight, CommandPlaced, SentRight, LogTrue

LEMMA BookBegins == ASSUME BookInv, NEW p \in Users, Begin(p) PROVE BookInv'
<1>1. cmd[p].pc = "start" /\ UNCHANGED <<book, older, locked, session, reached, since>> BY DEF Begin, IsAt
<1>2. /\ reached[p] = <<>> /\ cmd[p].told = "" /\ \A f \in Files : \A v \in Versions(f) : p \notin v.log
      /\ DOMAIN cmd[p] = BookFields /\ DOMAIN cmd = Users
  BY <1>1, Early
<1>3. PICK k \in Choices :
        cmd' = [cmd EXCEPT ![p] = [@ EXCEPT !.pc = FirstRead(k), !.op = k.op, !.file = k.file, !.name = k.name,
                                            !.given = k.given, !.label = k.label, !.route = k.route,
                                            !.seen = k.seen]]
  BY DEF Begin
<1>4. PICK c : c = [cmd[p] EXCEPT !.pc = FirstRead(k), !.op = k.op, !.file = k.file, !.name = k.name,
                                  !.given = k.given, !.label = k.label, !.route = k.route, !.seen = k.seen]
  OBVIOUS
<1>5. DOMAIN c = BookFields /\ c.pc = FirstRead(k) /\ c.op = k.op /\ c.file = k.file /\ c.told = ""
  BY <1>2, <1>4 DEF BookFields
<1>6. cmd' = [cmd EXCEPT ![p] = c] /\ cmd'[p] = c BY <1>2, <1>3, <1>4
<1>7. /\ k.file \in Files /\ (k.op \in {"reselect", "send"} => k.file = "addresses")
      /\ (k.file = "addresses" => k.op \in {"add", "reselect", "send", "remove"})
  BY BookAssumption DEF Files
<1>8. /\ c.pc \in {"lookup", "preset", "lock"}
      /\ c.pc = "lookup" <=> c.op \in {"reselect", "send"}
      /\ c.pc = "preset" => c.op = "add" /\ c.file = "addresses"
      /\ c.pc = "lock" => ~(c.op = "add" /\ c.file = "addresses")
  BY <1>5 DEF FirstRead
<1>9. CommandPlaced(p)' BY <1>5, <1>6, <1>7, <1>8 DEF CommandPlaced, BookPlaces
<1>10. HoldsFile(p)' BY <1>6, <1>8 DEF HoldsFile
<1>11. LogTrue(p)' BY <1>1, <1>2, <1>5, <1>6, <1>8 DEF LogTrue, Versions
<1>12. Followed(p)' BY <1>6, <1>8 DEF Followed, Looking
<1>13. Routed(p)' BY <1>5, <1>6, <1>7, <1>8 DEF Routed
<1>14. SendBound(p)' BY <1>6, <1>8 DEF SendBound
<1>15. SentRight(p)' BY <1>1, <1>2 DEF SentRight
<1>16. CommandRight(p)' BY <1>9, <1>10, <1>11, <1>12, <1>13, <1>14, <1>15 DEF CommandRight
<1>17. BookShapes BY DEF BookInv
<1> QED BY <1>1, <1>6, <1>16, <1>17, CommandOnly DEF BookShapes

(* A command on its way to its write or its effect: what must be shown.    *)
LEMMA OnItsWay ==
  ASSUME BookInv, NEW p \in Users, cmd[p].pc \notin {"start", "sync", "done"},
         NEW pc \in {"preset", "probe", "recheck", "again", "route", "effect", "lock"}, NEW r, NEW s, NEW l,
         cmd' = [cmd EXCEPT ![p] = [cmd[p] EXCEPT !.pc = pc, !.route = r, !.seen = s, !.label = l]],
         UNCHANGED <<book, older, locked, session, reached>>,
         DOMAIN since' = Users, \A q \in Users \ {p} : since'[q] = since[q],
         cmd[p].file = "addresses", cmd[p].op # "remove",
         pc \in {"again", "route", "effect"} => cmd[p].op = "send",
         pc \in {"recheck", "lock"} => cmd[p].op # "send",
         pc \in {"recheck", "again", "route"} =>
           Routes(book) \subseteq since'[p].routes /\ Bindings(book) \subseteq since'[p].bindings,
         pc \in {"lock", "effect"} => r \in since'[p].routes,
         pc \in {"route", "effect"} => cmd[p].given.binding \in since'[p].bindings,
         cmd[p].op = "send" => StandsFor(cmd[p].given.binding, r, s)
  PROVE  BookInv'
<1>1. /\ reached[p] = <<>> /\ cmd[p].told = "" /\ \A f \in Files : \A v \in Versions(f) : p \notin v.log
      /\ DOMAIN cmd[p] = BookFields /\ DOMAIN cmd = Users
  BY Early
<1>2. PICK c : c = [cmd[p] EXCEPT !.pc = pc, !.route = r, !.seen = s, !.label = l] OBVIOUS
<1>3. /\ DOMAIN c = BookFields /\ c.pc = pc /\ c.op = cmd[p].op /\ c.file = cmd[p].file /\ c.told = ""
      /\ c.route = r /\ c.seen = s /\ c.given = cmd[p].given
  BY <1>1, <1>2 DEF BookFields
<1>4. cmd' = [cmd EXCEPT ![p] = c] /\ cmd'[p] = c BY <1>1, <1>2
<1>5. cmd[p].op \in {"add", "reselect", "send", "remove"} /\ cmd[p].file \in Files
  BY DEF BookInv, CommandRight, CommandPlaced
<1>6. CommandPlaced(p)' BY <1>3, <1>4, <1>5 DEF CommandPlaced, BookPlaces
<1>7. HoldsFile(p)' BY <1>3, <1>4 DEF HoldsFile
<1>8. LogTrue(p)' BY <1>1, <1>3, <1>4 DEF LogTrue, Versions
<1>9. Followed(p)'
  <2>1. Routes(book)' = Routes(book) /\ Bindings(book)' = Bindings(book) BY DEF Routes, Bindings
  <2>2. (p \in Looking)' => pc \in {"recheck", "again", "route"} BY <1>3, <1>4 DEF Looking
  <2> QED BY <2>1, <2>2 DEF Followed
<1>10. Routed(p)' BY <1>3, <1>4 DEF Routed
<1>11. SendBound(p)'
  <2>1. \A b \in Users : cmd[b].pc \in {"sync", "done"} => cmd'[b] = cmd[b] BY <1>1, <1>4
  <2>2. \A b, x, y : StandsFor(b, x, y) => StandsFor(b, x, y)' BY <2>1, StandsOn
  <2> QED BY <1>3, <1>4, <2>2 DEF SendBound
<1>12. SentRight(p)' BY <1>1 DEF SentRight
<1>13. CommandRight(p)' BY <1>6, <1>7, <1>8, <1>9, <1>10, <1>11, <1>12 DEF CommandRight
<1> QED BY <1>4, <1>13, CommandOnly

(* The entry an address stands for, as long as its revision is the one     *)
(* that was reviewed.                                                      *)
LEMMA ReviewedEntry ==
  ASSUME BookInv, NEW p \in Users, Reviewed(p)
  PROVE  LET e == Addresses[cmd[p].name] IN
           /\ e.binding = cmd[p].given.binding /\ StandsFor(cmd[p].given.binding, e.route, e.seen)
           /\ cmd[p].given.binding \in Bindings(book)
<1>1. PICK n : n = cmd[p].name OBVIOUS
<1>2. n \in DOMAIN book["addresses"].entries /\ Revision("addresses", Addresses[n]) = cmd[p].given
  BY <1>1 DEF Reviewed, Addresses
<1>3. cmd[p].given.binding = Addresses[n].binding BY <1>2 DEF Revision, NoRevision
<1>4. book["addresses"] \in Versions("addresses") BY DEF Versions
<1>5. StandsFor(Addresses[n].binding, Addresses[n].route, Addresses[n].seen)
  BY <1>2, <1>4 DEF BookInv, EntriesBound, EntryBound, Addresses
<1>6. Addresses[n].binding \in Bindings(book) BY <1>2 DEF Bindings, Addresses
<1> QED BY <1>1, <1>3, <1>5, <1>6

LEMMA BookLooks ==
  ASSUME BookInv, NEW p \in Users, Lookup(p) \/ ReadPreset(p) \/ Probe(p)
  PROVE  BookInv'
<1>1. cmd[p].pc \in {"lookup", "preset", "probe"} /\ UNCHANGED <<book, older, session, reached>>
  BY DEF Lookup, ReadPreset, Probe, IsAt, Reads
<1>2. CASE Refuse(p) /\ UNCHANGED since BY <1>1, <1>2, GivesUp DEF Refuse
<1>3. CommandPlaced(p) /\ SendBound(p) /\ BookShapes BY DEF BookInv, CommandRight
<1>4. cmd[p].file = "addresses" /\ cmd[p].op # "remove" BY <1>1, <1>3 DEF CommandPlaced
<1>5. DOMAIN cmd[p] = BookFields BY <1>3 DEF CommandPlaced
<1>6. ASSUME Lookup(p), ~(Refuse(p) /\ UNCHANGED since) PROVE BookInv'
  <2>1. PICK e : e = Addresses[cmd[p].name] OBVIOUS
  <2>2. Reviewed(p) /\ UNCHANGED <<since, locked>> BY <1>6 DEF Lookup, Moves
  <2>3. StandsFor(cmd[p].given.binding, e.route, e.seen) BY <2>1, <2>2, ReviewedEntry
  <2>4. CASE cmd[p].op = "send"
    <3>1. cmd' = [cmd EXCEPT ![p] = [cmd[p] EXCEPT !.pc = "preset", !.route = e.route, !.seen = e.seen]]
      BY <1>6, <2>1, <2>4 DEF Lookup, Moves
    <3>2. PICK l : l = cmd[p].label OBVIOUS
    <3>3. cmd' = [cmd EXCEPT ![p] = [cmd[p] EXCEPT !.pc = "preset", !.route = e.route, !.seen = e.seen, !.label = l]]
      BY <1>5, <3>1, <3>2 DEF BookFields
    <3> QED BY <1>1, <1>3, <1>4, <2>2, <2>3, <3>3, OnItsWay DEF BookShapes
  <2>5. CASE cmd[p].op # "send"
    <3>1. cmd' = [cmd EXCEPT ![p] = [cmd[p] EXCEPT !.pc = "preset", !.label = e.label]]
      BY <1>6, <2>1, <2>5 DEF Lookup, Moves
    <3>2. PICK r, s : r = cmd[p].route /\ s = cmd[p].seen OBVIOUS
    <3>3. cmd' = [cmd EXCEPT ![p] = [cmd[p] EXCEPT !.pc = "preset", !.route = r, !.seen = s, !.label = e.label]]
      BY <1>5, <3>1, <3>2 DEF BookFields
    <3> QED BY <1>1, <1>3, <1>4, <2>2, <2>5, <3>3, OnItsWay DEF BookShapes
  <2> QED BY <2>4, <2>5
<1>7. ASSUME ReadPreset(p), ~(Refuse(p) /\ UNCHANGED since) PROVE BookInv'
  <2>1. PICK r, s, l : r = Presets[PresetName] /\ s = cmd[p].seen /\ l = cmd[p].label OBVIOUS
  <2>2. /\ cmd[p].pc = "preset" /\ PresetUsable(p) /\ UNCHANGED <<since, locked>>
        /\ cmd' = [cmd EXCEPT ![p] = [cmd[p] EXCEPT !.pc = "probe", !.route = r]]
    BY <1>7, <2>1 DEF ReadPreset, Moves, IsAt
  <2>3. cmd' = [cmd EXCEPT ![p] = [cmd[p] EXCEPT !.pc = "probe", !.route = r, !.seen = s, !.label = l]]
    BY <1>5, <2>1, <2>2 DEF BookFields
  <2>4. cmd[p].op = "send" => StandsFor(cmd[p].given.binding, r, s)
    BY <1>3, <2>1, <2>2 DEF PresetUsable, SendBound
  <2>5. UNCHANGED <<since, locked>> /\ DOMAIN since' = Users BY <1>3, <2>2 DEF BookShapes
  <2> QED BY <1>1, <1>4, <2>3, <2>4, <2>5, OnItsWay
<1>8. ASSUME Probe(p), ~(Refuse(p) /\ UNCHANGED since) PROVE BookInv'
  <2>1. PICK r, s, l, pc : /\ r = cmd[p].route /\ s = cmd[p].seen /\ l = cmd[p].label
                           /\ pc = IF cmd[p].op = "send" THEN "again" ELSE "recheck"
    OBVIOUS
  <2>2. /\ cmd[p].pc = "probe" /\ UNCHANGED locked
        /\ cmd' = [cmd EXCEPT ![p] = [cmd[p] EXCEPT !.pc = pc]]
        /\ since' = [since EXCEPT ![p] = [routes |-> Routes(book), bindings |-> Bindings(book)]]
    BY <1>8, <2>1 DEF Probe, Moves, IsAt
  <2>3. cmd' = [cmd EXCEPT ![p] = [cmd[p] EXCEPT !.pc = pc, !.route = r, !.seen = s, !.label = l]]
    BY <1>5, <2>1, <2>2 DEF BookFields
  <2>4. /\ DOMAIN since' = Users /\ \A q \in Users \ {p} : since'[q] = since[q]
        /\ since'[p].routes = Routes(book) /\ since'[p].bindings = Bindings(book)
    BY <1>3, <2>2 DEF BookShapes
  <2>5. cmd[p].op = "send" => StandsFor(cmd[p].given.binding, r, s) BY <1>3, <2>1, <2>2 DEF SendBound
  <2>6. pc \in {"again", "recheck"} /\ (pc = "again" <=> cmd[p].op = "send") BY <2>1
  <2>7. UNCHANGED locked BY <2>2
  <2>8. cmd[p].pc \notin {"start", "sync", "done"} BY <2>2
  <2>9. /\ pc \in {"preset", "probe", "recheck", "again", "route", "effect", "lock"}
        /\ pc \in {"again", "route", "effect"} => cmd[p].op = "send"
        /\ pc \in {"recheck", "lock"} => cmd[p].op # "send"
        /\ pc \notin {"lock", "effect"} /\ pc \notin {"route", "effect"}
    BY <2>6
  <2>10. UNCHANGED <<book, older, locked, session, reached>> BY <1>1, <2>7
  <2>11. Routes(book) \subseteq since'[p].routes /\ Bindings(book) \subseteq since'[p].bindings BY <2>4
  <2>12. DOMAIN since' = Users /\ \A q \in Users \ {p} : since'[q] = since[q] BY <2>4
  <2> QED BY <1>4, <2>3, <2>5, <2>8, <2>9, <2>10, <2>11, <2>12, OnItsWay
<1> QED BY <1>2, <1>6, <1>7, <1>8 DEF Lookup, ReadPreset, Probe

LEMMA BookLooksAgain ==
  ASSUME BookInv, NEW p \in Users, Recheck(p) \/ LookupAgain(p) \/ RouteAgain(p)
  PROVE  BookInv'
<1>1. /\ cmd[p].pc \in {"recheck", "again", "route"} /\ cmd[p].pc \notin {"start", "sync", "done"}
      /\ UNCHANGED <<book, older, session, reached>> /\ UNCHANGED since
  BY DEF Recheck, LookupAgain, RouteAgain, IsAt, Reads
<1>2. CASE Refuse(p) BY <1>1, <1>2, GivesUp DEF Refuse
<1>3. CommandPlaced(p) /\ SendBound(p) /\ Followed(p) /\ BookShapes BY DEF BookInv, CommandRight
<1>4. cmd[p].file = "addresses" /\ cmd[p].op # "remove" BY <1>1, <1>3 DEF CommandPlaced
<1>5. DOMAIN cmd[p] = BookFields /\ DOMAIN since' = Users /\ \A q \in Users \ {p} : since'[q] = since[q]
  BY <1>1, <1>3 DEF CommandPlaced, BookShapes
<1>6. Routes(book) \subseteq since[p].routes /\ Bindings(book) \subseteq since[p].bindings
  BY <1>1, <1>3 DEF Followed, Looking
<1>7. PICK r, s, l : r = cmd[p].route /\ s = cmd[p].seen /\ l = cmd[p].label OBVIOUS
<1>8. ASSUME NEW pc, cmd' = [cmd EXCEPT ![p] = [cmd[p] EXCEPT !.pc = pc]]
      PROVE  cmd' = [cmd EXCEPT ![p] = [cmd[p] EXCEPT !.pc = pc, !.route = r, !.seen = s, !.label = l]]
  BY <1>5, <1>7, <1>8 DEF BookFields
<1>9. SameRoute(p) => r \in Routes(book) BY <1>7 DEF SameRoute, Routes, Presets
<1>10. CASE Recheck(p) /\ ~Refuse(p)
  <2>1. /\ cmd[p].pc = "recheck" /\ SameRoute(p) /\ UNCHANGED locked
        /\ cmd' = [cmd EXCEPT ![p] = [cmd[p] EXCEPT !.pc = "lock"]]
    BY <1>10 DEF Recheck, Moves, IsAt
  <2>2. cmd' = [cmd EXCEPT ![p] = [cmd[p] EXCEPT !.pc = "lock", !.route = r, !.seen = s, !.label = l]]
    BY <1>8, <2>1
  <2>3. cmd[p].op # "send" BY <1>3, <2>1 DEF CommandPlaced
  <2>4. r \in since'[p].routes BY <1>1, <1>6, <1>9, <2>1
  <2>5. UNCHANGED <<book, older, locked, session, reached>> BY <1>1, <2>1
  <2> QED BY <1>1, <1>4, <1>5, <2>2, <2>3, <2>4, <2>5, OnItsWay
<1>11. CASE LookupAgain(p) /\ ~Refuse(p)
  <2>1. /\ cmd[p].pc = "again" /\ Reviewed(p) /\ UNCHANGED locked
        /\ cmd' = [cmd EXCEPT ![p] = [cmd[p] EXCEPT !.pc = "route"]]
    BY <1>11 DEF LookupAgain, Moves, IsAt
  <2>2. cmd' = [cmd EXCEPT ![p] = [cmd[p] EXCEPT !.pc = "route", !.route = r, !.seen = s, !.label = l]]
    BY <1>8, <2>1
  <2>3. cmd[p].op = "send" /\ StandsFor(cmd[p].given.binding, r, s)
    BY <1>3, <1>7, <2>1 DEF CommandPlaced, SendBound
  <2>4. cmd[p].given.binding \in Bindings(book) BY <2>1, ReviewedEntry
  <2>5. cmd[p].given.binding \in since'[p].bindings BY <1>1, <1>6, <2>4
  <2>6. UNCHANGED <<book, older, locked, session, reached>> BY <1>1, <2>1
  <2>7. Routes(book) \subseteq since'[p].routes /\ Bindings(book) \subseteq since'[p].bindings BY <1>1, <1>6
  <2> QED BY <1>1, <1>4, <1>5, <2>2, <2>3, <2>5, <2>6, <2>7, OnItsWay
<1>12. CASE RouteAgain(p) /\ ~Refuse(p)
  <2>1. /\ cmd[p].pc = "route" /\ SameRoute(p) /\ UNCHANGED locked
        /\ cmd' = [cmd EXCEPT ![p] = [cmd[p] EXCEPT !.pc = "effect"]]
    BY <1>12 DEF RouteAgain, Moves, IsAt
  <2>2. cmd' = [cmd EXCEPT ![p] = [cmd[p] EXCEPT !.pc = "effect", !.route = r, !.seen = s, !.label = l]]
    BY <1>8, <2>1
  <2>3. cmd[p].op = "send" /\ StandsFor(cmd[p].given.binding, r, s)
    BY <1>3, <1>7, <2>1 DEF CommandPlaced, SendBound
  <2>4. r \in since'[p].routes BY <1>1, <1>6, <1>9, <2>1
  <2>5. cmd[p].given.binding \in since'[p].bindings BY <1>1, <1>3, <2>1 DEF SendBound
  <2>6. UNCHANGED <<book, older, locked, session, reached>> BY <1>1, <2>1
  <2> QED BY <1>1, <1>4, <1>5, <2>2, <2>3, <2>4, <2>5, <2>6, OnItsWay
<1> QED BY <1>2, <1>10, <1>11, <1>12

(* A command that is over.                                                 *)
LEMMA BookFinishes ==
  ASSUME BookInv, NEW p \in Users, cmd[p].pc \notin {"start", "done"}, NEW say \in {"sent", "same", "ok", "unconfirmed", "nothing"},
         cmd' = [cmd EXCEPT ![p] = Finished(p, say)], locked' \in {locked, Unlocked(p)}, book' = book,
         since' = since, DOMAIN older' = Files, \A f \in Files : older'[f] \subseteq older[f],
         DOMAIN reached' = Users, \A q \in Users \ {p} : reached'[q] = reached[q],
         say = "ok" => /\ cmd[p].pc = "sync" /\ \A f \in Files : older'[f] = {},
         SentRight(p)'
  PROVE  BookInv'
<1>1. PICK c : c = Finished(p, say) OBVIOUS
<1>2. BookShapes /\ CommandRight(p) BY DEF BookInv
<1>3. /\ DOMAIN c = BookFields /\ c.pc = "done" /\ c.told = say /\ c.file = cmd[p].file /\ c.op = cmd[p].op
      /\ c.route = cmd[p].route /\ c.seen = cmd[p].seen
  BY <1>1, <1>2 DEF Finished, CommandRight, CommandPlaced, BookFields
<1>4. cmd'[p] = c BY <1>1, <1>2 DEF BookShapes
<1>5. DOMAIN locked' = Files /\ \A q \in Users \ {p}, f \in Files : locked[f] = {q} => locked'[f] = {q}
  BY <1>2 DEF Unlocked, BookShapes
<1>6. cmd[p].file \in Files BY <1>2 DEF CommandRight, CommandPlaced
<1>7. CommandPlaced(p)'
  <2>1. "" \notin Files BY DEF Files
  <2> QED BY <1>3, <1>4, <1>6, <2>1 DEF CommandPlaced, BookPlaces
<1>8. HoldsFile(p)' BY <1>3, <1>4 DEF HoldsFile
<1>9. LogTrue(p)'
  <2>1. say = "ok" => p \in book[cmd[p].file].log BY <1>2 DEF CommandRight, LogTrue
  <2>2. PICK f : f = cmd[p].file OBVIOUS
  <2>3. say = "ok" => \A v \in Versions(f)' : p \in v.log BY <1>6, <2>1, <2>2 DEF Versions
  <2> QED BY <1>3, <1>4, <1>6, <2>2, <2>3 DEF LogTrue
<1>10. Followed(p)' BY <1>3, <1>4 DEF Followed, Looking
<1>11. Routed(p)' BY <1>2, <1>3, <1>4 DEF Routed, CommandRight
<1>12. SendBound(p)' BY <1>3, <1>4 DEF SendBound
<1>13. CommandRight(p)' BY <1>7, <1>8, <1>9, <1>10, <1>11, <1>12 DEF CommandRight
<1>14. DOMAIN since' = Users BY <1>2 DEF BookShapes
<1>15. c.pc \in {"sync", "done"} BY <1>3
<1> QED BY <1>1, <1>3, <1>5, <1>13, <1>14, <1>15, CommandMoves

LEMMA BookEffect == ASSUME BookInv, NEW p \in Users, Effect(p) PROVE BookInv'
<1>1. cmd[p].pc = "effect" /\ UNCHANGED <<book, older, session, since>> BY DEF Effect, IsAt
<1>2. CASE Refuse(p) /\ UNCHANGED reached BY <1>1, <1>2, GivesUp DEF Refuse
<1>3. CASE ~(Refuse(p) /\ UNCHANGED reached)
  <2>1. /\ session[cmd[p].route] = cmd[p].seen /\ locked' = locked
        /\ reached' = [reached EXCEPT ![p] = <<cmd[p].route, session[cmd[p].route]>>]
        /\ cmd' = [cmd EXCEPT ![p] = Finished(p, "sent")]
    BY <1>3 DEF Effect, StillThere, Moves
  <2>2. BookShapes /\ CommandPlaced(p) /\ SendBound(p) BY DEF BookInv, CommandRight
  <2>3. PICK c : c = Finished(p, "sent") OBVIOUS
  <2>4. /\ c.pc = "done" /\ c.route = cmd[p].route /\ c.seen = cmd[p].seen /\ c.given = cmd[p].given
    BY <2>2, <2>3 DEF Finished, CommandPlaced, BookFields
  <2>5. cmd'[p] = c BY <2>1, <2>2, <2>3 DEF BookShapes
  <2>6. DOMAIN reached' = Users /\ (\A q \in Users \ {p} : reached'[q] = reached[q])
        /\ reached'[p] = <<cmd[p].route, cmd[p].seen>>
    BY <2>1, <2>2 DEF BookShapes
  <2>7. cmd[p].op = "send" BY <1>1, <2>2 DEF CommandPlaced
  <2>8. StandsFor(cmd[p].given.binding, cmd[p].route, cmd[p].seen)'
    <3>1. \A b \in Users \ {p} : cmd'[b] = cmd[b] BY <2>1, <2>2 DEF BookShapes
    <3>2. StandsFor(cmd[p].given.binding, cmd[p].route, cmd[p].seen) BY <1>1, <2>2, <2>7 DEF SendBound
    <3> QED BY <1>1, <2>4, <2>5, <3>1, <3>2 DEF StandsFor
  <2>9. SentRight(p)' BY <1>1, <2>2, <2>4, <2>5, <2>6, <2>8 DEF SentRight, SendBound
  <2>10. DOMAIN older' = Files /\ \A f \in Files : older'[f] \subseteq older[f] BY <1>1, <2>2 DEF BookShapes
  <2> QED BY <1>1, <2>1, <2>6, <2>9, <2>10, BookFinishes
<1> QED BY <1>2, <1>3

(* The write of a file.                                                    *)
LEMMA BookLocks == ASSUME BookInv, NEW p \in Users, Lock(p) PROVE BookInv'
<1>1. cmd[p].pc = "lock" /\ UNCHANGED <<book, older, session, reached, since>> BY DEF Lock, IsAt, Reads
<1>2. CASE Refuse(p) BY <1>1, <1>2, GivesUp DEF Refuse
<1>3. CASE ~Refuse(p)
  <2>1. PICK f : f = cmd[p].file OBVIOUS
  <2>2. PICK c : c = [cmd[p] EXCEPT !.pc = "read"] OBVIOUS
  <2>3. BookShapes /\ CommandRight(p) BY DEF BookInv
  <2>4. locked[f] = {} /\ locked' = [locked EXCEPT ![f] = @ \cup {p}] /\ cmd' = [cmd EXCEPT ![p] = c]
    BY <1>3, <2>1, <2>2 DEF Lock, Free
  <2>5. /\ DOMAIN c = BookFields /\ c.pc = "read" /\ c.op = cmd[p].op /\ c.file = f /\ c.told = cmd[p].told
        /\ c.route = cmd[p].route
    BY <2>1, <2>2, <2>3 DEF CommandRight, CommandPlaced, BookFields
  <2>6. cmd'[p] = c /\ f \in Files
    BY <1>1, <2>1, <2>3, <2>4 DEF BookShapes, CommandRight, CommandPlaced
  <2>7. DOMAIN locked' = Files /\ locked'[f] = {p} BY <2>3, <2>4, <2>6 DEF BookShapes
  <2>8. \A q \in Users \ {p}, g \in Files : locked[g] = {q} => locked'[g] = {q} BY <2>3, <2>4 DEF BookShapes
  <2>9. CommandPlaced(p)' BY <1>1, <2>1, <2>3, <2>5, <2>6 DEF CommandRight, CommandPlaced, BookPlaces
  <2>10. HoldsFile(p)' BY <2>5, <2>6, <2>7 DEF HoldsFile
  <2>11. LogTrue(p)'
    <3>1. cmd[p].told = "" /\ \A g \in Files : \A v \in Versions(g) : p \notin v.log BY <1>1, Early
    <3> QED BY <1>1, <2>5, <2>6, <3>1 DEF LogTrue, Versions
  <2>12. Followed(p)' /\ SendBound(p)' BY <1>1, <2>3, <2>5, <2>6 DEF Followed, Looking, SendBound
  <2>13. Routed(p)' BY <1>1, <2>1, <2>3, <2>5, <2>6 DEF Routed, CommandRight
  <2>14. SentRight(p)' BY <1>1, Early DEF SentRight
  <2>15. CommandRight(p)' BY <2>9, <2>10, <2>11, <2>12, <2>13, <2>14 DEF CommandRight
  <2> QED BY <1>1, <2>3, <2>4, <2>7, <2>8, <2>15, CommandMoves DEF BookShapes
<1> QED BY <1>2, <1>3

LEMMA BookReads == ASSUME BookInv, NEW p \in Users, Read(p) PROVE BookInv'
<1>1. cmd[p].pc = "read" /\ UNCHANGED <<book, older, session, reached, since>> BY DEF Read, IsAt, Reads
<1>2. PICK b, f : b = book[cmd[p].file] /\ f = cmd[p].file OBVIOUS
<1>3. BookShapes /\ CommandRight(p) BY DEF BookInv
<1>4. CASE Refuse(p) BY <1>1, <1>4, GivesUp DEF Refuse
<1>5. CASE cmd' = [cmd EXCEPT ![p] = Finished(p, "same")] /\ locked' = Unlocked(p)
  <2>1. SentRight(p)' BY <1>1, Early DEF SentRight
  <2> QED BY <1>1, <1>3, <1>5, <2>1, BookFinishes DEF BookShapes
<1>6. CASE Allowed(p, b.entries) /\ Moves(p, [cmd[p] EXCEPT !.pc = "replace", !.base = b])
  <2>1. PICK c : c = [cmd[p] EXCEPT !.pc = "replace", !.base = b] OBVIOUS
  <2>2. locked' = locked /\ cmd' = [cmd EXCEPT ![p] = c] BY <1>6, <2>1 DEF Moves
  <2>3. /\ DOMAIN c = BookFields /\ c.pc = "replace" /\ c.op = cmd[p].op /\ c.file = f /\ c.told = cmd[p].told
        /\ c.route = cmd[p].route /\ c.name = cmd[p].name /\ c.label = cmd[p].label /\ c.seen = cmd[p].seen
        /\ c.base = b
    BY <1>2, <1>3, <2>1 DEF CommandRight, CommandPlaced, BookFields
  <2>4. cmd'[p] = c /\ f \in Files
    BY <1>1, <1>2, <1>3, <2>2 DEF BookShapes, CommandRight, CommandPlaced
  <2>5. CommandPlaced(p)' BY <1>1, <1>2, <1>3, <2>3, <2>4 DEF CommandRight, CommandPlaced, BookPlaces
  <2>6. HoldsFile(p)'
    <3>1. PICK m : m = Mutated(p, b.entries) OBVIOUS
    <3>2. ~DuplicateLabel(f, m) BY <1>2, <1>6, <3>1 DEF Allowed
    <3>3. PICK e : e = b.entries OBVIOUS
    <3>4. Mutated(p, e)' = Mutated(p, e) BY <1>2, <2>3, <2>4, SameFieldsMutation
    <3>5. Judged(p)' BY <2>3, <2>4, <3>1, <3>2, <3>3, <3>4 DEF Judged
    <3>6. locked[f] = {p} BY <1>1, <1>2, <1>3 DEF CommandRight, HoldsFile
    <3> QED BY <1>1, <1>2, <2>2, <2>3, <2>4, <3>5, <3>6 DEF HoldsFile
  <2>7. LogTrue(p)'
    <3>1. cmd[p].told = "" /\ \A g \in Files : \A v \in Versions(g) : p \notin v.log BY <1>1, Early
    <3> QED BY <1>1, <2>3, <2>4, <3>1 DEF LogTrue, Versions
  <2>8. Followed(p)' /\ SendBound(p)' BY <2>3, <2>4 DEF Followed, Looking, SendBound
  <2>9. Routed(p)' BY <1>1, <1>2, <1>3, <2>3, <2>4 DEF Routed, CommandRight
  <2>10. SentRight(p)' BY <1>1, Early DEF SentRight
  <2>11. CommandRight(p)' BY <2>5, <2>6, <2>7, <2>8, <2>9, <2>10 DEF CommandRight
  <2> QED BY <1>1, <1>3, <2>2, <2>11, CommandOnly DEF BookShapes
<1> QED BY <1>2, <1>4, <1>5, <1>6 DEF Read

LEMMA BookSyncs == ASSUME BookInv, NEW p \in Users, Sync(p) PROVE BookInv'
<1>1. cmd[p].pc = "sync" /\ UNCHANGED <<book, session, reached, since>> /\ locked' = Unlocked(p) BY DEF Sync, IsAt
<1>2. BookShapes /\ CommandRight(p) BY DEF BookInv
<1>3. reached[p] = <<>> BY <1>1, <1>2 DEF CommandRight, SentRight
<1>4. SentRight(p)' BY <1>1, <1>3 DEF SentRight
<1>5. CASE older' = [f \in Files |-> {}] /\ cmd' = [cmd EXCEPT ![p] = Finished(p, "ok")]
  BY <1>1, <1>2, <1>4, <1>5, BookFinishes DEF BookShapes
<1>6. CASE UNCHANGED older /\ cmd' = [cmd EXCEPT ![p] = Finished(p, "unconfirmed")]
  BY <1>1, <1>2, <1>4, <1>6, BookFinishes DEF BookShapes
<1> QED BY <1>5, <1>6 DEF Sync, Confirmed

LEMMA BookKilled == ASSUME BookInv, NEW p \in Users, Kill(p) PROVE BookInv'
<1>1. cmd[p].pc \notin {"start", "done"} /\ UNCHANGED <<book, older, session, reached, since>> /\ locked' = Unlocked(p)
      /\ cmd' = [cmd EXCEPT ![p] = Killed(p)]
  BY DEF Kill
<1>2. BookShapes /\ CommandRight(p) BY DEF BookInv
<1>3. CASE cmd[p].pc = "sync"
  <2>1. reached[p] = <<>> BY <1>3, <1>2 DEF CommandRight, SentRight
  <2>2. SentRight(p)' BY <1>1, <2>1 DEF SentRight
  <2>3. cmd' = [cmd EXCEPT ![p] = Finished(p, "nothing")] BY <1>1, <1>3 DEF Killed, IsAt
  <2> QED BY <1>1, <1>2, <2>2, <2>3, BookFinishes DEF BookShapes
<1>4. CASE cmd[p].pc # "sync"
  <2>1. cmd' = [cmd EXCEPT ![p] = Forgotten(p, "nothing")] BY <1>1, <1>4 DEF Killed, IsAt
  <2> QED BY <1>1, <1>4, <2>1, GivesUp
<1> QED BY <1>3, <1>4

(* What is noted of the files for the commands that look on.               *)
LEMMA NotesGrow ==
  ASSUME BookInv, since' = Noted(book')
  PROVE  /\ DOMAIN since' = Users
         /\ \A q \in Users : since[q].routes \subseteq since'[q].routes /\ since[q].bindings \subseteq since'[q].bindings
         /\ \A q \in Looking : Routes(book)' \subseteq since'[q].routes /\ Bindings(book)' \subseteq since'[q].bindings
         /\ \A q \in Users : q \notin Looking => since'[q] = since[q]
<1>1. DOMAIN since' = Users BY DEF Noted
<1>2. Routes(book') = Routes(book)' /\ Bindings(book') = Bindings(book)' BY DEF Routes, Bindings
<1>3. \A q \in Users : since'[q] = IF q \in Looking
                               THEN [routes |-> since[q].routes \cup Routes(book)',
                                     bindings |-> since[q].bindings \cup Bindings(book)']
                               ELSE since[q]
  BY <1>2 DEF Noted
<1>4. Looking \subseteq Users BY DEF Looking
<1> QED BY <1>1, <1>3, <1>4

LEMMA MutatedEntries ==
  ASSUME NEW p, NEW entries, NEW n \in DOMAIN Mutated(p, entries)
  PROVE  \/ n \in DOMAIN entries /\ Mutated(p, entries)[n] = entries[n]
         \/ Mutated(p, entries)[n] = NewEntry(p)
BY DEF Mutated, Restrict

LEMMA BookReplaces == ASSUME BookInv, NEW p \in Users, Replace(p) PROVE BookInv'
<1>1. cmd[p].pc = "replace" /\ UNCHANGED <<session, reached, locked>> /\ since' = Noted(book')
  BY DEF Replace, IsAt, Moves
<1>2. BookShapes /\ CommandRight(p) BY DEF BookInv
<1>3. PICK f, c : f = cmd[p].file /\ c = [cmd[p] EXCEPT !.pc = "sync"] OBVIOUS
<1>4. /\ DOMAIN c = BookFields /\ c.pc = "sync" /\ c.op = cmd[p].op /\ c.file = f /\ c.told = cmd[p].told
      /\ c.route = cmd[p].route /\ c.seen = cmd[p].seen /\ c.label = cmd[p].label
  BY <1>2, <1>3 DEF CommandRight, CommandPlaced, BookFields
<1>5. cmd' = [cmd EXCEPT ![p] = c] BY <1>3 DEF Replace, Moves
<1>6. DOMAIN cmd' = Users /\ cmd'[p] = c /\ \A q \in Users \ {p} : cmd'[q] = cmd[q] BY <1>2, <1>5 DEF BookShapes
<1>7. f \in Files BY <1>1, <1>2, <1>3 DEF CommandRight, CommandPlaced
<1>8. locked[f] = {p} /\ cmd[p].base = book[f] /\ Judged(p) BY <1>1, <1>2, <1>3 DEF CommandRight, HoldsFile
<1>9. PICK m, v : m = Mutated(p, book[f].entries) /\ v = Version(m, book[f].log \cup {p}) OBVIOUS
<1>10. v.entries = m /\ v.log = book[f].log \cup {p} BY <1>9 DEF Version
<1>11. book' = [book EXCEPT ![f] = v] /\ older' = [older EXCEPT ![f] = @ \cup {book[f]}]
  BY <1>3, <1>8, <1>9 DEF Replace
<1>12. /\ DOMAIN book' = Files /\ DOMAIN older' = Files /\ book'[f] = v /\ older'[f] = older[f] \cup {book[f]}
       /\ \A g \in Files \ {f} : book'[g] = book[g] /\ older'[g] = older[g]
  BY <1>2, <1>7, <1>11 DEF BookShapes
<1>13. \A g \in Files : \A w : w \in Versions(g)' <=> w \in Versions(g) \/ (g = f /\ w = v)
  BY <1>12 DEF Versions
<1>14. BookShapes' BY <1>1, <1>2, <1>6, <1>12, NotesGrow DEF BookShapes
<1>15. \A b \in Users : cmd[b].pc \in {"sync", "done"} =>
         cmd'[b].pc \in {"sync", "done"} /\ cmd'[b].route = cmd[b].route /\ cmd'[b].seen = cmd[b].seen
  BY <1>4, <1>6
<1>16. \A b, r, s : StandsFor(b, r, s) => StandsFor(b, r, s)' BY <1>15, StandsOn
<1>17. \A q \in Users : since[q].routes \subseteq since'[q].routes /\ since[q].bindings \subseteq since'[q].bindings
  BY <1>1, NotesGrow
<1>18. ASSUME NEW q \in Users \ {p} PROVE CommandRight(q)'
  <2>1. cmd'[q] = cmd[q] /\ reached'[q] = reached[q] BY <1>1, <1>6, <1>18
  <2>2. CommandRight(q) BY <1>18 DEF BookInv
  <2> USE DEF CommandRight
  <2>3. CommandPlaced(q)' BY <2>1, <2>2 DEF CommandPlaced
  <2>4. HoldsFile(q)'
    <3>1. Judged(q) => Judged(q)' BY <2>1, SameMutation DEF Judged
    <3>2. cmd[q].pc \in {"read", "replace", "sync"} => cmd[q].file \in Files /\ locked[cmd[q].file] = {q}
      BY <2>2 DEF HoldsFile, CommandPlaced
    <3>3. cmd[q].pc \in {"read", "replace", "sync"} => cmd[q].file # f BY <1>8, <1>18, <3>2
    <3> QED BY <1>1, <1>12, <2>1, <2>2, <3>1, <3>2, <3>3 DEF HoldsFile
  <2>5. LogTrue(q)'
    <3>1. q \in v.log <=> q \in book[f].log BY <1>10, <1>18
    <3>2. \A g \in Files : book[g] \in Versions(g) BY DEF Versions
    <3>3. cmd[q].told = "ok" => cmd[q].file \in Files BY <2>2 DEF LogTrue
    <3>4. cmd[q].pc = "sync" => cmd[q].file \in Files BY <2>2 DEF CommandPlaced
    <3>5. (\A g \in Files : \A w \in Versions(g) : q \notin w.log) =>
            \A g \in Files : \A w \in Versions(g)' : q \notin w.log
      BY <1>7, <1>13, <3>1, <3>2
    <3>6. \A g \in Files : (\A w \in Versions(g) : q \in w.log) => \A w \in Versions(g)' : q \in w.log
      BY <1>7, <1>13, <3>1, <3>2
    <3>7. \A g \in Files : q \in book[g].log => q \in book'[g].log BY <1>12, <3>1
    <3>8. PICK g : g = cmd[q].file OBVIOUS
    <3>9. cmd[q].told = "ok" => \A w \in Versions(g)' : q \in w.log BY <2>2, <3>3, <3>6, <3>8 DEF LogTrue
    <3> QED BY <2>1, <2>2, <3>3, <3>4, <3>5, <3>7, <3>8, <3>9 DEF LogTrue
  <2>6. Followed(q)' BY <1>1, <2>1, NotesGrow DEF Followed, Looking
  <2>7. Routed(q)' BY <1>17, <2>1, <2>2 DEF Routed
  <2>8. SendBound(q)' BY <1>16, <1>17, <2>1, <2>2 DEF SendBound
  <2>9. SentRight(q)' BY <1>16, <1>17, <2>1, <2>2 DEF SentRight
  <2> QED BY <2>3, <2>4, <2>5, <2>6, <2>7, <2>8, <2>9
<1>19. CommandRight(p)'
  <2>1. CommandPlaced(p)' BY <1>1, <1>2, <1>3, <1>4, <1>6, <1>7 DEF CommandRight, CommandPlaced, BookPlaces
  <2>2. HoldsFile(p)' BY <1>1, <1>4, <1>6, <1>8 DEF HoldsFile
  <2>3. LogTrue(p)' BY <1>1, <1>2, <1>4, <1>6, <1>10, <1>12 DEF CommandRight, LogTrue, BookPlaces
  <2>4. Followed(p)' /\ SendBound(p)' BY <1>4, <1>6 DEF Followed, Looking, SendBound
  <2>5. Routed(p)' BY <1>1, <1>2, <1>3, <1>4, <1>6, <1>17 DEF Routed, CommandRight
  <2>6. SentRight(p)' BY <1>1, Early DEF SentRight
  <2> QED BY <2>1, <2>2, <2>3, <2>4, <2>5, <2>6 DEF CommandRight
<1>20. "addresses" \in Files BY DEF Files
<1>21. LabelsApart'
  <2>1. f = "addresses" => ~DuplicateLabel("addresses", v.entries)
    <3>1. PICK e : e = book[f].entries OBVIOUS
    <3> QED BY <1>3, <1>8, <1>9, <1>10, <3>1 DEF Judged
  <2> QED BY <1>13, <1>20, <2>1 DEF BookInv, LabelsApart, DuplicateLabel
<1>22. EntriesBound'
  <2>1. ASSUME f = "addresses", NEW n \in DOMAIN v.entries
        PROVE  StandsFor(v.entries[n].binding, v.entries[n].route, v.entries[n].seen)'
    <3>1. CASE n \in DOMAIN book[f].entries /\ v.entries[n] = book[f].entries[n]
      <4>1. book[f] \in Versions("addresses") BY <2>1 DEF Versions
      <4>2. EntryBound(book[f].entries[n]) BY <3>1, <4>1 DEF BookInv, EntriesBound
      <4> QED BY <1>16, <3>1, <4>2 DEF EntryBound
    <3>2. CASE v.entries[n] = NewEntry(p)
      <4>1. /\ v.entries[n].binding = p /\ v.entries[n].route = cmd[p].route /\ v.entries[n].seen = cmd[p].seen
        <5>1. cmd[p].file = "addresses" BY <1>3, <2>1
        <5>2. NewEntry(p) = [label |-> cmd[p].label, route |-> cmd[p].route, seen |-> cmd[p].seen, binding |-> p]
          BY <5>1 DEF NewEntry
        <5> QED BY <3>2, <5>2
      <4>2. p # 0 BY BookAssumption
      <4> QED BY <1>4, <1>6, <4>1, <4>2 DEF StandsFor
    <3> QED BY <1>9, <1>10, <2>1, <3>1, <3>2, MutatedEntries
  <2>2. \A w \in Versions("addresses") : \A n \in DOMAIN w.entries :
          StandsFor(w.entries[n].binding, w.entries[n].route, w.entries[n].seen)'
    BY <1>16 DEF BookInv, EntriesBound, EntryBound
  <2> QED BY <1>13, <1>20, <2>1, <2>2 DEF EntriesBound, EntryBound
<1> QED BY <1>14, <1>18, <1>19, <1>21, <1>22 DEF BookInv

(* Every process ends; each file is one of its versions.                   *)
LEMMA BookPowerLoss == ASSUME BookInv, PowerLoss PROVE BookInv'
<1>1. /\ book' \in [Files -> UNION {older[f] \cup {book[f]} : f \in Files}]
      /\ \A f \in Files : book'[f] \in older[f] \cup {book[f]}
      /\ older' = [f \in Files |-> {}] /\ locked' = [f \in Files |-> {}]
      /\ cmd' = [p \in Users |-> IF cmd[p].pc \in {"start", "done"} THEN cmd[p] ELSE Killed(p)]
      /\ since' = Noted(book') /\ reached' = reached
  BY DEF PowerLoss
<1>2. BookShapes /\ \A p \in Users : CommandRight(p) BY DEF BookInv
<1>3. BookShapes' BY <1>1, <1>2, NotesGrow DEF BookShapes
<1>4. \A f \in Files : \A v \in Versions(f)' : v \in Versions(f) BY <1>1 DEF Versions
<1>5. \A f \in Files : Versions(f)' = {book'[f]} BY <1>1 DEF Versions
<1>6. ASSUME NEW p \in Users
      PROVE  \/ cmd[p].pc \in {"start", "done"} /\ cmd'[p] = cmd[p]
             \/ /\ cmd[p].pc \notin {"start", "done"} /\ DOMAIN cmd'[p] = BookFields
                /\ cmd'[p].pc = "done" /\ cmd'[p].told = "nothing" /\ cmd'[p].file = cmd[p].file
                /\ cmd[p].pc = "sync" => cmd'[p].route = cmd[p].route /\ cmd'[p].seen = cmd[p].seen
  <2>1. CASE cmd[p].pc \in {"start", "done"} BY <1>1, <2>1
  <2>2. CASE cmd[p].pc = "sync"
    <3>1. cmd'[p] = Finished(p, "nothing") BY <1>1, <2>2 DEF Killed, IsAt
    <3> QED BY <1>2, <2>2, <3>1 DEF Finished, CommandRight, CommandPlaced, BookFields
  <2>3. CASE cmd[p].pc \notin {"start", "done", "sync"}
    <3>1. cmd'[p] = Forgotten(p, "nothing") BY <1>1, <2>3 DEF Killed, IsAt
    <3> QED BY <2>3, <3>1, WaitingFields DEF Forgotten, BookFields
  <2> QED BY <2>1, <2>2, <2>3
<1>7. \A b \in Users : cmd[b].pc \in {"sync", "done"} =>
        cmd'[b].pc \in {"sync", "done"} /\ cmd'[b].route = cmd[b].route /\ cmd'[b].seen = cmd[b].seen
  BY <1>6
<1>8. \A b, r, s : StandsFor(b, r, s) => StandsFor(b, r, s)' BY <1>7, StandsOn
<1>9. \A q \in Users : since[q].routes \subseteq since'[q].routes /\ since[q].bindings \subseteq since'[q].bindings
  BY <1>1, NotesGrow
<1>10. ASSUME NEW p \in Users PROVE CommandRight(p)'
  <2>1. CommandRight(p) BY <1>2
  <2>2. cmd'[p].pc \in {"start", "done"} BY <1>6
  <2>3. CommandPlaced(p)'
    <3>1. "" \notin Files BY DEF Files
    <3>2. cmd[p].pc # "start" => cmd[p].file \in Files BY <2>1 DEF CommandRight, CommandPlaced
    <3> QED BY <1>6, <2>1, <2>2, <3>1, <3>2 DEF CommandRight, CommandPlaced, BookPlaces
  <2>4. HoldsFile(p)' /\ Followed(p)' /\ SendBound(p)' BY <2>2 DEF HoldsFile, Followed, Looking, SendBound
  <2>5. CASE cmd'[p] = cmd[p] /\ cmd[p].pc \in {"start", "done"}
    <3>1. LogTrue(p) /\ Routed(p) /\ SentRight(p) BY <2>1 DEF CommandRight
    <3>2. LogTrue(p)'
      <4>1. PICK g : g = cmd[p].file OBVIOUS
      <4>2. cmd[p].told = "ok" => g \in Files /\ \A w \in Versions(g)' : p \in w.log BY <1>4, <3>1, <4>1 DEF LogTrue
      <4>3. (\A f \in Files : \A w \in Versions(f) : p \notin w.log) =>
              \A f \in Files : \A w \in Versions(f)' : p \notin w.log
        BY <1>4
      <4> QED BY <2>5, <3>1, <4>1, <4>2, <4>3 DEF LogTrue
    <3>3. Routed(p)' BY <1>9, <2>5, <3>1 DEF Routed
    <3>4. SentRight(p)' BY <1>1, <1>8, <1>9, <2>5, <3>1 DEF SentRight
    <3> QED BY <2>3, <2>4, <3>2, <3>3, <3>4 DEF CommandRight
  <2>6. CASE cmd[p].pc \notin {"start", "done"} /\ cmd'[p].pc = "done" /\ cmd'[p].told = "nothing"
    <3>1. LogTrue(p)' BY <2>6 DEF LogTrue
    <3>2. Routed(p)' BY <2>6 DEF Routed
    <3>3. SentRight(p)' BY <1>1, <2>1, <2>6 DEF SentRight, CommandRight
    <3> QED BY <2>3, <2>4, <3>1, <3>2, <3>3 DEF CommandRight
  <2> QED BY <1>6, <2>5, <2>6
<1>11. "addresses" \in Files BY DEF Files
<1>12. LabelsApart' BY <1>4, <1>11 DEF BookInv, LabelsApart, DuplicateLabel
<1>13. EntriesBound' BY <1>4, <1>8, <1>11 DEF BookInv, EntriesBound, EntryBound
<1> QED BY <1>3, <1>10, <1>12, <1>13 DEF BookInv

LEMMA BookOpens == ASSUME AddressBookInit PROVE BookInv
<1>1. PICK r \in Places :
        book = [f \in Files |-> Version(CASE f = "presets" -> [n \in {PresetName} |-> r]
                                      [] f = "addresses" -> [n \in {"a"} |-> FirstEntry(r)]
                                      [] f = "notices" -> Empty, {})]
  BY DEF AddressBookInit
<1>2. /\ older = [f \in Files |-> {}] /\ locked = [f \in Files |-> {}] /\ cmd = [p \in Users |-> Waiting]
      /\ reached = [p \in Users |-> <<>>] /\ since = [p \in Users |-> Unprobed]
  BY DEF AddressBookInit
<1>3. BookShapes BY <1>1, <1>2 DEF BookShapes
<1>4. \A f \in Files : \A v \in Versions(f) : v = book[f] /\ v.log = {}
  <2>1. \A f \in Files : Versions(f) = {book[f]} BY <1>2 DEF Versions
  <2>2. \A f \in Files : \E x : book[f] = Version(x, {}) BY <1>1
  <2>3. ASSUME NEW f \in Files PROVE book[f].log = {}
    <3>1. PICK x : book[f] = Version(x, {}) BY <2>2
    <3> QED BY <3>1 DEF Version
  <2> QED BY <2>1, <2>3
<1>5. \A p \in Users : CommandRight(p)
  <2> SUFFICES ASSUME NEW p \in Users PROVE CommandRight(p) OBVIOUS
  <2>1. cmd[p] = Waiting /\ reached[p] = <<>> BY <1>2
  <2>2. /\ DOMAIN cmd[p] = BookFields /\ cmd[p].pc = "start" /\ cmd[p].op = "" /\ cmd[p].told = ""
        /\ cmd[p].file = ""
    BY <2>1, WaitingFields
  <2>3. CommandPlaced(p) BY <2>2 DEF CommandPlaced, BookPlaces
  <2>4. HoldsFile(p) /\ Followed(p) /\ Routed(p) /\ SendBound(p)
    BY <2>2 DEF HoldsFile, Followed, Looking, Routed, SendBound
  <2>5. LogTrue(p) BY <1>4, <2>2 DEF LogTrue
  <2>6. SentRight(p) BY <2>1 DEF SentRight
  <2> QED BY <2>3, <2>4, <2>5, <2>6 DEF CommandRight
<1>6. "addresses" \in Files BY DEF Files
<1>7. \A v \in Versions("addresses") : v.entries = [n \in {"a"} |-> FirstEntry(r)]
  BY <1>1, <1>4, <1>6 DEF Version
<1>8. LabelsApart BY <1>7 DEF LabelsApart, DuplicateLabel, IsInjective
<1>9. EntriesBound BY <1>7 DEF EntriesBound, EntryBound, FirstEntry, StandsFor
<1> QED BY <1>3, <1>5, <1>8, <1>9 DEF BookInv

LEMMA BookStep == ASSUME BookInv, [AddressBookNext]_bookVars PROVE BookInv'
<1>1. ASSUME NEW p \in Users, Command(p) PROVE BookInv'
  <2>1. CASE Begin(p) BY <2>1, BookBegins
  <2>2. CASE Lookup(p) \/ ReadPreset(p) \/ Probe(p) BY <2>2, BookLooks
  <2>3. CASE Recheck(p) \/ LookupAgain(p) \/ RouteAgain(p) BY <2>3, BookLooksAgain
  <2>4. CASE Effect(p) BY <2>4, BookEffect
  <2>5. CASE Lock(p) BY <2>5, BookLocks
  <2>6. CASE Read(p) BY <2>6, BookReads
  <2>7. CASE Replace(p) BY <2>7, BookReplaces
  <2>8. CASE DiskFails(p)
    <3>1. cmd[p].pc \notin {"start", "sync", "done"} BY <2>8 DEF DiskFails, IsAt
    <3> QED BY <2>8, <3>1, GivesUp DEF DiskFails, Refuse, Reads
  <2>9. CASE Sync(p) BY <2>9, BookSyncs
  <2>10. CASE Kill(p) BY <2>10, BookKilled
  <2> QED BY <1>1, <2>1, <2>2, <2>3, <2>4, <2>5, <2>6, <2>7, <2>8, <2>9, <2>10 DEF Command
<1>2. CASE PowerLoss BY <1>2, BookPowerLoss
<1>3. CASE UNCHANGED <<book, older, locked, cmd, reached, since>>
  <2>1. ASSUME NEW p \in Users PROVE CommandRight(p)'
    <3>1. CommandRight(p) BY DEF BookInv
    <3>2. Judged(p) => Judged(p)' BY <1>3, SameMutation DEF Judged
    <3>3. CommandPlaced(p)' BY <1>3, <3>1 DEF CommandRight, CommandPlaced
    <3>4. HoldsFile(p)' BY <1>3, <3>1, <3>2 DEF CommandRight, HoldsFile
    <3>5. LogTrue(p)' BY <1>3, <3>1 DEF CommandRight, LogTrue, Versions
    <3>6. Followed(p)' /\ Routed(p)' BY <1>3, <3>1 DEF CommandRight, Followed, Looking, Routes, Bindings, Routed
    <3>7. SendBound(p)' /\ SentRight(p)' BY <1>3, <3>1 DEF CommandRight, SendBound, SentRight, StandsFor
    <3> QED BY <3>3, <3>4, <3>5, <3>6, <3>7 DEF CommandRight
  <2>2. BookShapes' BY <1>3 DEF BookInv, BookShapes
  <2>3. LabelsApart' BY <1>3 DEF BookInv, LabelsApart, Versions, DuplicateLabel
  <2>4. EntriesBound' BY <1>3 DEF BookInv, EntriesBound, Versions, EntryBound, StandsFor
  <2> QED BY <2>1, <2>2, <2>3, <2>4 DEF BookInv
<1>4. (\E r \in Places : SessionChanges(r)) => UNCHANGED <<book, older, locked, cmd, reached, since>>
  BY DEF SessionChanges
<1>5. UNCHANGED bookVars => UNCHANGED <<book, older, locked, cmd, reached, since>> BY DEF bookVars
<1> QED BY <1>1, <1>2, <1>3, <1>4, <1>5 DEF AddressBookNext

LEMMA BookInvSafe == ASSUME BookInv PROVE AddressesSafe
<1>1. AnswersKept
  <2> SUFFICES ASSUME NEW p \in Users
               PROVE  LET log == book[IF cmd[p].file = "" THEN "presets" ELSE cmd[p].file].log IN
                        /\ cmd[p].told = "ok" => p \in log
                        /\ cmd[p].told = "refused" => p \notin log
    BY DEF AnswersKept
  <2>1. CommandRight(p) BY DEF BookInv
  <2>2. \A f \in Files : book[f] \in Versions(f) BY DEF Versions
  <2>3. "presets" \in Files /\ "" \notin Files BY DEF Files
  <2>4. PICK f : f = cmd[p].file OBVIOUS
  <2>5. cmd[p].told = "ok" => f \in Files /\ p \in book[f].log BY <2>1, <2>2, <2>4 DEF CommandRight, LogTrue
  <2>6. cmd[p].told = "refused" => \A g \in Files : p \notin book[g].log BY <2>1, <2>2 DEF CommandRight, LogTrue
  <2>7. cmd[p].told # "" => f \in Files BY <2>1, <2>4 DEF CommandRight, CommandPlaced, LogTrue, BookPlaces
  <2> QED BY <2>3, <2>4, <2>5, <2>6, <2>7
<1>2. LabelsUnique
  <2>1. book["addresses"] \in Versions("addresses") BY DEF Versions
  <2> QED BY <2>1 DEF BookInv, LabelsApart, LabelsUnique, Addresses
<1>3. BoundToPreset BY DEF BookInv, CommandRight, Routed, BoundToPreset, IsAt
<1>4. SentAsReviewed
  <2> SUFFICES ASSUME NEW p \in Users, reached[p] # <<>>
               PROVE  /\ cmd[p].given.binding \in since[p].bindings
                      /\ cmd[p].route \in since[p].routes
                      /\ reached[p][2] = BoundTo(cmd[p].given.binding)[2]
                      /\ cmd[p].given.binding # 0 => reached[p][1] = BoundTo(cmd[p].given.binding)[1]
    BY DEF SentAsReviewed
  <2>1. SentRight(p) BY DEF BookInv, CommandRight
  <2>2. PICK b, r, n : b = cmd[p].given.binding /\ r = cmd[p].route /\ n = cmd[p].seen OBVIOUS
  <2>3. reached[p] = <<r, n>> /\ b \in since[p].bindings /\ r \in since[p].routes /\ StandsFor(b, r, n)
    BY <2>1, <2>2 DEF SentRight
  <2>4. reached[p][1] = r /\ reached[p][2] = n BY <2>3
  <2>5. CASE b = 0
    <3>1. BoundTo(b)[2] = 0 /\ n = 0 BY <2>3, <2>5 DEF BoundTo, StandsFor
    <3> QED BY <2>2, <2>3, <2>4, <2>5, <3>1
  <2>6. CASE b # 0
    <3>1. BoundTo(b) = <<r, n>> BY <2>3, <2>6 DEF BoundTo, StandsFor
    <3>2. BoundTo(b)[1] = r /\ BoundTo(b)[2] = n BY <3>1
    <3> QED BY <2>2, <2>3, <2>4, <3>2
  <2> QED BY <2>5, <2>6
<1> QED BY <1>1, <1>2, <1>3, <1>4 DEF AddressesSafe

(* The book of routes and recipients, for any number of processes and any  *)
(* commands: a confirmed change stays in its file whatever kills, disk     *)
(* errors and losses of power come later, a refused one is in none, no two *)
(* addresses have one label, and a message through an address reaches the  *)
(* session that the reviewed revision stands for, over the preset's route. *)
THEOREM AddressesHeld == AddressBookInit /\ [][AddressBookNext]_bookVars => []AddressesSafe
<1>1. AddressBookInit => BookInv BY BookOpens
<1>2. BookInv /\ [AddressBookNext]_bookVars => BookInv' BY BookStep
<1>3. BookInv => AddressesSafe BY BookInvSafe
<1> QED BY <1>1, <1>2, <1>3, PTL

-----------------------------------------------------------------------------

(* The steps at which a publisher holds the installation lock.             *)
Holding == {"locked", "observed", "kept", "ready", "published", "verified",
            "failed", "owned", "restored", "undone"}

PublisherFields == {"step", "seen", "kept", "made", "printed", "put", "replaced", "found", "disturbed"}

UpdateShapes ==
  /\ DOMAIN publisher = Clients /\ DOMAIN told = Clients
  /\ \A c \in Clients : DOMAIN publisher[c] = PublisherFields

(* A file is absent, or has a version.                                     *)
FileKnown(f) == f = NoProgram \/ f.version \in Nat \ {0}

(* One publisher at a time holds the lock, and it is between taking it and *)
(* its end.                                                                *)
LockHeld(c) ==
  /\ publisher[c].step \in Holding <=> c \in installLock
  /\ c \in installLock => installLock = {c}
  /\ publisher[c].step \in Holding \cup {"none", "staged", "ended"}

(* What is printed and said of a publisher agrees with what it has done.   *)
SaidRight(c) ==
  /\ publisher[c].step \in {"none", "staged", "locked"} => ~publisher[c].put
  /\ publisher[c].step \in {"published", "verified"} => publisher[c].put
  /\ publisher[c].printed = "receipt" => publisher[c].put /\ publisher[c].step = "ended"
  /\ publisher[c].printed = "rejection" => ~publisher[c].put /\ publisher[c].step = "ended"
  /\ told[c] \in {"committed", "updated", "mismatch"} => publisher[c].put /\ publisher[c].step = "ended"
  /\ told[c] = "not_started" => ~publisher[c].put /\ publisher[c].step \in {"none", "ended"}

(* The launcher is the one found, or the one made where there was none.    *)
LauncherAs(c) ==
  /\ publisher[c].made => publisher[c].found = "none" /\ launcher = "push"
  /\ ~publisher[c].made => launcher = publisher[c].found

(* As long as the outsider does not come, what a publisher saw, kept and   *)
(* found still is what it works on.                                        *)
StillOwn(c) == publisher[c].disturbed = {} =>
  /\ publisher[c].step \in {"observed", "kept", "ready"} =>
       publisher[c].seen = program.version /\ program.version < ReleaseOf[c]
  /\ publisher[c].step \in {"kept", "ready"} => publisher[c].kept = program
  /\ publisher[c].step \in {"published", "verified", "failed", "owned"} =>
       /\ publisher[c].kept = publisher[c].replaced
       /\ publisher[c].replaced.version = publisher[c].seen
       /\ publisher[c].replaced.version < ReleaseOf[c]
  /\ publisher[c].step \in {"restored", "undone"} => program = publisher[c].replaced
  /\ publisher[c].step \in {"ready", "published", "verified", "failed", "owned", "restored"} => LauncherAs(c)
  /\ publisher[c].step = "undone" => launcher = publisher[c].found

(* A publisher whose file was replaced since it put it there finds a file  *)
(* that is not its own, and gets no further than looking.                  *)
Overtaken(c) ==
  /\ publisher[c].disturbed \cap {"published", "failed"} # {} =>
       publisher[c].step \in {"published", "verified", "failed"} /\ program.by \in {Outsider, 0}
  /\ publisher[c].step \in Holding \/ publisher[c].disturbed = {}

PublisherRight(c) ==
  /\ LockHeld(c)
  /\ SaidRight(c)
  /\ FileKnown(publisher[c].kept)
  /\ StillOwn(c)
  /\ Overtaken(c)

UpdatesInv ==
  /\ UpdateShapes
  /\ FileKnown(program)
  /\ \A c \in Clients : PublisherRight(c)
LEMMA StartFields ==
  /\ NotStarted.step = "none" /\ NotStarted.seen = 0 /\ NotStarted.kept = NoProgram
  /\ NotStarted.made = FALSE /\ NotStarted.printed = "nothing" /\ NotStarted.put = FALSE
  /\ NotStarted.replaced = NoProgram /\ NotStarted.found = "none" /\ NotStarted.disturbed = {}
  /\ DOMAIN NotStarted = PublisherFields
  BY DEF NotStarted, PublisherFields

LEMMA UpdatesStart == ASSUME UpdatesInit PROVE UpdatesInv
<1>1. \A c \in Clients : publisher[c] = NotStarted /\ told[c] = "unasked"
  BY DEF UpdatesInit
<1>2. installLock = {} BY DEF UpdatesInit
<1>3. UpdateShapes BY <1>1, StartFields DEF UpdateShapes, UpdatesInit
<1>4. FileKnown(program) BY DEF UpdatesInit, FileKnown, NoProgram
<1>5. ASSUME NEW c \in Clients PROVE PublisherRight(c)
  <2>1. LockHeld(c) /\ SaidRight(c)
    BY <1>1, <1>2, StartFields DEF LockHeld, SaidRight, Holding
  <2>2. FileKnown(publisher[c].kept) BY <1>1, StartFields DEF FileKnown
  <2>3. StillOwn(c) /\ Overtaken(c) BY <1>1, StartFields DEF StillOwn, Overtaken
  <2>4. QED BY <2>1, <2>2, <2>3 DEF PublisherRight
<1>6. QED BY <1>3, <1>4, <1>5 DEF UpdatesInv

(* A step of one publisher writes its own record only.                     *)
LEMMA OneAdvances ==
  ASSUME UpdatesInv, NEW c \in Clients, NEW r, DOMAIN r = PublisherFields, Advance(c, r), told' = told
  PROVE  /\ UpdateShapes'
         /\ publisher'[c] = r /\ told'[c] = told[c]
         /\ \A q \in Clients \ {c} : publisher'[q] = publisher[q] /\ told'[q] = told[q]
  BY DEF UpdatesInv, UpdateShapes, Advance

(* A step of one publisher changes the installation only while it holds    *)
(* the lock, and then no other publisher depends on it.                    *)
LEMMA OtherPublishersKeep ==
  ASSUME UpdatesInv, NEW c \in Clients,
         \A q \in Clients \ {c} : publisher'[q] = publisher[q] /\ told'[q] = told[q],
         \/ installLock' = installLock
         \/ installLock' = installLock \ {c}
         \/ installLock = {} /\ installLock' = {c},
         (program' = program /\ launcher' = launcher) \/ c \in installLock
  PROVE  \A q \in Clients \ {c} : PublisherRight(q)'
<1> TAKE q \in Clients \ {c}
<1>1. publisher'[q] = publisher[q] /\ told'[q] = told[q]
  OBVIOUS
<1>2. PublisherRight(q) /\ LockHeld(q) /\ LockHeld(c) /\ SaidRight(q) /\ FileKnown(publisher[q].kept) /\ StillOwn(q) /\ Overtaken(q)
  BY DEF UpdatesInv, PublisherRight
<1>3. LockHeld(q)' BY <1>1, <1>2 DEF LockHeld
<1>4. SaidRight(q)' BY <1>1, <1>2 DEF SaidRight
<1>5. FileKnown(publisher[q].kept)' BY <1>1, <1>2 DEF FileKnown
<1>6. StillOwn(q)' /\ Overtaken(q)'
  <2>1. CASE program' = program /\ launcher' = launcher
    BY <1>1, <1>2, <2>1 DEF StillOwn, Overtaken, LauncherAs
  <2>2. CASE c \in installLock
    <3>1. q \notin installLock BY <1>2, <2>2 DEF LockHeld
    <3>2. publisher[q].step \notin Holding BY <1>2, <3>1 DEF LockHeld
    <3>3. publisher'[q].step \notin Holding /\ publisher'[q].disturbed = {}
      BY <1>1, <1>2, <3>2 DEF Overtaken
    <3>4. QED BY <3>3 DEF StillOwn, Overtaken, Holding
  <2>3. QED BY <2>1, <2>2
<1>7. QED BY <1>3, <1>4, <1>5, <1>6 DEF PublisherRight

(* A publisher that ends leaves the lock, and what it printed is true.     *)
LEMMA EndsRightly ==
  ASSUME UpdatesInv, NEW c \in Clients, NEW said \in {"nothing", "receipt", "rejection"}, Ends(c, said),
         program' = program, launcher' = launcher, told' = told,
         publisher[c].step \notin {"none", "ended"},
         said = "receipt" => publisher[c].put,
         said = "rejection" => ~publisher[c].put
  PROVE  UpdatesInv'
<1> DEFINE r == [NotStarted EXCEPT !.step = "ended", !.printed = said, !.put = publisher[c].put]
<1>1. DOMAIN r = PublisherFields BY StartFields
<1>2. Advance(c, r) /\ installLock' = installLock \ {c} BY DEF Ends, Leave
<1>3. /\ r.step = "ended" /\ r.printed = said /\ r.put = publisher[c].put
      /\ r.kept = NoProgram /\ r.disturbed = {}
  BY StartFields DEF PublisherFields
<1> HIDE DEF r
<1>4. UpdateShapes' /\ publisher'[c] = r /\ told'[c] = told[c]
      /\ \A q \in Clients \ {c} : publisher'[q] = publisher[q] /\ told'[q] = told[q]
  BY <1>1, <1>2, OneAdvances
<1>5. \A q \in Clients \ {c} : PublisherRight(q)' BY <1>2, <1>4, OtherPublishersKeep
<1>6. LockHeld(c) /\ SaidRight(c) BY DEF UpdatesInv, PublisherRight
<1>7. LockHeld(c)' BY <1>2, <1>3, <1>4 DEF LockHeld, Holding
<1>8. SaidRight(c)' BY <1>3, <1>4, <1>6 DEF SaidRight
<1>9. FileKnown(publisher[c].kept)' /\ StillOwn(c)' /\ Overtaken(c)'
  BY <1>3, <1>4 DEF FileKnown, StillOwn, Overtaken
<1>10. PublisherRight(c)' /\ FileKnown(program)'
  BY <1>7, <1>8, <1>9 DEF PublisherRight, UpdatesInv
<1>11. QED BY <1>4, <1>5, <1>10 DEF UpdatesInv
(* Facts of a file's version.                                              *)
LEMMA AbsentOrVersioned ==
  ASSUME NEW f, FileKnown(f)
  PROVE  /\ f.version = 0 <=> f = NoProgram
         /\ f.version \in Nat
  BY DEF FileKnown, NoProgram

(* The client's command: only what it says changes.                        *)
LEMMA PushCommandRight ==
  ASSUME UpdatesInv, NEW c \in Clients,
         UNCHANGED <<program, launcher, installLock>>,
         NEW r, DOMAIN r = PublisherFields, NEW t,
         (publisher' = publisher /\ r = publisher[c]) \/ publisher' = [publisher EXCEPT ![c] = r],
         (told' = told /\ t = told[c]) \/ told' = [told EXCEPT ![c] = t],
         \/ r = publisher[c]
         \/ r = [publisher[c] EXCEPT !.step = "staged"] /\ t = "pushing" /\ publisher[c].step = "none",
         t \in {"committed", "updated", "mismatch"} => r.put /\ r.step = "ended",
         t = "not_started" => ~r.put /\ r.step \in {"none", "ended"}
  PROVE  UpdatesInv'
<1>1. /\ UpdateShapes'
      /\ publisher'[c] = r /\ told'[c] = t
      /\ \A q \in Clients \ {c} : publisher'[q] = publisher[q] /\ told'[q] = told[q]
  BY DEF UpdatesInv, UpdateShapes
<1>2. \A q \in Clients \ {c} : PublisherRight(q)' BY <1>1, OtherPublishersKeep
<1>3. LockHeld(c) /\ SaidRight(c) /\ FileKnown(publisher[c].kept) /\ StillOwn(c) /\ Overtaken(c)
      /\ DOMAIN publisher[c] = PublisherFields
  BY DEF UpdatesInv, PublisherRight, UpdateShapes
<1>4. PublisherRight(c)'
  <2>1. CASE r = publisher[c]
    <3>1. LockHeld(c)' /\ SaidRight(c)' BY <1>1, <1>3, <2>1 DEF LockHeld, SaidRight
    <3>2. FileKnown(publisher[c].kept)' /\ StillOwn(c)' /\ Overtaken(c)'
      BY <1>1, <1>3, <2>1 DEF FileKnown, StillOwn, Overtaken, LauncherAs
    <3>3. QED BY <3>1, <3>2 DEF PublisherRight
  <2>2. CASE r = [publisher[c] EXCEPT !.step = "staged"] /\ t = "pushing" /\ publisher[c].step = "none"
    <3>1. r.step = "staged" /\ r.put = publisher[c].put /\ r.printed = publisher[c].printed
          /\ r.kept = publisher[c].kept /\ r.disturbed = publisher[c].disturbed
      BY <1>3, <2>2 DEF PublisherFields
    <3>2. publisher[c].printed \notin {"receipt", "rejection"} /\ ~publisher[c].put
      BY <1>3, <2>2 DEF SaidRight
    <3>4. LockHeld(c)' BY <1>1, <1>3, <2>2, <3>1 DEF LockHeld, Holding
    <3>5. SaidRight(c)' BY <1>1, <2>2, <3>1, <3>2 DEF SaidRight
    <3>3. FileKnown(publisher[c].kept)' /\ StillOwn(c)' /\ Overtaken(c)'
      BY <1>1, <1>3, <2>2, <3>1 DEF FileKnown, StillOwn, Overtaken, Holding
    <3>6. QED BY <1>1, <3>1, <3>3, <3>4, <3>5 DEF PublisherRight
  <2>3. QED BY <2>1, <2>2
<1>5. QED BY <1>1, <1>2, <1>4 DEF UpdatesInv

LEMMA PushCommandKeeps ==
  ASSUME UpdatesInv, NEW c \in Clients,
         AskVersion(c) \/ Transfer(c) \/ CallEnds(c) \/ VerifyInstalled(c)
  PROVE  UpdatesInv'
<1>1. /\ SaidRight(c) /\ DOMAIN publisher[c] = PublisherFields /\ DOMAIN publisher = Clients /\ DOMAIN told = Clients
  BY DEF UpdatesInv, PublisherRight, UpdateShapes
<1>3. CASE AskVersion(c)
  <2>1. PICK t \in {"pushing", "current"} : told' = [told EXCEPT ![c] = t]
    BY <1>3 DEF AskVersion
  <2>2. UNCHANGED <<program, launcher, installLock>> /\ publisher' = publisher
    BY <1>3 DEF AskVersion
  <2>3. t \notin {"committed", "updated", "mismatch", "not_started"} BY <2>1
  <2>4. QED BY <1>1, <2>1, <2>2, <2>3, PushCommandRight
<1>4. CASE Transfer(c)
  <2> DEFINE r == [publisher[c] EXCEPT !.step = "staged"]
  <2>1. DOMAIN r = PublisherFields BY <1>1
  <2>2. publisher' = [publisher EXCEPT ![c] = r] /\ told' = told
        /\ UNCHANGED <<program, launcher, installLock>>
    BY <1>4 DEF Transfer, Advance
  <2>3. publisher[c].step = "none" BY <1>4 DEF Transfer, On
  <2> DEFINE t == "pushing"
  <2>4. t \notin {"committed", "updated", "mismatch", "not_started"}
    OBVIOUS
  <2>5. r = [publisher[c] EXCEPT !.step = "staged"] /\ t = "pushing" /\ told[c] = t
    BY <1>4 DEF Transfer
  <2> HIDE DEF r, t
  <2>6. QED BY <2>1, <2>2, <2>3, <2>4, <2>5, PushCommandRight
<1>5. CASE CallEnds(c)
  <2>1. UNCHANGED <<program, launcher, installLock>> /\ publisher' = publisher
    BY <1>5 DEF CallEnds
  <2>2. CASE On(c, "none") /\ told' = [told EXCEPT ![c] = "not_started"]
    <3> DEFINE t == "not_started"
    <3>1. ~publisher[c].put /\ publisher[c].step = "none"
      BY <1>1, <2>2 DEF On, SaidRight
    <3>2. t = "not_started" /\ t \notin {"committed", "updated", "mismatch"} /\ told' = [told EXCEPT ![c] = t]
      BY <2>2
    <3> HIDE DEF t
    <3>3. QED BY <1>1, <2>1, <3>1, <3>2, PushCommandRight
  <2>3. CASE \E t \in Evidence(c) : told' = [told EXCEPT ![c] = t]
    <3>1. PICK t \in Evidence(c) : told' = [told EXCEPT ![c] = t] BY <2>3
    <3>2. \/ t = "unknown"
          \/ t = "committed" /\ publisher[c].printed = "receipt"
          \/ t = "not_started" /\ publisher[c].printed = "rejection"
      BY <3>1 DEF Evidence
    <3>3. /\ t \in {"committed", "updated", "mismatch"} => publisher[c].put /\ publisher[c].step = "ended"
          /\ t = "not_started" => ~publisher[c].put /\ publisher[c].step \in {"none", "ended"}
      BY <1>1, <3>2 DEF SaidRight
    <3>4. QED BY <1>1, <2>1, <3>1, <3>3, PushCommandRight
  <2>4. QED BY <1>5, <2>2, <2>3 DEF CallEnds
<1>6. CASE VerifyInstalled(c)
  <2>1. PICK t \in {"updated", "mismatch"} : told' = [told EXCEPT ![c] = t]
    BY <1>6 DEF VerifyInstalled
  <2>2. UNCHANGED <<program, launcher, installLock>> /\ publisher' = publisher
    BY <1>6 DEF VerifyInstalled
  <2>3. publisher[c].put /\ publisher[c].step = "ended" /\ t # "not_started"
    BY <1>1, <1>6, <2>1 DEF VerifyInstalled, SaidRight
  <2>4. QED BY <1>1, <2>1, <2>2, <2>3, PushCommandRight
<1>7. QED BY <1>3, <1>4, <1>5, <1>6

(* A publisher goes on: what is to be shown of its own record.             *)
LEMMA PublisherGoesOn ==
  ASSUME UpdatesInv, NEW c \in Clients, NEW r, DOMAIN r = PublisherFields, Advance(c, r), told' = told,
         publisher[c].step \in Holding \cup {"staged"}, r.step \in Holding,
         r.printed = publisher[c].printed, r.disturbed = publisher[c].disturbed,
         installLock' = installLock \cup {c}, publisher[c].step = "staged" => installLock = {},
         (program' = program /\ launcher' = launcher) \/ publisher[c].step \in Holding,
         FileKnown(program'), FileKnown(r.kept),
         r.step = "locked" => ~r.put,
         r.step \in {"published", "verified"} => r.put,
         StillOwn(c)', Overtaken(c)'
  PROVE  UpdatesInv'
<1>1. LockHeld(c) /\ SaidRight(c) BY DEF UpdatesInv, PublisherRight
<1>2. /\ UpdateShapes'
      /\ publisher'[c] = r /\ told'[c] = told[c]
      /\ \A q \in Clients \ {c} : publisher'[q] = publisher[q] /\ told'[q] = told[q]
  BY OneAdvances
<1>3. c \in installLock \/ installLock = {} BY <1>1 DEF LockHeld
<1>4. \A q \in Clients \ {c} : PublisherRight(q)'
  <2>1. \/ installLock' = installLock
        \/ installLock = {} /\ installLock' = {c}
    BY <1>3
  <2>2. (program' = program /\ launcher' = launcher) \/ c \in installLock
    BY <1>1 DEF LockHeld
  <2>3. QED BY <1>2, <2>1, <2>2, OtherPublishersKeep
<1>5. LockHeld(c)' BY <1>1, <1>2, <1>3 DEF LockHeld
<1>6. publisher[c].step \notin {"none", "ended"} BY DEF Holding
<1>7. SaidRight(c)' BY <1>1, <1>2, <1>6 DEF SaidRight, Holding
<1>8. PublisherRight(c)' BY <1>2, <1>5, <1>7 DEF PublisherRight
<1>9. QED BY <1>2, <1>4, <1>8 DEF UpdatesInv
(* Fields of a record after one or two of them are replaced.               *)
LEMMA PublisherStepOnly ==
  ASSUME NEW p, DOMAIN p = PublisherFields, NEW s, NEW r, r = [p EXCEPT !.step = s]
  PROVE  /\ DOMAIN r = PublisherFields /\ r.step = s /\ r.seen = p.seen /\ r.kept = p.kept
         /\ r.made = p.made /\ r.printed = p.printed /\ r.put = p.put /\ r.replaced = p.replaced
         /\ r.found = p.found /\ r.disturbed = p.disturbed
  BY DEF PublisherFields

(* The publisher's steps that keep the lock, one by one.                   *)
LEMMA PublisherLocks ==
  ASSUME UpdatesInv, NEW c \in Clients, TakeInstallLock(c)
  PROVE  UpdatesInv'
<1>1. /\ SaidRight(c) /\ Overtaken(c) /\ FileKnown(publisher[c].kept) /\ DOMAIN publisher[c] = PublisherFields
      /\ FileKnown(program)
  BY DEF UpdatesInv, PublisherRight, UpdateShapes
<1>2. publisher[c].step = "staged" /\ told' = told /\ program' = program /\ launcher' = launcher
  BY DEF TakeInstallLock, On
<1>3. CASE LockFree /\ installLock' = installLock \cup {c}
           /\ Advance(c, [publisher[c] EXCEPT !.step = "locked"])
  <2>1. PICK r : r = [publisher[c] EXCEPT !.step = "locked"]
    OBVIOUS
  <2>2. DOMAIN r = PublisherFields /\ r.step = "locked" /\ r.kept = publisher[c].kept
        /\ r.printed = publisher[c].printed /\ r.put = publisher[c].put /\ r.disturbed = publisher[c].disturbed
    BY <1>1, <2>1, PublisherStepOnly
  <2>3. Advance(c, r) /\ installLock = {} /\ installLock' = installLock \cup {c}
    BY <1>3, <2>1 DEF LockFree
  <2>4. publisher'[c] = r BY <1>2, <2>2, <2>3, OneAdvances
  <2>5. r.disturbed = {} BY <1>1, <1>2, <2>2 DEF Overtaken, Holding
  <2>6. StillOwn(c)' /\ Overtaken(c)' BY <2>2, <2>4, <2>5 DEF StillOwn, Overtaken
  <2>7. r.step \in Holding /\ ~r.put /\ r.step \notin {"published", "verified"}
    BY <1>1, <1>2, <2>2 DEF Holding, SaidRight
  <2>8. FileKnown(program') /\ FileKnown(r.kept) BY <1>1, <1>2, <2>2
  <2>9. QED BY <1>2, <2>2, <2>3, <2>6, <2>7, <2>8, PublisherGoesOn
<1>4. CASE Ends(c, "nothing") BY <1>2, <1>4, EndsRightly
<1>5. QED BY <1>3, <1>4 DEF TakeInstallLock

LEMMA Observes ==
  ASSUME UpdatesInv, NEW c \in Clients, Observe(c)
  PROVE  UpdatesInv'
<1>1. /\ SaidRight(c) /\ Overtaken(c) /\ FileKnown(publisher[c].kept) /\ DOMAIN publisher[c] = PublisherFields
      /\ FileKnown(program) /\ LockHeld(c)
  BY DEF UpdatesInv, PublisherRight, UpdateShapes
<1>2. publisher[c].step = "locked" /\ told' = told /\ program' = program /\ launcher' = launcher
  BY DEF Observe, On
<1>3. CASE Outdated(c) /\ UNCHANGED installLock
           /\ Advance(c, [publisher[c] EXCEPT !.step = "observed", !.seen = program.version])
  <2>1. PICK r : r = [publisher[c] EXCEPT !.step = "observed", !.seen = program.version]
    OBVIOUS
  <2>2. DOMAIN r = PublisherFields /\ r.step = "observed" /\ r.seen = program.version /\ r.kept = publisher[c].kept
        /\ r.printed = publisher[c].printed /\ r.disturbed = publisher[c].disturbed
    BY <1>1, <2>1 DEF PublisherFields
  <2>3. Advance(c, r) /\ installLock' = installLock \cup {c}
    BY <1>1, <1>2, <1>3, <2>1 DEF LockHeld, Holding
  <2>4. publisher'[c] = r BY <1>2, <2>2, <2>3, OneAdvances
  <2>5. StillOwn(c)' /\ Overtaken(c)'
    BY <1>1, <1>2, <1>3, <2>2, <2>4 DEF StillOwn, Overtaken, Outdated, Holding
  <2>6. r.step \in Holding /\ publisher[c].step \in Holding BY <1>2, <2>2 DEF Holding
  <2>7. FileKnown(program') /\ FileKnown(r.kept) BY <1>1, <1>2, <2>2
  <2>8. QED BY <1>2, <2>2, <2>3, <2>5, <2>6, <2>7, PublisherGoesOn
<1>4. CASE Ends(c, "rejection")
  <2>1. ~publisher[c].put BY <1>1, <1>2 DEF SaidRight
  <2>2. QED BY <1>2, <1>4, <2>1, EndsRightly
<1>5. QED BY <1>3, <1>4 DEF Observe

LEMMA KeepsPrevious ==
  ASSUME UpdatesInv, NEW c \in Clients, KeepPrevious(c)
  PROVE  UpdatesInv'
<1>1. /\ SaidRight(c) /\ Overtaken(c) /\ StillOwn(c) /\ DOMAIN publisher[c] = PublisherFields
      /\ FileKnown(program) /\ LockHeld(c)
  BY DEF UpdatesInv, PublisherRight, UpdateShapes
<1>2. publisher[c].step = "observed" /\ told' = told /\ program' = program /\ launcher' = launcher
  BY DEF KeepPrevious, On
<1>3. CASE UNCHANGED installLock /\ (publisher[c].seen > 0 => program # NoProgram)
           /\ Advance(c, [publisher[c] EXCEPT !.step = "kept",
                                              !.kept = IF publisher[c].seen > 0 THEN program ELSE NoProgram])
  <2>1. PICK k : k = IF publisher[c].seen > 0 THEN program ELSE NoProgram
    OBVIOUS
  <2>2. PICK r : r = [publisher[c] EXCEPT !.step = "kept", !.kept = k]
    OBVIOUS
  <2>3. DOMAIN r = PublisherFields /\ r.step = "kept" /\ r.seen = publisher[c].seen /\ r.kept = k
        /\ r.printed = publisher[c].printed /\ r.disturbed = publisher[c].disturbed
    BY <1>1, <2>2 DEF PublisherFields
  <2>4. Advance(c, r) /\ installLock' = installLock \cup {c}
    BY <1>1, <1>2, <1>3, <2>1, <2>2 DEF LockHeld, Holding
  <2>5. publisher'[c] = r BY <1>2, <2>3, <2>4, OneAdvances
  <2>6. publisher[c].seen = program.version => k = program
    BY <1>1, <2>1, AbsentOrVersioned
  <2>7. StillOwn(c)' /\ Overtaken(c)'
    BY <1>1, <1>2, <2>3, <2>5, <2>6 DEF StillOwn, Overtaken, Holding
  <2>8. r.step \in Holding /\ publisher[c].step \in Holding BY <1>2, <2>3 DEF Holding
  <2>9. FileKnown(program') /\ FileKnown(r.kept) BY <1>1, <1>2, <2>1, <2>3 DEF FileKnown
  <2>10. QED BY <1>2, <2>3, <2>4, <2>7, <2>8, <2>9, PublisherGoesOn
<1>4. CASE Ends(c, "nothing") BY <1>2, <1>4, EndsRightly
<1>5. QED BY <1>3, <1>4 DEF KeepPrevious

LEMMA MakesLauncher ==
  ASSUME UpdatesInv, NEW c \in Clients, MakeLauncher(c)
  PROVE  UpdatesInv'
<1>1. /\ SaidRight(c) /\ Overtaken(c) /\ StillOwn(c) /\ DOMAIN publisher[c] = PublisherFields
      /\ FileKnown(program) /\ FileKnown(publisher[c].kept) /\ LockHeld(c)
  BY DEF UpdatesInv, PublisherRight, UpdateShapes
<1>2. publisher[c].step = "kept" /\ told' = told /\ program' = program
  BY DEF MakeLauncher, On
<1>3. CASE launcher # "foreign" /\ UNCHANGED installLock
           /\ Advance(c, [publisher[c] EXCEPT !.step = "ready", !.made = launcher = "none", !.found = launcher])
           /\ launcher' = IF launcher = "none" THEN "push" ELSE launcher
  <2>1. PICK b \in BOOLEAN : b = (launcher = "none")
    OBVIOUS
  <2>2. PICK r : r = [publisher[c] EXCEPT !.step = "ready", !.made = b, !.found = launcher]
    OBVIOUS
  <2>3. DOMAIN r = PublisherFields /\ r.step = "ready" /\ r.seen = publisher[c].seen /\ r.kept = publisher[c].kept
        /\ r.printed = publisher[c].printed /\ r.disturbed = publisher[c].disturbed
        /\ r.made = b /\ r.found = launcher
    BY <1>1, <2>2 DEF PublisherFields
  <2>4. Advance(c, r) /\ installLock' = installLock \cup {c}
    BY <1>1, <1>2, <1>3, <2>1, <2>2 DEF LockHeld, Holding
  <2>5. publisher'[c] = r BY <1>2, <2>3, <2>4, OneAdvances
  <2>6. (b => launcher = "none" /\ launcher' = "push") /\ (~b => launcher' = launcher)
    BY <1>3, <2>1
  <2>7. LauncherAs(c)' BY <2>3, <2>5, <2>6 DEF LauncherAs
  <2>8. StillOwn(c)' /\ Overtaken(c)'
    BY <1>1, <1>2, <2>3, <2>5, <2>7 DEF StillOwn, Overtaken, Holding
  <2>9. r.step \in Holding /\ publisher[c].step \in Holding BY <1>2, <2>3 DEF Holding
  <2>10. FileKnown(program') /\ FileKnown(r.kept) BY <1>1, <1>2, <2>3 DEF FileKnown
  <2>11. QED BY <1>2, <2>3, <2>4, <2>8, <2>9, <2>10, PublisherGoesOn
<1>4. CASE Ends(c, "nothing") /\ launcher' = launcher BY <1>2, <1>4, EndsRightly
<1>5. QED BY <1>3, <1>4 DEF MakeLauncher
LEMMA PutsInPlace ==
  ASSUME UpdatesInv, NEW c \in Clients, PutInPlace(c) \/ PutFails(c)
  PROVE  UpdatesInv'
<1>1. /\ SaidRight(c) /\ Overtaken(c) /\ StillOwn(c) /\ DOMAIN publisher[c] = PublisherFields
      /\ FileKnown(program) /\ FileKnown(publisher[c].kept) /\ LockHeld(c)
  BY DEF UpdatesInv, PublisherRight, UpdateShapes
<1>2. publisher[c].step = "ready" /\ told' = told /\ launcher' = launcher /\ installLock' = installLock
  BY DEF PutInPlace, PutFails, On
<1>3. installLock' = installLock \cup {c} /\ publisher[c].step \in Holding
  BY <1>1, <1>2 DEF LockHeld, Holding
<1>4. CASE PutInPlace(c)
  <2>1. PICK r : r = [publisher[c] EXCEPT !.step = "published", !.put = TRUE, !.replaced = program]
    OBVIOUS
  <2>2. DOMAIN r = PublisherFields /\ r.step = "published" /\ r.seen = publisher[c].seen /\ r.kept = publisher[c].kept
        /\ r.printed = publisher[c].printed /\ r.disturbed = publisher[c].disturbed
        /\ r.made = publisher[c].made /\ r.found = publisher[c].found /\ r.put = TRUE /\ r.replaced = program
    BY <1>1, <2>1 DEF PublisherFields
  <2>3. Advance(c, r) /\ program' = Copy(c) BY <1>4, <2>1 DEF PutInPlace
  <2>4. publisher'[c] = r BY <1>2, <2>2, <2>3, OneAdvances
  <2>5. LauncherAs(c) => LauncherAs(c)' BY <1>2, <2>2, <2>4 DEF LauncherAs
  <2>6. StillOwn(c)' /\ Overtaken(c)'
    BY <1>1, <1>2, <2>2, <2>4, <2>5 DEF StillOwn, Overtaken, Holding
  <2>7. r.step \in Holding /\ r.step # "locked" BY <2>2 DEF Holding
  <2>8. FileKnown(program') /\ FileKnown(r.kept)
    BY <1>1, <2>2, <2>3, ReleasesAssumption DEF ReleasesAssumption, FileKnown, Copy
  <2>9. QED BY <1>2, <1>3, <2>2, <2>3, <2>6, <2>7, <2>8, PublisherGoesOn
<1>5. CASE PutFails(c)
  <2>1. PICK r : r = [publisher[c] EXCEPT !.step = "restored", !.replaced = program]
    OBVIOUS
  <2>2. DOMAIN r = PublisherFields /\ r.step = "restored" /\ r.kept = publisher[c].kept
        /\ r.printed = publisher[c].printed /\ r.disturbed = publisher[c].disturbed
        /\ r.made = publisher[c].made /\ r.found = publisher[c].found /\ r.replaced = program
    BY <1>1, <2>1 DEF PublisherFields
  <2>3. Advance(c, r) /\ program' = program BY <1>5, <2>1 DEF PutFails
  <2>4. publisher'[c] = r BY <1>2, <2>2, <2>3, OneAdvances
  <2>5. LauncherAs(c) => LauncherAs(c)' BY <1>2, <2>2, <2>4 DEF LauncherAs
  <2>6. StillOwn(c)' /\ Overtaken(c)'
    BY <1>1, <1>2, <2>2, <2>3, <2>4, <2>5 DEF StillOwn, Overtaken, Holding
  <2>7. r.step \in Holding /\ r.step \notin {"locked", "published", "verified"}
    BY <2>2 DEF Holding
  <2>8. FileKnown(program') /\ FileKnown(r.kept) BY <1>1, <2>2, <2>3
  <2>9. QED BY <1>2, <1>3, <2>2, <2>3, <2>6, <2>7, <2>8, PublisherGoesOn
<1>6. QED BY <1>4, <1>5

(* The steps after publication that leave the files: running the published *)
(* program, and the look at it before the rollback.                        *)
LEMMA LooksAgain ==
  ASSUME UpdatesInv, NEW c \in Clients, NEW s \in {"verified", "failed", "owned"},
         \/ publisher[c].step = "published" /\ s \in {"verified", "failed"}
         \/ publisher[c].step = "failed" /\ s = "owned" /\ OwnsPublication(c),
         Advance(c, [publisher[c] EXCEPT !.step = s]),
         UNCHANGED <<program, launcher, told, installLock>>
  PROVE  UpdatesInv'
<1>1. /\ SaidRight(c) /\ Overtaken(c) /\ StillOwn(c) /\ DOMAIN publisher[c] = PublisherFields
      /\ FileKnown(program) /\ FileKnown(publisher[c].kept) /\ LockHeld(c)
  BY DEF UpdatesInv, PublisherRight, UpdateShapes
<1>2. installLock' = installLock \cup {c} /\ publisher[c].step \in Holding
  BY <1>1 DEF LockHeld, Holding
<1>3. PICK r : r = [publisher[c] EXCEPT !.step = s]
  OBVIOUS
<1>4. /\ DOMAIN r = PublisherFields /\ r.step = s /\ r.seen = publisher[c].seen /\ r.kept = publisher[c].kept
      /\ r.printed = publisher[c].printed /\ r.disturbed = publisher[c].disturbed
      /\ r.made = publisher[c].made /\ r.found = publisher[c].found /\ r.put = publisher[c].put
      /\ r.replaced = publisher[c].replaced
  BY <1>1, <1>3, PublisherStepOnly
<1>5. Advance(c, r) BY <1>3
<1>6. publisher'[c] = r BY <1>4, <1>5, OneAdvances
<1>7. LauncherAs(c) => LauncherAs(c)' BY <1>4, <1>6 DEF LauncherAs
<1>8. StillOwn(c)' BY <1>1, <1>4, <1>6, <1>7 DEF StillOwn
<1>9. Overtaken(c)'
  <2>1. s = "owned" => publisher[c].disturbed \cap {"published", "failed"} = {}
    <3>1. OwnsPublication(c) => program.by \notin {Outsider, 0}
      BY ReleasesAssumption DEF ReleasesAssumption, OwnsPublication, Outsider
    <3>2. QED BY <1>1, <3>1 DEF Overtaken
  <2>2. QED BY <1>1, <1>4, <1>6, <2>1 DEF Overtaken, Holding
<1>10. /\ r.step \in Holding /\ r.step # "locked"
       /\ r.step \in {"published", "verified"} => r.put
  BY <1>1, <1>4 DEF Holding, SaidRight
<1>11. FileKnown(program') /\ FileKnown(r.kept) BY <1>1, <1>4
<1>12. QED BY <1>2, <1>4, <1>5, <1>8, <1>9, <1>10, <1>11, PublisherGoesOn

(* The rollback puts the files back one by one.                            *)
LEMMA PutsBack ==
  ASSUME UpdatesInv, NEW c \in Clients, Restore(c) \/ RemoveLauncher(c)
  PROVE  UpdatesInv'
<1>1. /\ SaidRight(c) /\ Overtaken(c) /\ StillOwn(c) /\ DOMAIN publisher[c] = PublisherFields
      /\ FileKnown(program) /\ FileKnown(publisher[c].kept) /\ LockHeld(c)
  BY DEF UpdatesInv, PublisherRight, UpdateShapes
<1>2. PICK s \in {"restored", "undone"} :
        /\ Advance(c, [publisher[c] EXCEPT !.step = s])
        /\ s = "restored" <=> publisher[c].step = "owned"
        /\ publisher[c].step \in {"owned", "restored"}
  BY DEF Restore, RemoveLauncher, On
<1>3. told' = told BY DEF Restore, RemoveLauncher
<1>4. installLock' = installLock \cup {c} /\ publisher[c].step \in Holding /\ publisher[c].step # "staged"
  BY <1>1, <1>2 DEF LockHeld, Holding, Restore, RemoveLauncher
<1>5. PICK r : r = [publisher[c] EXCEPT !.step = s]
  OBVIOUS
<1>6. /\ DOMAIN r = PublisherFields /\ r.step = s /\ r.seen = publisher[c].seen /\ r.kept = publisher[c].kept
      /\ r.printed = publisher[c].printed /\ r.disturbed = publisher[c].disturbed
      /\ r.made = publisher[c].made /\ r.found = publisher[c].found
      /\ r.replaced = publisher[c].replaced
  BY <1>1, <1>5, PublisherStepOnly
<1>7. Advance(c, r) BY <1>2, <1>5
<1>8. publisher'[c] = r BY <1>3, <1>6, <1>7, OneAdvances
<1>9. Overtaken(c)' BY <1>1, <1>2, <1>6, <1>8 DEF Overtaken, Holding
<1>10. r.step \in Holding /\ r.step \notin {"locked", "published", "verified"}
  BY <1>6 DEF Holding
<1>11. CASE Restore(c)
  <2>1. program' = publisher[c].kept /\ launcher' = launcher /\ publisher[c].step = "owned"
    BY <1>11 DEF Restore, On
  <2>2. LauncherAs(c) => LauncherAs(c)' BY <1>6, <1>8, <2>1 DEF LauncherAs
  <2>3. StillOwn(c)' BY <1>1, <1>2, <1>6, <1>8, <2>1, <2>2 DEF StillOwn
  <2>4. FileKnown(program') /\ FileKnown(r.kept) BY <1>1, <1>6, <2>1
  <2>5. QED BY <1>3, <1>4, <1>6, <1>7, <1>9, <1>10, <2>3, <2>4, PublisherGoesOn
<1>12. CASE RemoveLauncher(c)
  <2>1. program' = program /\ publisher[c].step = "restored"
        /\ launcher' = IF publisher[c].made /\ launcher = "push" THEN "none" ELSE launcher
    BY <1>12 DEF RemoveLauncher, On
  <2>2. LauncherAs(c) => launcher' = publisher[c].found BY <2>1 DEF LauncherAs
  <2>3. StillOwn(c)' BY <1>1, <1>2, <1>6, <1>8, <2>1, <2>2 DEF StillOwn
  <2>4. FileKnown(program') /\ FileKnown(r.kept) BY <1>1, <1>6, <2>1
  <2>5. QED BY <1>3, <1>4, <1>6, <1>7, <1>9, <1>10, <2>3, <2>4, PublisherGoesOn
<1>13. QED BY <1>11, <1>12

(* One step of a publisher.                                                *)
LEMMA PublisherKeeps ==
  ASSUME UpdatesInv, NEW c \in Clients, Publisher(c)
  PROVE  UpdatesInv'
<1>1. CASE TakeInstallLock(c) BY <1>1, PublisherLocks
<1>2. CASE Observe(c) BY <1>2, Observes
<1>3. CASE KeepPrevious(c) BY <1>3, KeepsPrevious
<1>4. CASE MakeLauncher(c) BY <1>4, MakesLauncher
<1>5. CASE PutInPlace(c) \/ PutFails(c) BY <1>5, PutsInPlace
<1>6. CASE RunPublished(c)
  <2>1. PICK s \in {"verified", "failed"} : Advance(c, [publisher[c] EXCEPT !.step = s])
    BY <1>6 DEF RunPublished
  <2>2. publisher[c].step = "published" /\ UNCHANGED <<program, launcher, told, installLock>>
    BY <1>6 DEF RunPublished, On
  <2>3. QED BY <2>1, <2>2, LooksAgain
<1>7. CASE LookAtOwn(c)
  <2>1. publisher[c].step = "failed" /\ UNCHANGED <<program, launcher, told>>
    BY <1>7 DEF LookAtOwn, On
  <2>2. CASE OwnsPublication(c) /\ Advance(c, [publisher[c] EXCEPT !.step = "owned"]) /\ UNCHANGED installLock
    <3>1. PICK s \in {"owned"} : s = "owned"
      OBVIOUS
    <3>2. Advance(c, [publisher[c] EXCEPT !.step = s]) BY <2>2, <3>1
    <3>3. QED BY <2>1, <2>2, <3>1, <3>2, LooksAgain
  <2>3. CASE Ends(c, "nothing") BY <2>1, <2>3, EndsRightly
  <2>4. QED BY <1>7, <2>2, <2>3 DEF LookAtOwn
<1>8. CASE PrintReceipt(c)
  <2>1. publisher[c].step = "verified" /\ UNCHANGED <<program, launcher, told>> /\ Ends(c, "receipt")
    BY <1>8 DEF PrintReceipt, On
  <2>2. publisher[c].put BY <2>1 DEF UpdatesInv, PublisherRight, SaidRight
  <2>3. QED BY <2>1, <2>2, EndsRightly
<1>9. CASE Restore(c) \/ RemoveLauncher(c) BY <1>9, PutsBack
<1>10. CASE RestoreFails(c) \/ Undone(c) \/ PublisherKilled(c)
  <2>1. publisher[c].step \notin {"none", "ended"} /\ UNCHANGED <<program, launcher, told>> /\ Ends(c, "nothing")
    BY <1>10 DEF RestoreFails, Undone, PublisherKilled, On
  <2>2. QED BY <2>1, EndsRightly
<1>11. QED BY <1>1, <1>2, <1>3, <1>4, <1>5, <1>6, <1>7, <1>8, <1>9, <1>10 DEF Publisher

(* The outsider puts in a file of its own, or takes the file away, and the *)
(* holder of the lock is disturbed where it stands.                        *)
LEMMA OutsiderKeeps ==
  ASSUME UpdatesInv, InstallOutside \/ UninstallOutside
  PROVE  UpdatesInv'
<1>1. publisher' = Disturbed /\ installLock' = installLock /\ told' = told
  BY DEF InstallOutside, UninstallOutside, OutsideStep
<1>2. program'.by \in {Outsider, 0} /\ FileKnown(program')
  <2>1. CASE InstallOutside
    <3>1. PICK v \in OutsideReleases : program' = [by |-> Outsider, version |-> v]
      BY <2>1 DEF InstallOutside
    <3>2. v \in Nat \ {0} BY ReleasesAssumption DEF ReleasesAssumption
    <3>3. QED BY <3>1, <3>2 DEF FileKnown
  <2>2. CASE UninstallOutside BY <2>2 DEF UninstallOutside, FileKnown, NoProgram
  <2>3. QED BY <2>1, <2>2
<1>3. ASSUME NEW c \in Clients
      PROVE  PublisherRight(c)' /\ DOMAIN publisher'[c] = PublisherFields
  <2>1. LockHeld(c) /\ SaidRight(c) /\ FileKnown(publisher[c].kept) /\ StillOwn(c) /\ Overtaken(c)
        /\ DOMAIN publisher[c] = PublisherFields
    BY DEF UpdatesInv, PublisherRight, UpdateShapes
  <2>2. CASE c \in installLock
    <3>1. PICK d : d = publisher[c].disturbed \cup {publisher[c].step}
      OBVIOUS
    <3>2. PICK r : r = [publisher[c] EXCEPT !.disturbed = d]
      OBVIOUS
    <3>3. publisher'[c] = r BY <1>1, <2>2, <3>1, <3>2 DEF Disturbed
    <3>4. DOMAIN r = PublisherFields /\ r.step = publisher[c].step /\ r.kept = publisher[c].kept
          /\ r.printed = publisher[c].printed /\ r.put = publisher[c].put /\ r.disturbed = d
      BY <2>1, <3>2 DEF PublisherFields
    <3>5. LockHeld(c)' /\ SaidRight(c)' /\ FileKnown(publisher[c].kept)'
      <4>1. LockHeld(c)' BY <1>1, <2>1, <3>3, <3>4 DEF LockHeld
      <4>2. SaidRight(c)' BY <1>1, <2>1, <3>3, <3>4 DEF SaidRight
      <4>3. QED BY <2>1, <3>3, <3>4, <4>1, <4>2
    <3>6. StillOwn(c)' BY <3>1, <3>3, <3>4 DEF StillOwn
    <3>7. publisher[c].step \in Holding BY <2>1, <2>2 DEF LockHeld
    <3>8. Overtaken(c)' BY <1>2, <2>1, <3>1, <3>3, <3>4, <3>7 DEF Overtaken
    <3>9. QED BY <3>3, <3>4, <3>5, <3>6, <3>8 DEF PublisherRight
  <2>3. CASE c \notin installLock
    <3>1. publisher'[c] = publisher[c] BY <1>1, <2>3 DEF Disturbed
    <3>2. publisher[c].step \notin Holding /\ publisher[c].disturbed = {}
      BY <2>1, <2>3 DEF LockHeld, Overtaken
    <3>3. LockHeld(c)' /\ SaidRight(c)' BY <1>1, <2>1, <3>1 DEF LockHeld, SaidRight
    <3>4. StillOwn(c)' /\ Overtaken(c)' BY <3>1, <3>2 DEF StillOwn, Overtaken, Holding
    <3>5. QED BY <2>1, <3>1, <3>3, <3>4 DEF PublisherRight
  <2>4. QED BY <2>2, <2>3
<1>4. DOMAIN publisher' = Clients /\ DOMAIN told' = Clients
  BY <1>1 DEF Disturbed, UpdatesInv, UpdateShapes
<1>5. QED BY <1>2, <1>3, <1>4 DEF UpdatesInv, UpdateShapes

LEMMA UpdatesStep == ASSUME UpdatesInv, [UpdatesNext]_updateVars PROVE UpdatesInv'
<1>1. CASE UNCHANGED updateVars
  <2>1. UpdateShapes' /\ FileKnown(program)'
    BY <1>1 DEF updateVars, UpdatesInv, UpdateShapes, FileKnown
  <2>2. ASSUME NEW c \in Clients PROVE PublisherRight(c)'
    <3>1. PublisherRight(c) BY DEF UpdatesInv
    <3>2. LockHeld(c)' /\ SaidRight(c)'
      BY <1>1, <3>1 DEF updateVars, PublisherRight, LockHeld, SaidRight
    <3>3. FileKnown(publisher[c].kept)' /\ StillOwn(c)' /\ Overtaken(c)'
      BY <1>1, <3>1 DEF updateVars, PublisherRight, FileKnown, StillOwn, LauncherAs, Overtaken
    <3>4. QED BY <3>2, <3>3 DEF PublisherRight
  <2>3. QED BY <2>1, <2>2 DEF UpdatesInv
<1>2. ASSUME NEW c \in Clients, AskVersion(c) \/ Transfer(c) \/ CallEnds(c) \/ VerifyInstalled(c) \/ Publisher(c)
      PROVE  UpdatesInv'
  BY <1>2, PushCommandKeeps, PublisherKeeps
<1>3. CASE InstallOutside \/ UninstallOutside BY <1>3, OutsiderKeeps
<1>4. QED BY <1>1, <1>2, <1>3 DEF UpdatesNext

LEMMA UpdatesInvSafe == ASSUME UpdatesInv PROVE UpdatesSafe
<1>1. \A c \in Clients : PublisherRight(c) BY DEF UpdatesInv
<1>2. PushToldTrue BY <1>1 DEF PublisherRight, SaidRight, PushToldTrue
<1>3. NoDowngrade BY <1>1 DEF PublisherRight, StillOwn, NoDowngrade
<1>4. UndoneCleanly BY <1>1 DEF PublisherRight, StillOwn, Overtaken, UndoneCleanly, On
<1>5. QED BY <1>2, <1>3, <1>4 DEF UpdatesSafe

(* Whatever releases are pushed and whenever a publisher is killed: what a *)
(* push says of its outcome is true, no push puts an older program over a  *)
(* newer one unless somebody who takes no lock came in between, and a push *)
(* that is undone leaves what was there.                                   *)
THEOREM InstallationKept == UpdatesInit /\ [][UpdatesNext]_updateVars => []UpdatesSafe
<1>1. UpdatesInit => UpdatesInv BY UpdatesStart
<1>2. UpdatesInv /\ [UpdatesNext]_updateVars => UpdatesInv' BY UpdatesStep
<1>3. UpdatesInv => UpdatesSafe BY UpdatesInvSafe
<1>4. QED BY <1>1, <1>2, <1>3, PTL

-----------------------------------------------------------------------------
(* Sends to Codex threads and the wakes they lead to.                      *)

WakeFields == {"stage", "wake", "thread", "explicit", "optIn", "seen", "root", "owner", "from", "active",
               "told", "hop", "limit", "parent", "link"}

(* The stages only a wake goes through, those at which the home is chosen, *)
(* those under the wake lock, and those after the native command.          *)
WakeOnly == {"first resolve", "preflight", "guard", "first revalidate", "second preflight", "reserve", "cut",
             "after", "wait", "stop"}
HomeChosen == {"preflight", "guard", "first revalidate", "second preflight", "reserve", "cut", "revalidate",
               "queue", "after", "wait", "stop"}
UnderLock == {"first revalidate", "second preflight", "reserve", "cut", "resolve", "revalidate", "queue",
              "after", "wait", "stop"}
Late == {"after", "wait", "stop", "over", "killed"}
SendStages == WakeOnly \cup HomeChosen \cup Late \cup {"idle", "resolve"}
SubmittedTo == {"queued", "active", "completed"}
Chained == {"inherited", "raised", "carried"}

SendShapes ==
  /\ DOMAIN send = Sends
  /\ \A s \in Sends : DOMAIN send[s] = WakeFields /\ DOMAIN send[s].seen = Homes
WakeShapes ==
  /\ SendShapes
  /\ DOMAIN server = Sends
  /\ DOMAIN guard = Homes /\ DOMAIN writer = Homes /\ DOMAIN stamps = Homes
  /\ DOMAIN queued = Homes /\ DOMAIN reserved = Homes
  /\ \A h \in Homes : DOMAIN stamps[h] = {"at", "torn"}

ClocksRight ==
  /\ real \in 0..MaxReal /\ back \in 0..MaxBack /\ back <= real /\ rate \in Rates /\ born \in 0..MaxWriter

WritersApart ==
  \A h \in Homes :
    /\ writer[h] \in 0..born
    /\ \A k \in Homes : h # k /\ writer[h] # 0 => writer[h] # writer[k]

(* Where an invocation is, and which home it has chosen.                   *)
SendPlaced(s) ==
  /\ send[s].stage \in SendStages
  /\ send[s].wake \in BOOLEAN
  /\ send[s].told \in {"nothing", "refused", "queued", "unknown", "failed", "active", "completed"}
  /\ send[s].stage \in WakeOnly => send[s].wake
  /\ send[s].root \in Copies(send[s].thread) \cup {NoHome}
  /\ send[s].explicit \in Copies(send[s].thread) \cup {NoHome}
  /\ send[s].stage \in HomeChosen \/ (send[s].wake /\ send[s].stage = "resolve") =>
       send[s].root \in Copies(send[s].thread)
  /\ send[s].from \in 0..born
  /\ send[s].stage = "idle" => ~send[s].wake /\ send[s].root = NoHome

(* Under the wake lock the lock is the invocation's.                       *)
LockIsMine(s) ==
  /\ send[s].wake /\ send[s].stage \in UnderLock => guard[send[s].root] = s

(* Its app-server lives while it waits for it, or when it was killed; and  *)
(* whatever it activates or has activated was reserved.                    *)
ServerPlaced(s) ==
  /\ server[s] \in {"none", "started", "resumed", "gone"}
  /\ server[s] \in {"started", "resumed"} => send[s].stage \in {"wait", "stop", "killed"}
  /\ server[s] # "none" => send[s].wake /\ send[s].stage \in {"wait", "stop", "over", "killed"}
  /\ send[s].stage \in {"wait", "stop"} => server[s] # "none"
ActivationReserved(s) ==
  \/ server[s] # "none"
  \/ send[s].wake /\ ~send[s].active /\ send[s].stage \in {"cut", "resolve", "revalidate", "queue", "after"}
  => send[s].root \in Homes /\ \E r \in reserved[send[s].root] : r.by = s

(* What is said of the message agrees with where it is.                    *)
MessagePlaced(s) ==
  /\ \A h \in Homes : s \in queued[h] => h = send[s].root
  /\ send[s].stage \notin Late => send[s].told = "nothing" /\ \A h \in Homes : s \notin queued[h]
  /\ send[s].stage \in {"after", "wait", "stop"} => send[s].told \in SubmittedTo
  /\ send[s].told \in SubmittedTo => send[s].root \in Homes /\ s \in queued[send[s].root]
  /\ send[s].told \in {"nothing", "refused"} /\ send[s].stage # "killed" => \A h \in Homes : s \notin queued[h]

(* A copy seen without a writer since the home was selected has none that  *)
(* was there at that time.                                                 *)
NewerOnly(s, k) == writer[k] = 0 \/ writer[k] > send[s].from
LooksHold(s) ==
  \A k \in Copies(send[s].thread) \ {send[s].root} :
    /\ send[s].stage = "revalidate" /\ send[s].seen[k] = 0 => NewerOnly(s, k)
    /\ send[s].stage = "queue" => NewerOnly(s, k)

(* A wake in a chain is one hop further than the one whose turn it came    *)
(* from, and its limit is not greater unless it was given anew.            *)
HopKept(s) ==
  /\ send[s].hop \in Nat /\ send[s].limit \in Nat
  /\ send[s].wake /\ send[s].stage # "idle" => send[s].hop >= 1
  /\ send[s].link \in Chained =>
       /\ send[s].parent \in Sends
       /\ send[send[s].parent].stage # "idle" /\ send[send[s].parent].wake
       /\ send[s].hop = send[send[s].parent].hop + 1
  /\ send[s].link \in {"inherited", "carried"} => send[s].limit <= send[send[s].parent].limit
  /\ send[s].wake /\ send[s].stage # "idle" /\ send[s].link \notin Chained => send[s].hop = 1
  /\ server[s] # "none" => send[s].hop <= send[s].limit
  /\ send[s].wake /\ send[s].stage \notin {"idle", "over", "killed"} => send[s].hop <= send[s].limit
  /\ send[s].stage = "idle" => send[s].link = "none"

SendRight(s) ==
  /\ SendPlaced(s) /\ LockIsMine(s) /\ ServerPlaced(s) /\ ActivationReserved(s)
  /\ MessagePlaced(s) /\ LooksHold(s) /\ HopKept(s)

(* A reservation whose time lies in the window that ends now is still in   *)
(* the file, at a time that is no earlier than its own by the clock as it  *)
(* was set back: as many are in the file as were made.                     *)
MadeAfter(h, x) == {r \in reserved[h] : r.at > x}
FiledAfter(h, x) == {n \in 1..Len(stamps[h].at) : stamps[h].at[n] > x}
InWindow(h, t) == {r \in reserved[h] : t <= r.at /\ r.at < t + Window}
Moments == (0 - Window)..MaxReal
RateRight(h) ==
  /\ stamps[h].at \in Seq(Nat) /\ InOrder(stamps[h].at)
  /\ IsFiniteSet(reserved[h])
  /\ \A r \in reserved[h] : r.at \in 0..real
  /\ \A x \in Moments : x >= real - Window =>
       Cardinality(MadeAfter(h, x)) <= Cardinality(FiledAfter(h, x - back))
  /\ \A t \in 0..MaxReal : Cardinality(InWindow(h, t)) <= rate

WakeInv ==
  /\ WakeShapes /\ ClocksRight /\ WritersApart
  /\ \A s \in Sends : SendRight(s)
  /\ \A h \in Homes : RateRight(h)
(* What follows an entry that occurs once in a sequence.                   *)
LEMMA NextInOrder ==
  ASSUME NEW p, NEW k, NEW x, NEW len, len \in Nat, k \in 1..len - 1, p[k] = x,
         \A m \in 1..len - 1 : p[m] = x => m = k
  PROVE  p[1 + CHOOSE n \in 1..len - 1 : p[n] = x] = p[1 + k]
<1> DEFINE c == CHOOSE n \in 1..len - 1 : p[n] = x
<1>1. c \in 1..len - 1 /\ p[c] = x
  OBVIOUS
<1>2. c = k BY <1>1
<1>3. QED BY <1>2

(* What follows a stage.                                                   *)
LEMMA FollowingWake ==
  ASSUME NEW s \in Sends, send[s].wake, NEW k \in 1..8, send[s].stage = WakeStages[k]
  PROVE  Following(s) = WakeStages[1 + k]
<1> DEFINE p == WakeStages
<1>1. /\ p[1] = "first resolve" /\ p[2] = "preflight" /\ p[3] = "guard" /\ p[4] = "first revalidate"
      /\ p[5] = "second preflight" /\ p[6] = "reserve" /\ p[7] = "resolve" /\ p[8] = "revalidate"
  BY DEF WakeStages
<1>3. Len(p) = 9 BY DEF WakeStages
<1>4. Following(s) = p[1 + CHOOSE n \in 1..Len(p) - 1 : p[n] = send[s].stage]
  BY DEF Following, StagesOf
<1> HIDE DEF p
<1>2. \A m \in 1..8 : p[m] = p[k] => m = k
  <2>1. \A m \in 1..8 : m = 1 \/ m = 2 \/ m = 3 \/ m = 4 \/ m = 5 \/ m = 6 \/ m = 7 \/ m = 8
    OBVIOUS
  <2>2. QED BY <1>1, <2>1
<1>5. Following(s) = p[1 + CHOOSE n \in 1..9 - 1 : p[n] = send[s].stage] BY <1>3, <1>4
<1>6. p[k] = send[s].stage /\ k \in 1..9 - 1 /\ 9 \in Nat /\ \A m \in 1..9 - 1 : p[m] = send[s].stage => m = k
  BY <1>2 DEF p
<1>7. QED BY <1>5, <1>6, NextInOrder DEF p
LEMMA FollowingPlain ==
  ASSUME NEW s \in Sends, ~send[s].wake, NEW k \in 1..2, send[s].stage = PlainStages[k]
  PROVE  Following(s) = PlainStages[1 + k]
<1> DEFINE p == PlainStages
<1>1. p[1] = "resolve" /\ p[2] = "revalidate" BY DEF PlainStages
<1>2. \A m \in 1..2 : p[m] = p[k] => m = k BY <1>1
<1>3. Len(p) = 3 BY DEF PlainStages
<1>4. Following(s) = p[1 + CHOOSE n \in 1..Len(p) - 1 : p[n] = send[s].stage]
  BY DEF Following, StagesOf
<1> HIDE DEF p
<1>5. Following(s) = p[1 + CHOOSE n \in 1..3 - 1 : p[n] = send[s].stage] BY <1>3, <1>4
<1>6. p[k] = send[s].stage /\ k \in 1..3 - 1 /\ 3 \in Nat /\ \A m \in 1..3 - 1 : p[m] = send[s].stage => m = k
  BY <1>2 DEF p
<1>7. QED BY <1>5, <1>6, NextInOrder DEF p
LEMMA FollowingStage ==
  ASSUME NEW s \in Sends
  PROVE  /\ send[s].wake =>
              /\ send[s].stage = "first resolve" => Following(s) = "preflight"
              /\ send[s].stage = "preflight" => Following(s) = "guard"
              /\ send[s].stage = "guard" => Following(s) = "first revalidate"
              /\ send[s].stage = "first revalidate" => Following(s) = "second preflight"
              /\ send[s].stage = "second preflight" => Following(s) = "reserve"
              /\ send[s].stage = "reserve" => Following(s) = "resolve"
              /\ send[s].stage = "resolve" => Following(s) = "revalidate"
              /\ send[s].stage = "revalidate" => Following(s) = "queue"
         /\ ~send[s].wake =>
              /\ send[s].stage = "resolve" => Following(s) = "revalidate"
              /\ send[s].stage = "revalidate" => Following(s) = "queue"
<1>1. /\ WakeStages[1] = "first resolve" /\ WakeStages[2] = "preflight" /\ WakeStages[3] = "guard"
      /\ WakeStages[4] = "first revalidate" /\ WakeStages[5] = "second preflight" /\ WakeStages[6] = "reserve"
      /\ WakeStages[7] = "resolve" /\ WakeStages[8] = "revalidate" /\ WakeStages[9] = "queue"
      /\ PlainStages[1] = "resolve" /\ PlainStages[2] = "revalidate" /\ PlainStages[3] = "queue"
  BY DEF WakeStages, PlainStages
<1>2. ASSUME send[s].wake
      PROVE  \A k \in 1..8 : send[s].stage = WakeStages[k] => Following(s) = WakeStages[k + 1]
  BY <1>2, FollowingWake
<1>3. ASSUME ~send[s].wake
      PROVE  \A k \in 1..2 : send[s].stage = PlainStages[k] => Following(s) = PlainStages[k + 1]
  BY <1>3, FollowingPlain
<1>4. /\ 1 \in 1..8 /\ 2 \in 1..8 /\ 3 \in 1..8 /\ 4 \in 1..8 /\ 5 \in 1..8 /\ 6 \in 1..8 /\ 7 \in 1..8 /\ 8 \in 1..8
      /\ 1 \in 1..2 /\ 2 \in 1..2
      /\ 1 + 1 = 2 /\ 2 + 1 = 3 /\ 3 + 1 = 4 /\ 4 + 1 = 5 /\ 5 + 1 = 6 /\ 6 + 1 = 7 /\ 7 + 1 = 8 /\ 8 + 1 = 9
  OBVIOUS
<1>5. QED BY <1>1, <1>2, <1>3, <1>4

(* Writers only go and are succeeded by newer ones.                        *)
WritersAge ==
  /\ born' \in Nat /\ born <= born'
  /\ \A k \in Homes : writer'[k] \in Nat /\ (writer'[k] = writer[k] \/ writer'[k] = 0 \/ writer'[k] > born)

(* The context of a wake that has begun stays what it is.                  *)
ContextsStay ==
  \A p \in Sends : send[p].stage # "idle" =>
    /\ send'[p].stage # "idle" /\ send'[p].wake = send[p].wake
    /\ send'[p].hop = send[p].hop /\ send'[p].limit = send[p].limit

(* A step that leaves an invocation, its lock, reservation and message     *)
(* leaves it right.                                                        *)
LEMMA SendStays ==
  ASSUME WakeInv, NEW q \in Sends, send'[q] = send[q], WritersAge, ContextsStay,
         \/ server'[q] = server[q]
         \/ server[q] \in {"started", "resumed"} /\ server'[q] \in {"resumed", "gone"},
         \A h \in Homes : guard[h] = q => guard'[h] = q,
         \A h \in Homes : reserved[h] \subseteq reserved'[h],
         \A h \in Homes : q \in queued'[h] <=> q \in queued[h]
  PROVE  SendRight(q)'
<1>1. SendPlaced(q) /\ LockIsMine(q) /\ ServerPlaced(q) /\ ActivationReserved(q) /\ MessagePlaced(q) /\ LooksHold(q) /\ HopKept(q)
  BY DEF WakeInv, SendRight
<1>2. born \in Nat BY DEF WakeInv, ClocksRight
<1>3. Copies(send[q].thread) \subseteq Homes BY DEF Copies
<1>4. SendPlaced(q)' BY <1>1, <1>2 DEF SendPlaced, WritersAge, Copies
<1>5. LockIsMine(q)'
  <2>1. send[q].wake /\ send[q].stage \in UnderLock => send[q].root \in Homes
    BY <1>1, <1>3 DEF SendPlaced, UnderLock, HomeChosen
  <2>2. QED BY <1>1, <2>1 DEF LockIsMine
<1>6. ServerPlaced(q)' /\ ActivationReserved(q)'
  BY <1>1 DEF ServerPlaced, ActivationReserved
<1>7. MessagePlaced(q)' BY <1>1 DEF MessagePlaced
<1>8. LooksHold(q)'
  <2>1. ASSUME NEW k \in Copies(send[q].thread), NewerOnly(q, k) PROVE NewerOnly(q, k)'
    <3>1. k \in Homes /\ writer[k] \in 0..born /\ send[q].from \in 0..born
      BY <1>1, <1>3 DEF WakeInv, WritersApart, SendPlaced
    <3>2. /\ born' \in Nat /\ born <= born'
          /\ writer'[k] \in Nat /\ (writer'[k] = writer[k] \/ writer'[k] = 0 \/ writer'[k] > born)
      BY <3>1 DEF WritersAge
    <3>3. send'[q].from = send[q].from
      OBVIOUS
    <3>4. QED BY <1>2, <2>1, <3>1, <3>2, <3>3 DEF NewerOnly
  <2>2. QED BY <1>1, <2>1 DEF LooksHold, Copies
<1>9. HopKept(q)' BY <1>1 DEF HopKept, ContextsStay, Chained
<1>10. QED BY <1>4, <1>5, <1>6, <1>7, <1>8, <1>9 DEF SendRight

(* A step that leaves the clocks and a target's reservations.              *)
LEMMA RateStays ==
  ASSUME WakeInv, NEW h \in Homes, UNCHANGED <<real, back, rate>>, reserved'[h] = reserved[h],
         stamps'[h].at = stamps[h].at
  PROVE  RateRight(h)'
<1>1. RateRight(h) BY DEF WakeInv
<1>2. /\ \A x : MadeAfter(h, x)' = MadeAfter(h, x)
      /\ \A x : FiledAfter(h, x)' = FiledAfter(h, x)
      /\ \A t : InWindow(h, t)' = InWindow(h, t)
  BY DEF MadeAfter, FiledAfter, InWindow
<1>3. /\ stamps'[h].at \in Seq(Nat) /\ InOrder(stamps'[h].at)
      /\ IsFiniteSet(reserved'[h])
      /\ \A r \in reserved'[h] : r.at \in 0..real'
  BY <1>1 DEF RateRight
<1>4. \A x \in Moments : x >= real' - Window =>
        Cardinality(MadeAfter(h, x)') <= Cardinality(FiledAfter(h, x - back)')
  BY <1>1, <1>2 DEF RateRight
<1>5. \A t \in 0..MaxReal : Cardinality(InWindow(h, t)') <= rate'
  BY <1>1, <1>2 DEF RateRight
<1>6. QED BY <1>3, <1>4, <1>5 DEF RateRight, Moments
(* A step of one invocation.  The writers and reservations stay, unless    *)
(* the step says otherwise.                                                *)
SameContext(s) ==
  /\ send'[s].wake = send[s].wake /\ send'[s].thread = send[s].thread /\ send'[s].explicit = send[s].explicit
  /\ send'[s].hop = send[s].hop /\ send'[s].limit = send[s].limit
  /\ send'[s].parent = send[s].parent /\ send'[s].link = send[s].link
OneSends(s) ==
  /\ \A q \in Sends \ {s} : send'[q] = send[q] /\ server'[q] = server[q]
  /\ send[s].stage # "idle" => SameContext(s) /\ send'[s].stage # "idle"
  /\ \A h \in Homes : guard'[h] = guard[h] \/ guard[h] \in {s, NoSend}
  /\ \A h \in Homes : \A q \in Sends \ {s} : q \in queued'[h] <=> q \in queued[h]

LEMMA SteadyAge ==
  ASSUME WakeInv, writer' = writer, born' = born
  PROVE  WritersAge /\ WritersApart'
<1>1. \A h \in Homes : writer[h] \in 0..born BY DEF WakeInv, WritersApart
<1>2. born \in Nat BY DEF WakeInv, ClocksRight
<1>3. QED BY <1>1, <1>2 DEF WritersAge, WakeInv, WritersApart

LEMMA OthersInStep ==
  ASSUME WakeInv, NEW s \in Sends, OneSends(s), WritersAge, \A h \in Homes : reserved[h] \subseteq reserved'[h]
  PROVE  \A q \in Sends \ {s} : SendRight(q)'
<1>1. ContextsStay BY DEF OneSends, SameContext, ContextsStay
<1>2. ASSUME NEW q \in Sends \ {s} PROVE SendRight(q)'
  <2>1. q \in Sends /\ send'[q] = send[q] /\ server'[q] = server[q] BY DEF OneSends
  <2>2. \A h \in Homes : guard[h] = q => guard'[h] = q BY NamesApart DEF OneSends
  <2>3. \A h \in Homes : q \in queued'[h] <=> q \in queued[h] BY DEF OneSends
  <2>4. QED BY <1>1, <2>1, <2>2, <2>3, SendStays
<1>3. QED BY <1>2

LEMMA OneGoesOn ==
  ASSUME WakeInv, NEW s \in Sends, OneSends(s), WakeShapes', SendRight(s)',
         UNCHANGED <<real, back, rate, writer, born, stamps, reserved>>
  PROVE  WakeInv'
<1>1. WritersAge /\ WritersApart' BY SteadyAge
<1>2. \A q \in Sends \ {s} : SendRight(q)' BY <1>1, OthersInStep
<1>3. \A h \in Homes : RateRight(h)' BY RateStays
<1>4. ClocksRight' BY DEF WakeInv, ClocksRight
<1>5. QED BY <1>1, <1>2, <1>3, <1>4 DEF WakeInv

(* What a step writes into the record of one invocation.                   *)
LEMMA OneRecord ==
  ASSUME WakeInv, NEW s \in Sends, NEW r, DOMAIN r = WakeFields, DOMAIN r.seen = Homes, send' = [send EXCEPT ![s] = r]
  PROVE  /\ send'[s] = r /\ \A q \in Sends \ {s} : send'[q] = send[q]
         /\ SendShapes'
  BY DEF WakeInv, WakeShapes, SendShapes

LEMMA SeenNothing == DOMAIN NothingSeen = Homes /\ \A h \in Homes : NothingSeen[h] = Unseen
  BY DEF NothingSeen

(* An invocation that is over, or killed, has dropped its lock.            *)
LEMMA LockDropped ==
  ASSUME WakeInv, NEW s \in Sends, guard' = Dropped(s)
  PROVE  DOMAIN guard' = Homes /\ \A h \in Homes : guard'[h] = guard[h] \/ guard[h] = s
  BY DEF Dropped

LEMMA OverRecordRight ==
  ASSUME WakeInv, NEW s \in Sends, NEW end \in {"over", "killed"}, NEW say,
         NEW r, send' = [send EXCEPT ![s] = r],
         DOMAIN r = WakeFields, r.stage = end, r.told = say, r.seen = NothingSeen,
         r.wake = send[s].wake, r.thread = send[s].thread, r.explicit = send[s].explicit,
         r.root = send[s].root, r.from = send[s].from, r.active = send[s].active,
         r.hop = send[s].hop, r.limit = send[s].limit, r.parent = send[s].parent, r.link = send[s].link,
         send[s].stage \notin {"idle", "over", "killed"},
         \A h \in Homes : reserved[h] \subseteq reserved'[h], born' = born,
         server'[s] = server[s] \/ (server[s] # "none" /\ server'[s] = "gone"),
         server'[s] \in {"started", "resumed"} => end = "killed",
         say \in {"nothing", "refused", "queued", "unknown", "failed", "active", "completed"},
         \A h \in Homes : s \in queued'[h] => h = send[s].root,
         say \in SubmittedTo => send[s].root \in Homes /\ s \in queued'[send[s].root],
         say \in {"nothing", "refused"} /\ end = "over" => \A h \in Homes : s \notin queued'[h]
  PROVE  /\ SendRight(s)' /\ SameContext(s) /\ send'[s].stage = end
         /\ \A q \in Sends \ {s} : send'[q] = send[q]
         /\ SendShapes'
<1>4. /\ DOMAIN r = WakeFields /\ r.stage = end /\ r.told = say /\ r.seen = NothingSeen
      /\ r.wake = send[s].wake /\ r.thread = send[s].thread /\ r.explicit = send[s].explicit
      /\ r.root = send[s].root /\ r.from = send[s].from /\ r.active = send[s].active
      /\ r.hop = send[s].hop /\ r.limit = send[s].limit /\ r.parent = send[s].parent /\ r.link = send[s].link
  OBVIOUS
<1>5. /\ send'[s] = r /\ \A q \in Sends \ {s} : send'[q] = send[q]
      /\ SendShapes'
  BY <1>4, OneRecord, SeenNothing
<1>6. SameContext(s) BY <1>4, <1>5 DEF SameContext
<1>7. SendPlaced(s) /\ LockIsMine(s) /\ ServerPlaced(s) /\ ActivationReserved(s) /\ MessagePlaced(s) /\ LooksHold(s) /\ HopKept(s)
  BY DEF WakeInv, SendRight
<1>8. SendPlaced(s)'
  <2>1. end \in SendStages /\ end \notin WakeOnly /\ end \notin HomeChosen /\ end # "resolve"
    BY DEF SendStages, Late, WakeOnly, HomeChosen
  <2>2. QED BY <1>4, <1>5, <1>7, <2>1 DEF SendPlaced, Copies
<1>9. LockIsMine(s)' BY <1>4, <1>5 DEF LockIsMine, UnderLock
<1>10. ServerPlaced(s)' BY <1>4, <1>5, <1>7 DEF ServerPlaced
<1>11. ActivationReserved(s)'
  <2>1. server'[s] # "none" => send[s].root \in Homes /\ \E r1 \in reserved[send[s].root] : r1.by = s
    BY <1>7 DEF ActivationReserved
  <2>2. QED BY <1>4, <1>5, <2>1 DEF ActivationReserved
<1>12. MessagePlaced(s)' BY <1>4, <1>5 DEF MessagePlaced, Late
<1>13. LooksHold(s)' BY <1>4, <1>5 DEF LooksHold
<1>14. HopKept(s)'
  <2>1. send[s].link \in Chained =>
          send[s].parent \in Sends /\ send[send[s].parent].stage # "idle" /\ send[send[s].parent].wake
          /\ send[s].hop = send[send[s].parent].hop + 1
    BY <1>7 DEF HopKept
  <2>2. ASSUME NEW p \in Sends, send[p].stage # "idle"
        PROVE  send'[p].stage # "idle" /\ send'[p].wake = send[p].wake /\ send'[p].hop = send[p].hop
               /\ send'[p].limit = send[p].limit
    <3>1. CASE p = s BY <1>4, <1>5, <3>1
    <3>2. CASE p # s BY <1>5, <2>2, <3>2
    <3>3. QED BY <3>1, <3>2
  <2>3. /\ send'[s].stage = end /\ send'[s].wake = send[s].wake /\ send'[s].hop = send[s].hop
        /\ send'[s].limit = send[s].limit /\ send'[s].parent = send[s].parent /\ send'[s].link = send[s].link
    BY <1>4, <1>5
  <2>4. server'[s] # "none" => server[s] # "none"
    OBVIOUS
  <2>5. HopKept(s) /\ end \in {"over", "killed"} /\ send[s].stage # "idle" BY <1>7
  <2>6. QED BY ONLY <2>1, <2>2, <2>3, <2>4, <2>5 DEF HopKept, Chained
<1>15. QED
  BY <1>5, <1>6, <1>4, <1>8, <1>9, <1>10, <1>11, <1>12, <1>13, <1>14 DEF SendRight

LEMMA OverRight ==
  ASSUME WakeInv, NEW s \in Sends, NEW end \in {"over", "killed"}, NEW say,
         send' = [send EXCEPT ![s].stage = end, ![s].told = say, ![s].seen = NothingSeen],
         send[s].stage \notin {"idle", "over", "killed"},
         \A h \in Homes : reserved[h] \subseteq reserved'[h], born' = born,
         server'[s] = server[s] \/ (server[s] # "none" /\ server'[s] = "gone"),
         server'[s] \in {"started", "resumed"} => end = "killed",
         say \in {"nothing", "refused", "queued", "unknown", "failed", "active", "completed"},
         \A h \in Homes : s \in queued'[h] => h = send[s].root,
         say \in SubmittedTo => send[s].root \in Homes /\ s \in queued'[send[s].root],
         say \in {"nothing", "refused"} /\ end = "over" => \A h \in Homes : s \notin queued'[h]
  PROVE  /\ SendRight(s)' /\ SameContext(s) /\ send'[s].stage = end
         /\ \A q \in Sends \ {s} : send'[q] = send[q]
         /\ SendShapes'
<1>1. DOMAIN send[s] = WakeFields /\ DOMAIN send = Sends
  BY DEF WakeInv, WakeShapes, SendShapes
<1>2. PICK r : r = [send[s] EXCEPT !.stage = end, !.told = say, !.seen = NothingSeen]
  OBVIOUS
<1>3. send' = [send EXCEPT ![s] = r] BY <1>1, <1>2
<1>4. /\ DOMAIN r = WakeFields /\ r.stage = end /\ r.told = say /\ r.seen = NothingSeen
      /\ r.wake = send[s].wake /\ r.thread = send[s].thread /\ r.explicit = send[s].explicit
      /\ r.root = send[s].root /\ r.from = send[s].from /\ r.active = send[s].active
      /\ r.hop = send[s].hop /\ r.limit = send[s].limit /\ r.parent = send[s].parent /\ r.link = send[s].link
  BY <1>1, <1>2 DEF WakeFields
<1>5. QED BY <1>3, <1>4, OverRecordRight

(* A refusal, an answer or a kill of a command whose app-server stays as   *)
(* it is.                                                                  *)
LEMMA CommandOver ==
  ASSUME WakeInv, NEW s \in Sends, NEW end \in {"over", "killed"}, NEW say,
         send' = [send EXCEPT ![s].stage = end, ![s].told = say, ![s].seen = NothingSeen], guard' = Dropped(s),
         UNCHANGED <<real, back, rate, writer, born, stamps, server, reserved>>,
         send[s].stage \notin {"idle", "over", "killed"},
         server[s] \in {"started", "resumed"} => end = "killed",
         DOMAIN queued' = Homes,
         \A h \in Homes : \A q \in Sends \ {s} : q \in queued'[h] <=> q \in queued[h],
         say \in {"nothing", "refused", "queued", "unknown", "failed", "active", "completed"},
         \A h \in Homes : s \in queued'[h] => h = send[s].root,
         say \in SubmittedTo => send[s].root \in Homes /\ s \in queued'[send[s].root],
         say \in {"nothing", "refused"} /\ end = "over" => \A h \in Homes : s \notin queued'[h]
  PROVE  WakeInv'
<1>1. /\ SendRight(s)' /\ SameContext(s) /\ send'[s].stage = end
      /\ \A q \in Sends \ {s} : send'[q] = send[q]
      /\ SendShapes'
  BY OverRight
<1>2. DOMAIN guard' = Homes /\ \A h \in Homes : guard'[h] = guard[h] \/ guard[h] = s
  BY LockDropped
<1>3. OneSends(s) BY <1>1, <1>2 DEF OneSends
<1>4. WakeShapes'
  <2>1. WakeShapes BY DEF WakeInv
  <2>2. server' = server /\ writer' = writer /\ stamps' = stamps /\ reserved' = reserved
    OBVIOUS
  <2>3. SendShapes' /\ DOMAIN guard' = Homes /\ DOMAIN queued' = Homes BY <1>1, <1>2
  <2>4. QED BY ONLY <2>1, <2>2, <2>3 DEF WakeShapes
<1>5. QED BY <1>1, <1>3, <1>4, OneGoesOn

(* Before the native command a refusal is always true.                     *)
LEMMA Refuses ==
  ASSUME WakeInv, NEW s \in Sends, Over(s, "refused"), send[s].stage \notin Late \cup {"idle"},
         UNCHANGED <<real, back, rate, writer, born, stamps, server, queued, reserved>>
  PROVE  WakeInv'
<1>1. ServerPlaced(s) /\ MessagePlaced(s) BY DEF WakeInv, SendRight
<1>2. \A h \in Homes : s \notin queued'[h] BY <1>1 DEF MessagePlaced
<1>3. server[s] = "none" BY <1>1 DEF ServerPlaced, Late
<1>4. DOMAIN queued' = Homes BY DEF WakeInv, WakeShapes
<1>5. send' = [send EXCEPT ![s].stage = "over", ![s].told = "refused", ![s].seen = NothingSeen] /\ guard' = Dropped(s)
  BY DEF Over
<1>6. PICK end \in {"over", "killed"} : end = "over"
  OBVIOUS
<1>7. PICK say \in {"refused"} : say = "refused"
  OBVIOUS
<1>8. say \in {"nothing", "refused", "queued", "unknown", "failed", "active", "completed"} /\ say \notin SubmittedTo
  BY <1>7 DEF SubmittedTo
<1>9. send[s].stage \notin {"idle", "over", "killed"} BY DEF Late
<1>10. send' = [send EXCEPT ![s].stage = end, ![s].told = say, ![s].seen = NothingSeen]
  BY <1>5, <1>6, <1>7
<1>11. server[s] \notin {"started", "resumed"} BY <1>3
<1>12. \A h \in Homes : \A q \in Sends \ {s} : q \in queued'[h] <=> q \in queued[h]
  OBVIOUS
<1>13. \A h \in Homes : s \in queued'[h] => h = send[s].root BY <1>2
<1>14. guard' = Dropped(s) BY <1>5
<1>15. QED BY <1>2, <1>4, <1>8, <1>9, <1>10, <1>11, <1>12, <1>13, <1>14, CommandOver
(* An invocation goes on before its native command.                        *)
LEMMA MoveRight ==
  ASSUME WakeInv, NEW s \in Sends, NEW r, DOMAIN r = WakeFields, DOMAIN r.seen = Homes, send' = [send EXCEPT ![s] = r],
         r.wake = send[s].wake, r.thread = send[s].thread, r.explicit = send[s].explicit, r.hop = send[s].hop,
         r.limit = send[s].limit, r.parent = send[s].parent, r.link = send[s].link, r.told = send[s].told,
         send[s].stage \notin Late \cup {"idle"},
         r.stage \in SendStages \ (Late \cup {"idle"}),
         r.stage \in WakeOnly => r.wake,
         r.root \in Copies(r.thread) \cup {NoHome},
         r.stage \in HomeChosen \/ (r.wake /\ r.stage = "resolve") => r.root \in Copies(r.thread),
         r.from \in 0..born, born' = born, server' = server, queued' = queued,
         LockIsMine(s)', ActivationReserved(s)', LooksHold(s)',
         \A h \in Homes : guard'[h] = guard[h] \/ guard[h] \in {s, NoSend}
  PROVE  SendRight(s)' /\ OneSends(s) /\ SendShapes'
<1>1. /\ send'[s] = r /\ \A q \in Sends \ {s} : send'[q] = send[q]
      /\ SendShapes'
  BY OneRecord DEF SendShapes
<1>2. SendPlaced(s) /\ ServerPlaced(s) /\ MessagePlaced(s) /\ HopKept(s)
  BY DEF WakeInv, SendRight
<1>3. SameContext(s) /\ r.stage # "idle" BY <1>1 DEF SameContext
<1>4. OneSends(s) BY <1>1, <1>3 DEF OneSends
<1>5. SendPlaced(s)' BY <1>1, <1>2 DEF SendPlaced, Copies
<1>6. ServerPlaced(s)'
  <2>1. server[s] = "none" BY <1>2 DEF ServerPlaced, Late
  <2>2. QED BY <1>1, <2>1 DEF ServerPlaced, Late
<1>7. MessagePlaced(s)'
  <2>1. send[s].told = "nothing" /\ \A h \in Homes : s \notin queued[h]
    BY <1>2 DEF MessagePlaced
  <2>2. QED BY <1>1, <2>1 DEF MessagePlaced, Late, SubmittedTo
<1>8. HopKept(s)'
  <2>1. send[s].link \in Chained =>
          send[s].parent \in Sends /\ send[send[s].parent].stage # "idle" /\ send[send[s].parent].wake
          /\ send[s].hop = send[send[s].parent].hop + 1
    BY <1>2 DEF HopKept
  <2>2. ASSUME NEW p \in Sends, send[p].stage # "idle"
        PROVE  send'[p].stage # "idle" /\ send'[p].wake = send[p].wake /\ send'[p].hop = send[p].hop
               /\ send'[p].limit = send[p].limit
    <3>1. CASE p = s BY <1>1, <1>3, <3>1
    <3>2. CASE p # s BY <1>1, <2>2, <3>2
    <3>3. QED BY <3>1, <3>2
  <2>3. send'[s].wake = send[s].wake /\ send'[s].hop = send[s].hop
        /\ send'[s].limit = send[s].limit /\ send'[s].parent = send[s].parent /\ send'[s].link = send[s].link
    BY <1>1
  <2>4. send[s].stage \notin {"idle", "over", "killed"} /\ send'[s].stage # "idle" /\ server' = server
    BY <1>1, <1>3 DEF Late
  <2>5. QED BY ONLY <1>2, <2>1, <2>2, <2>3, <2>4 DEF HopKept, Chained
<1>9. QED BY <1>1, <1>4, <1>5, <1>6, <1>7, <1>8 DEF SendRight

(* ... and leaves reservations and writers alone.                          *)
LEMMA WakeMoves ==
  ASSUME WakeInv, NEW s \in Sends, NEW r, DOMAIN r = WakeFields, DOMAIN r.seen = Homes, send' = [send EXCEPT ![s] = r],
         r.wake = send[s].wake, r.thread = send[s].thread, r.explicit = send[s].explicit, r.hop = send[s].hop,
         r.limit = send[s].limit, r.parent = send[s].parent, r.link = send[s].link, r.told = send[s].told,
         send[s].stage \notin Late \cup {"idle"},
         r.stage \in SendStages \ (Late \cup {"idle"}),
         r.stage \in WakeOnly => r.wake,
         r.root \in Copies(r.thread) \cup {NoHome},
         r.stage \in HomeChosen \/ (r.wake /\ r.stage = "resolve") => r.root \in Copies(r.thread),
         r.from \in 0..born,
         UNCHANGED <<real, back, rate, writer, born, stamps, server, queued, reserved>>,
         r.wake /\ r.stage \in UnderLock => guard'[r.root] = s,
         r.wake /\ ~r.active /\ r.stage \in {"cut", "resolve", "revalidate", "queue", "after"} =>
           r.root \in Homes /\ \E a \in reserved[r.root] : a.by = s,
         \A k \in Copies(r.thread) \ {r.root} :
           /\ r.stage = "revalidate" /\ r.seen[k] = 0 => writer[k] = 0 \/ writer[k] > r.from
           /\ r.stage = "queue" => writer[k] = 0 \/ writer[k] > r.from,
         DOMAIN guard' = Homes, \A h \in Homes : guard'[h] = guard[h] \/ guard[h] \in {s, NoSend}
  PROVE  WakeInv'
<1>1. send'[s] = r
  <2>1. DOMAIN send = Sends BY DEF WakeInv, WakeShapes, SendShapes
  <2>2. QED BY <2>1
<1>2. LockIsMine(s)' BY <1>1 DEF LockIsMine
<1>3. ActivationReserved(s)'
  <2>1. server[s] = "none" BY DEF WakeInv, SendRight, ServerPlaced, Late
  <2>2. QED BY <1>1, <2>1 DEF ActivationReserved
<1>4. LooksHold(s)' BY <1>1 DEF LooksHold, Copies, NewerOnly
<1>5. born' = born /\ server' = server /\ queued' = queued
  OBVIOUS
<1>6. SendRight(s)' /\ OneSends(s) /\ SendShapes' BY <1>2, <1>3, <1>4, <1>5, MoveRight
<1>7. WakeShapes'
  <2>1. WakeShapes /\ UNCHANGED <<writer, stamps, server, queued, reserved>> /\ DOMAIN guard' = Homes
    BY DEF WakeInv
  <2>2. QED BY ONLY <1>6, <2>1 DEF WakeShapes
<1>8. QED BY <1>6, <1>7, OneGoesOn
(* Looking at one copy.                                                    *)
LEMMA InspectsKeeps == ASSUME WakeInv, NEW s \in Sends, NEW h \in Homes, Inspects(s, h) PROVE WakeInv'
<1>1. /\ send[s].stage \in Looks /\ h \in ToInspect(s)
      /\ UNCHANGED <<real, back, rate, writer, born, guard, stamps, server, queued, reserved>>
  BY DEF Inspects
<1>2. PICK e \in {writer[h], Unsure} : send' = [send EXCEPT ![s].seen[h] = e]
  BY DEF Inspects
<1>3. DOMAIN send = Sends /\ DOMAIN send[s] = WakeFields /\ DOMAIN send[s].seen = Homes /\ DOMAIN guard = Homes
      /\ DOMAIN queued = Homes
  BY DEF WakeInv, WakeShapes, SendShapes
<1>4. PICK f : f = [send[s].seen EXCEPT ![h] = e]
  OBVIOUS
<1>5. PICK r : r = [send[s] EXCEPT !.seen = f]
  OBVIOUS
<1>6. send' = [send EXCEPT ![s] = r] BY <1>2, <1>3, <1>4, <1>5
<1>7. DOMAIN f = Homes /\ f[h] = e /\ \A k \in Homes \ {h} : f[k] = send[s].seen[k]
  BY <1>3, <1>4
<1>8. /\ DOMAIN r = WakeFields /\ r.seen = f /\ r.stage = send[s].stage /\ r.root = send[s].root /\ r.from = send[s].from
      /\ r.active = send[s].active /\ r.told = send[s].told
      /\ r.wake = send[s].wake /\ r.thread = send[s].thread /\ r.explicit = send[s].explicit
      /\ r.hop = send[s].hop /\ r.limit = send[s].limit /\ r.parent = send[s].parent /\ r.link = send[s].link
  BY <1>3, <1>5 DEF WakeFields
<1>9. SendPlaced(s) /\ LockIsMine(s) /\ ServerPlaced(s) /\ ActivationReserved(s) /\ MessagePlaced(s) /\ LooksHold(s) /\ HopKept(s)
  BY DEF WakeInv, SendRight
<1>10. \A k \in Copies(r.thread) \ {r.root} :
         /\ r.stage = "revalidate" /\ r.seen[k] = 0 => writer[k] = 0 \/ writer[k] > r.from
         /\ r.stage = "queue" => writer[k] = 0 \/ writer[k] > r.from
  <2> TAKE k \in Copies(r.thread) \ {r.root}
  <2>1. k \in Homes BY DEF Copies
  <2>2. CASE k = h
    <3>1. e = 0 => writer[k] = 0 BY <1>2, <2>2 DEF Unsure
    <3>2. r.stage # "queue" BY <1>1, <1>8 DEF Looks
    <3>3. QED BY <1>7, <1>8, <2>2, <3>1, <3>2
  <2>3. CASE k # h BY <1>7, <1>8, <1>9, <2>1, <2>3 DEF LooksHold, NewerOnly
  <2>4. QED BY <2>2, <2>3
<1>11. CASE send[s].stage = "after"
  <2>1. /\ send'[s] = r /\ \A q \in Sends \ {s} : send'[q] = send[q]
        /\ SendShapes'
    BY <1>6, <1>7, <1>8, OneRecord DEF SendShapes
  <2>2. SendPlaced(s)' BY <1>1, <1>8, <1>9, <2>1 DEF SendPlaced, Copies
  <2>3. LockIsMine(s)' /\ ServerPlaced(s)'
    BY <1>1, <1>8, <1>9, <2>1 DEF LockIsMine, ServerPlaced
  <2>4. ActivationReserved(s)' /\ MessagePlaced(s)'
    BY <1>1, <1>8, <1>9, <2>1 DEF ActivationReserved, MessagePlaced
  <2>5. LooksHold(s)' BY <1>8, <1>11, <2>1 DEF LooksHold
  <2>6. HopKept(s)'
    <3>1. send[s].link \in Chained => send[s].parent \in Sends BY <1>9 DEF HopKept
    <3>2. \A p \in Sends : send'[p].stage = send[p].stage /\ send'[p].wake = send[p].wake
                           /\ send'[p].hop = send[p].hop /\ send'[p].limit = send[p].limit
      BY <1>8, <2>1
    <3>3. /\ send'[s].stage = send[s].stage /\ send'[s].wake = send[s].wake /\ send'[s].hop = send[s].hop
          /\ send'[s].limit = send[s].limit /\ send'[s].parent = send[s].parent /\ send'[s].link = send[s].link
          /\ server' = server /\ HopKept(s)
      BY <1>1, <1>8, <1>9, <2>1
    <3>4. QED BY ONLY <3>1, <3>2, <3>3 DEF HopKept, Chained
  <2>7. OneSends(s) BY <1>1, <1>8, <2>1 DEF OneSends, SameContext
  <2>8. WakeShapes' BY <1>1, <2>1 DEF WakeInv, WakeShapes
  <2>9. SendRight(s)' BY <2>2, <2>3, <2>4, <2>5, <2>6 DEF SendRight
  <2>10. QED BY <1>1, <2>7, <2>8, <2>9, OneGoesOn
<1>12. CASE send[s].stage # "after"
  <2>1. send[s].stage \notin Late \cup {"idle"} /\ server[s] = "none"
    BY <1>1, <1>9, <1>12 DEF Looks, Late, ServerPlaced
  <2>2. r.stage \in SendStages \ (Late \cup {"idle"}) /\ (r.stage \in WakeOnly => r.wake)
        /\ r.root \in Copies(r.thread) \cup {NoHome} /\ r.from \in 0..born
    BY <1>8, <1>9, <2>1 DEF SendPlaced
  <2>3. r.stage \in HomeChosen \/ (r.wake /\ r.stage = "resolve") => r.root \in Copies(r.thread)
    BY <1>8, <1>9 DEF SendPlaced
  <2>4. r.wake /\ r.stage \in UnderLock => guard'[r.root] = s
    BY <1>1, <1>8, <1>9 DEF LockIsMine
  <2>5. r.wake /\ ~r.active /\ r.stage \in {"cut", "resolve", "revalidate", "queue", "after"} =>
          r.root \in Homes /\ \E a \in reserved[r.root] : a.by = s
    BY <1>8, <1>9 DEF ActivationReserved
  <2>6. DOMAIN guard' = Homes /\ \A k \in Homes : guard'[k] = guard[k] \/ guard[k] \in {s, NoSend}
    BY <1>1, <1>3
  <2>7. UNCHANGED <<real, back, rate, writer, born, stamps, server, queued, reserved>>
    BY <1>1
  <2>8. DOMAIN r.seen = Homes BY <1>7, <1>8
  <2>9. QED
    BY <1>6, <1>8, <1>10, <2>1, <2>2, <2>3, <2>4, <2>5, <2>6, <2>7, <2>8, WakeMoves
<1>13. QED BY <1>11, <1>12
(* Choosing the home, again the same one once a wake has chosen it.        *)
LEMMA ChosenHome ==
  ASSUME WakeInv, NEW s \in Sends, NEW h \in Selected(s)
  PROVE  /\ h \in Copies(send[s].thread) /\ h \in Homes
         /\ send[s].root \in Copies(send[s].thread) => h = send[s].root
<1>1. Copies(send[s].thread) \subseteq Homes BY DEF Copies
<1>2. SendPlaced(s) BY DEF WakeInv, SendRight
<1>3. send[s].root # NoHome => Explicit(s) = send[s].root BY DEF Explicit
<1>4. \/ h \in LiveCopies(s) /\ Explicit(s) \in {h, NoHome}
      \/ h = Explicit(s) /\ h # NoHome
  BY DEF Selected
<1>5. LiveCopies(s) \subseteq Copies(send[s].thread) BY DEF LiveCopies
<1>6. Explicit(s) \in Copies(send[s].thread) \cup {NoHome}
  BY <1>2 DEF Explicit, SendPlaced
<1>7. h \in Copies(send[s].thread) BY <1>4, <1>5, <1>6
<1>8. send[s].root \in Copies(send[s].thread) => h = send[s].root
  BY <1>1, <1>3, <1>4, NamesApart
<1>9. QED BY <1>1, <1>7, <1>8

LEMMA ResolvesKeeps == ASSUME WakeInv, NEW s \in Sends, Resolves(s) PROVE WakeInv'
<1>1. /\ send[s].stage \in {"first resolve", "resolve"}
      /\ UNCHANGED <<real, back, rate, writer, born, stamps, server, queued, reserved>>
  BY DEF Resolves
<1>2. send[s].stage \notin Late \cup {"idle"} BY <1>1 DEF Late
<1>3. CASE Over(s, "refused") BY <1>1, <1>2, <1>3, Refuses
<1>4. ASSUME NEW h \in Selected(s), UNCHANGED guard,
             send' = [send EXCEPT ![s] = [@ EXCEPT !.root = h, !.owner = send[s].seen[h], !.from = born,
                                                   !.stage = Following(s), !.seen = NothingSeen]]
      PROVE  WakeInv'
  <2>1. DOMAIN send[s] = WakeFields /\ DOMAIN guard = Homes
    BY DEF WakeInv, WakeShapes, SendShapes
  <2>2. PICK o : o = send[s].seen[h]
    OBVIOUS
  <2>3. PICK f : f = Following(s)
    OBVIOUS
  <2>4. PICK r : r = [send[s] EXCEPT !.root = h, !.owner = o, !.from = born, !.stage = f, !.seen = NothingSeen]
    OBVIOUS
  <2>5. send' = [send EXCEPT ![s] = r] BY <1>4, <2>2, <2>3, <2>4
  <2>6. /\ DOMAIN r = WakeFields /\ r.seen = NothingSeen /\ r.stage = f /\ r.root = h /\ r.from = born
        /\ r.active = send[s].active /\ r.told = send[s].told
        /\ r.wake = send[s].wake /\ r.thread = send[s].thread /\ r.explicit = send[s].explicit
        /\ r.hop = send[s].hop /\ r.limit = send[s].limit /\ r.parent = send[s].parent /\ r.link = send[s].link
    BY <2>1, <2>4 DEF WakeFields
  <2>7. SendPlaced(s) /\ LockIsMine(s) /\ ActivationReserved(s)
    BY DEF WakeInv, SendRight
  <2>8. /\ send[s].stage = "first resolve" => send[s].wake /\ f = "preflight"
        /\ send[s].stage = "resolve" => f = "revalidate"
    BY <2>3, <2>7, FollowingStage DEF SendPlaced, WakeOnly
  <2>9. h \in Copies(send[s].thread) /\ h \in Homes /\ (send[s].root \in Copies(send[s].thread) => h = send[s].root)
    BY ChosenHome
  <2>10. r.stage \in {"preflight", "revalidate"} /\ (r.stage = "preflight" => r.wake)
         /\ (r.stage = "revalidate" => send[s].stage = "resolve")
    BY <1>1, <2>6, <2>8
  <2>11. r.stage \in SendStages \ (Late \cup {"idle"}) /\ (r.stage \in WakeOnly => r.wake)
    BY <2>6, <2>7, <2>10 DEF SendStages, WakeOnly, HomeChosen, Late, SendPlaced
  <2>12. r.root \in Copies(r.thread) \cup {NoHome} /\ r.from \in 0..born
         /\ (r.stage \in HomeChosen \/ (r.wake /\ r.stage = "resolve") => r.root \in Copies(r.thread))
    BY <2>6, <2>9 DEF WakeInv, ClocksRight
  <2>13. r.wake /\ r.stage = "revalidate" => h = send[s].root
    BY <2>6, <2>7, <2>9, <2>10 DEF SendPlaced
  <2>14. r.wake /\ r.stage \in UnderLock => guard'[r.root] = s
    BY <1>4, <2>6, <2>7, <2>10, <2>13 DEF LockIsMine, UnderLock
  <2>15. r.wake /\ ~r.active /\ r.stage \in {"cut", "resolve", "revalidate", "queue", "after"} =>
           r.root \in Homes /\ \E a \in reserved[r.root] : a.by = s
    BY <2>6, <2>7, <2>10, <2>13 DEF ActivationReserved
  <2>16. \A k \in Copies(r.thread) \ {r.root} :
           /\ r.stage = "revalidate" /\ r.seen[k] = 0 => writer[k] = 0 \/ writer[k] > r.from
           /\ r.stage = "queue" => writer[k] = 0 \/ writer[k] > r.from
    BY <2>6, <2>10, SeenNothing DEF Unseen, Copies
  <2>17. DOMAIN guard' = Homes /\ \A k \in Homes : guard'[k] = guard[k] \/ guard[k] \in {s, NoSend}
    BY <1>4, <2>1
  <2>18. DOMAIN r.seen = Homes BY <2>6, SeenNothing
  <2>19. QED
    BY <1>1, <1>2, <2>5, <2>6, <2>11, <2>12, <2>14, <2>15, <2>16, <2>17, <2>18, WakeMoves
<1>5. QED BY <1>3, <1>4 DEF Resolves

(* The step of an invocation to its next stage, where nothing that depends *)
(* on the new stage is lost.                                               *)
LEMMA NextStage ==
  ASSUME WakeInv, NEW s \in Sends, NEW a, NEW f, NEW r, f = Following(s),
         send' = [send EXCEPT ![s] = r],
         DOMAIN r = WakeFields, r.seen = NothingSeen, r.stage = f, r.root = send[s].root, r.from = send[s].from,
         r.active = a, r.told = send[s].told,
         r.wake = send[s].wake, r.thread = send[s].thread, r.explicit = send[s].explicit,
         r.hop = send[s].hop, r.limit = send[s].limit, r.parent = send[s].parent, r.link = send[s].link,
         \/ send[s].stage \in {"preflight", "second preflight"}
         \/ send[s].stage \in {"first revalidate", "revalidate"} /\ SameEvidence(s) /\ a = send[s].active
         \/ send[s].stage = "reserve" /\ a,
         UNCHANGED <<real, back, rate, writer, born, guard, stamps, server, queued, reserved>>
  PROVE  WakeInv'
<1>1. DOMAIN send[s] = WakeFields /\ DOMAIN guard = Homes
  BY DEF WakeInv, WakeShapes, SendShapes
<1>2. /\ DOMAIN r = WakeFields /\ r.seen = NothingSeen /\ r.stage = f /\ r.root = send[s].root /\ r.from = send[s].from
      /\ r.active = a /\ r.told = send[s].told
      /\ r.wake = send[s].wake /\ r.thread = send[s].thread /\ r.explicit = send[s].explicit
      /\ r.hop = send[s].hop /\ r.limit = send[s].limit /\ r.parent = send[s].parent /\ r.link = send[s].link
  OBVIOUS
<1>3. SendPlaced(s) /\ LockIsMine(s) /\ ActivationReserved(s) /\ LooksHold(s)
  BY DEF WakeInv, SendRight
<1>4. send[s].stage \in WakeOnly => send[s].wake BY <1>3 DEF SendPlaced
<1>5. /\ send[s].stage = "preflight" => send[s].wake /\ f = "guard"
      /\ send[s].stage = "second preflight" => send[s].wake /\ f = "reserve"
      /\ send[s].stage = "first revalidate" => send[s].wake /\ f = "second preflight"
      /\ send[s].stage = "revalidate" => f = "queue"
      /\ send[s].stage = "reserve" => send[s].wake /\ f = "resolve"
  BY <1>3, <1>4, FollowingStage DEF WakeOnly, SendPlaced
<1>6. send[s].stage \notin Late \cup {"idle"} /\ send[s].stage \in HomeChosen
  BY DEF Late, HomeChosen
<1>7. r.stage \in {"guard", "reserve", "second preflight", "queue", "resolve"} /\ (r.stage # "queue" => r.wake)
  BY <1>2, <1>5
<1>8. /\ r.stage \in SendStages \ (Late \cup {"idle"}) /\ (r.stage \in WakeOnly => r.wake)
      /\ r.root \in Copies(r.thread) \cup {NoHome} /\ r.from \in 0..born
      /\ (r.stage \in HomeChosen \/ (r.wake /\ r.stage = "resolve") => r.root \in Copies(r.thread))
  BY <1>2, <1>3, <1>6, <1>7 DEF SendPlaced, SendStages, Late, WakeOnly, HomeChosen
<1>9. r.wake /\ r.stage \in UnderLock => guard'[r.root] = s
  BY <1>2, <1>3, <1>5, <1>7 DEF LockIsMine, UnderLock
<1>10. r.wake /\ ~r.active /\ r.stage \in {"cut", "resolve", "revalidate", "queue", "after"} =>
         r.root \in Homes /\ \E b \in reserved[r.root] : b.by = s
  BY <1>2, <1>3, <1>5, <1>7 DEF ActivationReserved
<1>11. \A k \in Copies(r.thread) \ {r.root} :
         /\ r.stage = "revalidate" /\ r.seen[k] = 0 => writer[k] = 0 \/ writer[k] > r.from
         /\ r.stage = "queue" => writer[k] = 0 \/ writer[k] > r.from
  <2> TAKE k \in Copies(r.thread) \ {r.root}
  <2>1. r.stage = "queue" => send[s].stage = "revalidate" /\ SameEvidence(s)
    BY <1>2, <1>5
  <2>2. SameEvidence(s) => send[s].seen[k] = 0 BY <1>2 DEF SameEvidence
  <2>3. send[s].stage = "revalidate" /\ send[s].seen[k] = 0 => writer[k] = 0 \/ writer[k] > r.from
    BY <1>2, <1>3 DEF LooksHold, NewerOnly
  <2>4. QED BY <1>7, <2>1, <2>2, <2>3
<1>12. DOMAIN guard' = Homes /\ \A k \in Homes : guard'[k] = guard[k] \/ guard[k] \in {s, NoSend}
  BY <1>1
<1>13. DOMAIN r.seen = Homes BY <1>2, SeenNothing
<1>14. UNCHANGED <<real, back, rate, writer, born, stamps, server, queued, reserved>>
  OBVIOUS
<1>15. QED BY <1>2, <1>6, <1>8, <1>9, <1>10, <1>11, <1>12, <1>13, <1>14, WakeMoves
LEMMA PreflightKeeps == ASSUME WakeInv, NEW s \in Sends, Preflight(s) PROVE WakeInv'
<1>1. /\ send[s].stage \in {"preflight", "second preflight"}
      /\ UNCHANGED <<real, back, rate, writer, born, stamps, server, queued, reserved>>
  BY DEF Preflight
<1>2. CASE Over(s, "refused") BY <1>1, <1>2, Refuses DEF Late
<1>3. ASSUME NEW e, UNCHANGED guard,
             send' = [send EXCEPT ![s] = [@ EXCEPT !.active = e > 0, !.stage = Following(s), !.seen = NothingSeen]]
      PROVE  WakeInv'
  <2>1. DOMAIN send = Sends /\ DOMAIN send[s] = WakeFields
    BY DEF WakeInv, WakeShapes, SendShapes
  <2>2. PICK a : a = (e > 0)
    OBVIOUS
  <2>3. PICK f : f = Following(s)
    OBVIOUS
  <2>4. PICK r : r = [send[s] EXCEPT !.active = a, !.stage = f, !.seen = NothingSeen]
    OBVIOUS
  <2>5. send' = [send EXCEPT ![s] = r] BY <1>3, <2>1, <2>2, <2>3, <2>4
  <2>6. UNCHANGED <<real, back, rate, writer, born, guard, stamps, server, queued, reserved>>
    BY <1>1, <1>3
  <2>7. /\ DOMAIN r = WakeFields /\ r.seen = NothingSeen /\ r.stage = f /\ r.root = send[s].root /\ r.from = send[s].from
        /\ r.active = a /\ r.told = send[s].told
        /\ r.wake = send[s].wake /\ r.thread = send[s].thread /\ r.explicit = send[s].explicit
        /\ r.hop = send[s].hop /\ r.limit = send[s].limit /\ r.parent = send[s].parent /\ r.link = send[s].link
    BY <2>1, <2>4 DEF WakeFields
  <2>8. QED BY <1>1, <2>3, <2>5, <2>6, <2>7, NextStage
<1>4. QED BY <1>2, <1>3 DEF Preflight

(* An invocation that goes on with what it knows.                          *)
LEMMA GoesOnKeeps ==
  ASSUME WakeInv, NEW s \in Sends, GoesOn(s),
         \/ send[s].stage \in {"first revalidate", "revalidate"} /\ SameEvidence(s)
         \/ send[s].stage = "reserve" /\ send[s].active,
         UNCHANGED <<real, back, rate, writer, born, stamps, server, queued, reserved>>
  PROVE  WakeInv'
<1>1. DOMAIN send = Sends /\ DOMAIN send[s] = WakeFields
  BY DEF WakeInv, WakeShapes, SendShapes, SendRight, SendPlaced
<1>2. PICK f : f = Following(s)
  OBVIOUS
<1>3. PICK a : a = send[s].active BY <1>1
<1>4. PICK r : r = [send[s] EXCEPT !.stage = f, !.seen = NothingSeen]
  OBVIOUS
<1>5. send' = [send EXCEPT ![s].stage = f, ![s].seen = NothingSeen] BY <1>2 DEF GoesOn
<1>6. send' = [send EXCEPT ![s] = r] BY <1>1, <1>4, <1>5
<1>7. /\ DOMAIN r = WakeFields /\ r.seen = NothingSeen /\ r.stage = f /\ r.root = send[s].root /\ r.from = send[s].from
      /\ r.active = a /\ r.told = send[s].told
      /\ r.wake = send[s].wake /\ r.thread = send[s].thread /\ r.explicit = send[s].explicit
      /\ r.hop = send[s].hop /\ r.limit = send[s].limit /\ r.parent = send[s].parent /\ r.link = send[s].link
  BY <1>1, <1>3, <1>4 DEF WakeFields
<1>8. UNCHANGED <<real, back, rate, writer, born, guard, stamps, server, queued, reserved>>
  BY DEF GoesOn
<1>9. \/ send[s].stage \in {"first revalidate", "revalidate"} /\ SameEvidence(s) /\ a = send[s].active
      \/ send[s].stage = "reserve" /\ a
  BY <1>3
<1>10. QED BY <1>2, <1>6, <1>7, <1>8, <1>9, NextStage

LEMMA RevalidatesKeeps == ASSUME WakeInv, NEW s \in Sends, Revalidates(s) \/ EndsEarly(s) PROVE WakeInv'
<1>1. UNCHANGED <<real, back, rate, writer, born, stamps, server, queued, reserved>>
  BY DEF Revalidates, EndsEarly
<1>2. send[s].stage \notin Late \cup {"idle"}
  BY DEF Revalidates, EndsEarly, Running, Late
<1>3. CASE Over(s, "refused") BY <1>1, <1>2, <1>3, Refuses
<1>4. CASE send[s].stage \in {"first revalidate", "revalidate"} /\ SameEvidence(s) /\ GoesOn(s)
  BY <1>1, <1>4, GoesOnKeeps
<1>5. QED BY <1>3, <1>4 DEF Revalidates, EndsEarly

LEMMA GuardsKeeps == ASSUME WakeInv, NEW s \in Sends, Guards(s) PROVE WakeInv'
<1>1. /\ send[s].stage = "guard"
      /\ UNCHANGED <<real, back, rate, writer, born, stamps, server, queued, reserved>>
  BY DEF Guards, At
<1>2. send[s].stage \notin Late \cup {"idle"} BY <1>1 DEF Late
<1>3. CASE Over(s, "refused") BY <1>1, <1>2, <1>3, Refuses
<1>4. CASE guard[send[s].root] = NoSend /\ guard' = [guard EXCEPT ![send[s].root] = s]
           /\ send' = [send EXCEPT ![s].stage = Following(s)]
  <2>1. DOMAIN send = Sends /\ DOMAIN send[s] = WakeFields /\ DOMAIN guard = Homes /\ DOMAIN send[s].seen = Homes
    BY DEF WakeInv, WakeShapes, SendShapes
  <2>2. SendPlaced(s) BY DEF WakeInv, SendRight
  <2>3. send[s].wake /\ send[s].root \in Copies(send[s].thread) /\ send[s].from \in 0..born
    BY <1>1, <2>2 DEF SendPlaced, WakeOnly, HomeChosen
  <2>4. send[s].root \in Homes BY <2>3 DEF Copies
  <2>5. PICK f : f = Following(s)
    OBVIOUS
  <2>6. f = "first revalidate" BY <1>1, <2>3, <2>5, FollowingStage
  <2>7. PICK r : r = [send[s] EXCEPT !.stage = f]
    OBVIOUS
  <2>8. send' = [send EXCEPT ![s] = r] BY <1>4, <2>1, <2>5, <2>7
  <2>9. /\ DOMAIN r = WakeFields /\ r.seen = send[s].seen /\ r.stage = f /\ r.root = send[s].root /\ r.from = send[s].from
        /\ r.active = send[s].active /\ r.told = send[s].told
        /\ r.wake = send[s].wake /\ r.thread = send[s].thread /\ r.explicit = send[s].explicit
        /\ r.hop = send[s].hop /\ r.limit = send[s].limit /\ r.parent = send[s].parent /\ r.link = send[s].link
    BY <2>1, <2>7 DEF WakeFields
  <2>10. /\ r.stage \in SendStages \ (Late \cup {"idle"}) /\ r.wake
         /\ r.root \in Copies(r.thread) /\ r.from \in 0..born
    BY <2>3, <2>6, <2>9 DEF SendStages, WakeOnly, Late
  <2>11. guard'[r.root] = s BY <1>4, <2>1, <2>4, <2>9
  <2>12. r.stage \notin {"cut", "resolve", "revalidate", "queue", "after"} BY <2>6, <2>9
  <2>13. DOMAIN guard' = Homes /\ \A k \in Homes : guard'[k] = guard[k] \/ guard[k] \in {s, NoSend}
    BY <1>4, <2>1
  <2>14. DOMAIN r.seen = Homes BY <2>1, <2>9
  <2>15. \A k \in Copies(r.thread) \ {r.root} :
           /\ r.stage = "revalidate" /\ r.seen[k] = 0 => writer[k] = 0 \/ writer[k] > r.from
           /\ r.stage = "queue" => writer[k] = 0 \/ writer[k] > r.from
    BY <2>12
  <2>16. QED
    BY <1>1, <1>2, <2>8, <2>9, <2>10, <2>11, <2>12, <2>13, <2>14, <2>15, WakeMoves
<1>5. QED BY <1>3, <1>4 DEF Guards
(* A wake whose message is queued goes on.                                 *)
LEMMA LateRight ==
  ASSUME WakeInv, NEW s \in Sends, NEW r, DOMAIN r = WakeFields, DOMAIN r.seen = Homes, send' = [send EXCEPT ![s] = r],
         r.wake = send[s].wake, r.thread = send[s].thread, r.explicit = send[s].explicit, r.hop = send[s].hop,
         r.limit = send[s].limit, r.parent = send[s].parent, r.link = send[s].link, r.root = send[s].root,
         r.from = send[s].from, r.active = send[s].active, send[s].wake,
         send[s].stage \in {"queue", "after", "wait"}, r.stage \in {"after", "wait", "stop"}, r.told \in SubmittedTo,
         \A h \in Homes : s \in queued'[h] <=> h = send[s].root,
         \A h \in Homes : \A q \in Sends \ {s} : q \in queued'[h] <=> q \in queued[h],
         DOMAIN queued' = Homes, DOMAIN server' = Sends, \A q \in Sends \ {s} : server'[q] = server[q],
         server'[s] = server[s] \/ server'[s] = "started",
         server'[s] # "none" <=> r.stage \in {"wait", "stop"},
         server'[s] # server[s] => send[s].stage = "after" /\ ~send[s].active,
         r.stage = "after" => send[s].stage = "queue",
         UNCHANGED <<real, back, rate, writer, born, guard, stamps, reserved>>
  PROVE  WakeInv'
<1>1. /\ send'[s] = r /\ \A q \in Sends \ {s} : send'[q] = send[q]
      /\ SendShapes'
  <2>1. DOMAIN send = Sends BY DEF WakeInv, WakeShapes, SendShapes
  <2>2. send'[s] = r /\ \A q \in Sends \ {s} : send'[q] = send[q] BY <2>1
  <2>3. SendShapes' BY <2>1, <2>2 DEF WakeInv, WakeShapes, SendShapes
  <2>4. QED BY <2>2, <2>3
<1>2. SendPlaced(s) /\ LockIsMine(s) /\ ServerPlaced(s) /\ ActivationReserved(s) /\ MessagePlaced(s) /\ HopKept(s)
  BY DEF WakeInv, SendRight
<1>3. send[s].root \in Copies(send[s].thread) /\ send[s].root \in Homes
  BY <1>2 DEF SendPlaced, HomeChosen, Copies
<1>4. SendPlaced(s)'
  <2>1. SubmittedTo \subseteq {"nothing", "refused", "queued", "unknown", "failed", "active", "completed"}
        /\ r.stage \in SendStages
    BY DEF SubmittedTo, SendStages, WakeOnly
  <2>2. /\ send'[s].stage = r.stage /\ send'[s].told = r.told /\ send'[s].wake = send[s].wake
        /\ send'[s].thread = send[s].thread /\ send'[s].explicit = send[s].explicit
        /\ send'[s].root = send[s].root /\ send'[s].from = send[s].from /\ born' = born
        /\ r.told \in SubmittedTo /\ send[s].wake /\ r.stage # "idle"
    BY <1>1
  <2>3. QED BY ONLY <1>2, <1>3, <2>1, <2>2 DEF SendPlaced, Copies
<1>5. LockIsMine(s)'
  <2>1. send[s].stage \in UnderLock BY DEF UnderLock
  <2>2. QED BY <1>1, <1>2, <2>1 DEF LockIsMine
<1>6. ServerPlaced(s)' BY <1>1, <1>2 DEF ServerPlaced
<1>7. ActivationReserved(s)'
  <2>1. server'[s] # "none" \/ (~send[s].active /\ send[s].stage \in {"queue", "after"}) =>
          \E a \in reserved[send[s].root] : a.by = s
    BY <1>2 DEF ActivationReserved
  <2>2. r.wake /\ ~r.active /\ r.stage \in {"cut", "resolve", "revalidate", "queue", "after"} =>
          ~send[s].active /\ send[s].stage = "queue"
    OBVIOUS
  <2>3. send'[s].root = send[s].root /\ reserved' = reserved /\ send'[s] = r BY <1>1
  <2>4. QED BY <1>3, <2>1, <2>2, <2>3 DEF ActivationReserved
<1>8. MessagePlaced(s)' BY <1>1, <1>3 DEF MessagePlaced, Late, SubmittedTo
<1>9. LooksHold(s)' BY <1>1 DEF LooksHold
<1>10. HopKept(s)'
  <2>1. send[s].link \in Chained =>
          send[s].parent \in Sends /\ send[send[s].parent].stage # "idle" /\ send[send[s].parent].wake
          /\ send[s].hop = send[send[s].parent].hop + 1
    BY <1>2 DEF HopKept
  <2>2. ASSUME NEW p \in Sends, send[p].stage # "idle"
        PROVE  send'[p].stage # "idle" /\ send'[p].wake = send[p].wake /\ send'[p].hop = send[p].hop
               /\ send'[p].limit = send[p].limit
    <3>1. CASE p = s BY <1>1, <3>1
    <3>2. CASE p # s BY <1>1, <2>2, <3>2
    <3>3. QED BY <3>1, <3>2
  <2>3. send'[s].wake = send[s].wake /\ send'[s].hop = send[s].hop
        /\ send'[s].limit = send[s].limit /\ send'[s].parent = send[s].parent /\ send'[s].link = send[s].link
    BY <1>1
  <2>4. send[s].stage \notin {"idle", "over", "killed"} /\ send'[s].stage # "idle" /\ send[s].wake
    BY <1>1
  <2>5. QED BY ONLY <1>2, <2>1, <2>2, <2>3, <2>4 DEF HopKept, Chained
<1>11. SendRight(s)' BY <1>4, <1>5, <1>6, <1>7, <1>8, <1>9, <1>10 DEF SendRight
<1>12. OneSends(s) BY <1>1 DEF OneSends, SameContext
<1>13. WakeShapes'
  <2>1. WakeShapes /\ UNCHANGED <<writer, guard, stamps, reserved>> BY DEF WakeInv
  <2>2. DOMAIN queued' = Homes /\ DOMAIN server' = Sends
    OBVIOUS
  <2>3. QED BY ONLY <1>1, <2>1, <2>2 DEF WakeShapes
<1>14. QED BY <1>11, <1>12, <1>13, OneGoesOn

LEMMA QueuesKeeps == ASSUME WakeInv, NEW s \in Sends, Queues(s) PROVE WakeInv'
<1>1. /\ send[s].stage = "queue"
      /\ UNCHANGED <<real, back, rate, writer, born, stamps, server, reserved>>
  BY DEF Queues, At
<1>2. PICK put \in BOOLEAN : \E t \in Answers(put) :
        /\ queued' = IF put THEN [queued EXCEPT ![send[s].root] = @ \cup {s}] ELSE queued
        /\ IF t = "queued" /\ send[s].wake
           THEN send' = [send EXCEPT ![s].stage = "after", ![s].told = t] /\ UNCHANGED guard
           ELSE Over(s, t)
  BY DEF Queues
<1>3. PICK t \in Answers(put) :
        /\ queued' = IF put THEN [queued EXCEPT ![send[s].root] = @ \cup {s}] ELSE queued
        /\ IF t = "queued" /\ send[s].wake
           THEN send' = [send EXCEPT ![s].stage = "after", ![s].told = t] /\ UNCHANGED guard
           ELSE Over(s, t)
  BY <1>2
<1>4. SendPlaced(s) /\ ServerPlaced(s) /\ MessagePlaced(s) BY DEF WakeInv, SendRight
<1>5. DOMAIN send = Sends /\ DOMAIN send[s] = WakeFields /\ DOMAIN send[s].seen = Homes /\ DOMAIN queued = Homes
      /\ DOMAIN server = Sends
  BY DEF WakeInv, WakeShapes, SendShapes
<1>6. send[s].root \in Homes BY <1>1, <1>4 DEF SendPlaced, HomeChosen, Copies
<1>7. \A h \in Homes : s \notin queued[h] BY <1>1, <1>4 DEF MessagePlaced, Late
<1>8. server[s] = "none" BY <1>1, <1>4 DEF ServerPlaced
<1>9. /\ DOMAIN queued' = Homes
      /\ \A h \in Homes : \A q \in Sends \ {s} : q \in queued'[h] <=> q \in queued[h]
      /\ \A h \in Homes : s \in queued'[h] <=> (put /\ h = send[s].root)
  BY <1>3, <1>5, <1>6, <1>7
<1>10. /\ t \in {"unknown", "failed", "queued"}
       /\ t = "queued" => put
  BY DEF Answers
<1>11. CASE t = "queued" /\ send[s].wake
  <2>1. send' = [send EXCEPT ![s].stage = "after", ![s].told = t] /\ UNCHANGED guard
    BY <1>3, <1>11
  <2>2. PICK r : r = [send[s] EXCEPT !.stage = "after", !.told = t]
    OBVIOUS
  <2>3. send' = [send EXCEPT ![s] = r] BY <1>5, <2>1, <2>2
  <2>4. /\ DOMAIN r = WakeFields /\ r.seen = send[s].seen /\ r.stage = "after" /\ r.root = send[s].root
        /\ r.from = send[s].from /\ r.active = send[s].active /\ r.told = t
        /\ r.wake = send[s].wake /\ r.thread = send[s].thread /\ r.explicit = send[s].explicit
        /\ r.hop = send[s].hop /\ r.limit = send[s].limit /\ r.parent = send[s].parent /\ r.link = send[s].link
    BY <1>5, <2>2 DEF WakeFields
  <2>5. r.told \in SubmittedTo /\ DOMAIN r.seen = Homes /\ r.stage \in {"after", "wait", "stop"}
    BY <1>5, <1>11, <2>4 DEF SubmittedTo
  <2>6. \A h \in Homes : s \in queued'[h] <=> h = send[s].root BY <1>9, <1>10, <1>11
  <2>7. UNCHANGED <<real, back, rate, writer, born, guard, stamps, reserved>>
    BY <1>1, <2>1
  <2>8. /\ DOMAIN server' = Sends /\ \A q \in Sends \ {s} : server'[q] = server[q]
        /\ server'[s] = server[s] /\ server'[s] = "none"
    BY <1>1, <1>5, <1>8
  <2>9. QED BY <1>1, <1>9, <1>11, <2>3, <2>4, <2>5, <2>6, <2>7, <2>8, LateRight
<1>12. CASE ~(t = "queued" /\ send[s].wake)
  <2>1. send' = [send EXCEPT ![s].stage = "over", ![s].told = t, ![s].seen = NothingSeen] /\ guard' = Dropped(s)
    BY <1>3, <1>12 DEF Over
  <2>2. PICK end \in {"over", "killed"} : end = "over"
    OBVIOUS
  <2>3. send' = [send EXCEPT ![s].stage = end, ![s].told = t, ![s].seen = NothingSeen] /\ guard' = Dropped(s)
    BY <2>1, <2>2
  <2>4. /\ t \in {"nothing", "refused", "queued", "unknown", "failed", "active", "completed"}
        /\ t \notin {"nothing", "refused"} /\ (t \in SubmittedTo => put)
    BY <1>10 DEF SubmittedTo
  <2>5. t \in SubmittedTo => send[s].root \in Homes /\ s \in queued'[send[s].root]
    BY <1>6, <1>9, <2>4
  <2>6. \A h \in Homes : s \in queued'[h] => h = send[s].root BY <1>9
  <2>7. server[s] \notin {"started", "resumed"} /\ send[s].stage \notin {"idle", "over", "killed"}
    BY <1>1, <1>8
  <2>8. UNCHANGED <<real, back, rate, writer, born, stamps, server, reserved>> BY <1>1
  <2>9. QED BY <1>9, <2>3, <2>4, <2>5, <2>6, <2>7, <2>8, CommandOver
<1>13. QED BY <1>11, <1>12

LEMMA ActivatesKeeps == ASSUME WakeInv, NEW s \in Sends, Activates(s) \/ WaitEnds(s) PROVE WakeInv'
<1>1. /\ send[s].stage \in {"after", "wait"}
      /\ UNCHANGED <<real, back, rate, writer, born, stamps, queued, reserved>>
  BY DEF Activates, WaitEnds, At
<1>2. SendPlaced(s) /\ ServerPlaced(s) /\ MessagePlaced(s) BY DEF WakeInv, SendRight
<1>3. DOMAIN send = Sends /\ DOMAIN send[s] = WakeFields /\ DOMAIN send[s].seen = Homes /\ DOMAIN queued = Homes
      /\ DOMAIN server = Sends
  BY DEF WakeInv, WakeShapes, SendShapes
<1>4. send[s].wake /\ send[s].root \in Homes /\ send[s].told \in SubmittedTo /\ s \in queued[send[s].root]
  BY <1>1, <1>2 DEF SendPlaced, WakeOnly, MessagePlaced
<1>5. /\ DOMAIN queued' = Homes
      /\ \A h \in Homes : \A q \in Sends \ {s} : q \in queued'[h] <=> q \in queued[h]
      /\ \A h \in Homes : s \in queued'[h] <=> h = send[s].root
  BY <1>1, <1>2, <1>3, <1>4 DEF MessagePlaced
<1>6. CASE Activates(s) /\ MayActivate(s)
  <2>1. /\ send' = [send EXCEPT ![s].stage = "wait", ![s].seen = NothingSeen] /\ UNCHANGED guard
        /\ server' = [server EXCEPT ![s] = "started"] /\ send[s].stage = "after" /\ ~send[s].active
    BY <1>6 DEF Activates, MayActivate, At
  <2>2. PICK r : r = [send[s] EXCEPT !.stage = "wait", !.seen = NothingSeen]
    OBVIOUS
  <2>3. send' = [send EXCEPT ![s] = r] BY <1>3, <2>1, <2>2
  <2>4. /\ DOMAIN r = WakeFields /\ r.seen = NothingSeen /\ r.stage = "wait" /\ r.root = send[s].root
        /\ r.from = send[s].from /\ r.active = send[s].active /\ r.told = send[s].told
        /\ r.wake = send[s].wake /\ r.thread = send[s].thread /\ r.explicit = send[s].explicit
        /\ r.hop = send[s].hop /\ r.limit = send[s].limit /\ r.parent = send[s].parent /\ r.link = send[s].link
    BY <1>3, <2>2 DEF WakeFields
  <2>5. r.told \in SubmittedTo /\ DOMAIN r.seen = Homes /\ r.stage \in {"after", "wait", "stop"}
    BY <1>4, <2>4, SeenNothing
  <2>6. UNCHANGED <<real, back, rate, writer, born, guard, stamps, reserved>>
    BY <1>1, <2>1
  <2>7. /\ DOMAIN server' = Sends /\ \A q \in Sends \ {s} : server'[q] = server[q]
        /\ server'[s] = "started"
    BY <1>3, <2>1
  <2>8. r.stage # "after" /\ r.stage \in {"wait", "stop"} /\ server'[s] # "none"
    BY <2>4, <2>7
  <2>9. QED BY <1>1, <1>4, <1>5, <2>1, <2>3, <2>4, <2>5, <2>6, <2>7, <2>8, LateRight
<1>7. CASE Activates(s) /\ ~MayActivate(s)
  <2>1. PICK t \in {"active", "queued"} : Over(s, t) BY <1>7 DEF Activates
  <2>2. send[s].stage = "after" /\ UNCHANGED server BY <1>7 DEF Activates, At
  <2>3. PICK end \in {"over", "killed"} : end = "over"
    OBVIOUS
  <2>4. send' = [send EXCEPT ![s].stage = end, ![s].told = t, ![s].seen = NothingSeen] /\ guard' = Dropped(s)
    BY <2>1, <2>3 DEF Over
  <2>5. /\ t \in {"nothing", "refused", "queued", "unknown", "failed", "active", "completed"}
        /\ t \notin {"nothing", "refused"}
    BY <2>1
  <2>6. t \in SubmittedTo => send[s].root \in Homes /\ s \in queued'[send[s].root]
    BY <1>4, <1>5
  <2>7. \A h \in Homes : s \in queued'[h] => h = send[s].root BY <1>5
  <2>8. server[s] \notin {"started", "resumed"} /\ send[s].stage \notin {"idle", "over", "killed"}
    BY <1>2, <2>2 DEF ServerPlaced
  <2>9. UNCHANGED <<real, back, rate, writer, born, stamps, server, reserved>>
    BY <1>1, <2>2
  <2>10. QED BY <1>5, <2>4, <2>5, <2>6, <2>7, <2>8, <2>9, CommandOver
<1>8. CASE WaitEnds(s)
  <2>1. PICK t \in {"queued", "completed"} : send' = [send EXCEPT ![s].stage = "stop", ![s].told = t]
    BY <1>8 DEF WaitEnds
  <2>2. send[s].stage = "wait" /\ UNCHANGED <<server, guard>> BY <1>8 DEF WaitEnds, At
  <2>3. PICK r : r = [send[s] EXCEPT !.stage = "stop", !.told = t]
    OBVIOUS
  <2>4. send' = [send EXCEPT ![s] = r] BY <1>3, <2>1, <2>3
  <2>5. /\ DOMAIN r = WakeFields /\ r.seen = send[s].seen /\ r.stage = "stop" /\ r.root = send[s].root
        /\ r.from = send[s].from /\ r.active = send[s].active /\ r.told = t
        /\ r.wake = send[s].wake /\ r.thread = send[s].thread /\ r.explicit = send[s].explicit
        /\ r.hop = send[s].hop /\ r.limit = send[s].limit /\ r.parent = send[s].parent /\ r.link = send[s].link
    BY <1>3, <2>3 DEF WakeFields
  <2>6. r.told \in SubmittedTo /\ DOMAIN r.seen = Homes /\ r.stage \in {"after", "wait", "stop"}
    BY <1>3, <2>1, <2>5 DEF SubmittedTo
  <2>7. UNCHANGED <<real, back, rate, writer, born, guard, stamps, reserved>>
    BY <1>1, <2>2
  <2>8. /\ DOMAIN server' = Sends /\ \A q \in Sends \ {s} : server'[q] = server[q]
        /\ server'[s] = server[s]
    BY <1>3, <2>2
  <2>9. r.stage # "after" /\ r.stage \in {"wait", "stop"} /\ server'[s] # "none"
    BY <1>2, <2>2, <2>5, <2>8 DEF ServerPlaced
  <2>10. QED BY <1>1, <1>4, <1>5, <2>4, <2>5, <2>6, <2>7, <2>8, <2>9, LateRight
<1>9. QED BY <1>6, <1>7, <1>8
LEMMA KillsKeeps == ASSUME WakeInv, NEW s \in Sends, KillsSend(s) PROVE WakeInv'
<1>1. /\ send[s].stage \notin {"idle", "over", "killed"} /\ guard' = Dropped(s)
      /\ send' = [send EXCEPT ![s].stage = "killed", ![s].seen = NothingSeen]
      /\ UNCHANGED <<real, back, rate, writer, born, stamps, server, queued, reserved>>
  BY DEF KillsSend, Running
<1>2. SendPlaced(s) /\ MessagePlaced(s) BY DEF WakeInv, SendRight
<1>3. DOMAIN send = Sends /\ DOMAIN send[s] = WakeFields
  BY DEF WakeInv, WakeShapes, SendShapes
<1>4. PICK end \in {"over", "killed"} : end = "killed"
  OBVIOUS
<1>5. PICK say : say = send[s].told
  OBVIOUS
<1>6. PICK r : r = [send[s] EXCEPT !.stage = end, !.seen = NothingSeen]
  OBVIOUS
<1>7. send' = [send EXCEPT ![s] = r] BY <1>1, <1>3, <1>4, <1>6
<1>8. /\ DOMAIN r = WakeFields /\ r.stage = end /\ r.told = say /\ r.seen = NothingSeen
      /\ r.wake = send[s].wake /\ r.thread = send[s].thread /\ r.explicit = send[s].explicit
      /\ r.root = send[s].root /\ r.from = send[s].from /\ r.active = send[s].active
      /\ r.hop = send[s].hop /\ r.limit = send[s].limit /\ r.parent = send[s].parent /\ r.link = send[s].link
  BY <1>3, <1>5, <1>6 DEF WakeFields
<1>9. /\ say \in {"nothing", "refused", "queued", "unknown", "failed", "active", "completed"}
      /\ \A h \in Homes : s \in queued'[h] => h = send[s].root
      /\ say \in SubmittedTo => send[s].root \in Homes /\ s \in queued'[send[s].root]
      /\ end # "over"
  BY <1>1, <1>2, <1>4, <1>5 DEF SendPlaced, MessagePlaced
<1>10. /\ \A h \in Homes : reserved[h] \subseteq reserved'[h]
       /\ born' = born /\ server'[s] = server[s]
       /\ server'[s] \in {"started", "resumed"} => end = "killed"
       /\ send[s].stage \notin {"idle", "over", "killed"}
  BY <1>1, <1>4
<1>11. /\ SendRight(s)' /\ SameContext(s) /\ send'[s].stage = end
       /\ \A q \in Sends \ {s} : send'[q] = send[q]
       /\ SendShapes'
  BY <1>7, <1>8, <1>9, <1>10, OverRecordRight
<1>12. DOMAIN guard' = Homes /\ \A h \in Homes : guard'[h] = guard[h] \/ guard[h] = s
  BY <1>1, LockDropped
<1>13. OneSends(s) BY <1>1, <1>4, <1>11, <1>12 DEF OneSends
<1>14. WakeShapes'
  <2>1. WakeShapes /\ UNCHANGED <<writer, server, stamps, queued, reserved>>
    BY <1>1 DEF WakeInv
  <2>2. QED BY ONLY <1>11, <1>12, <2>1 DEF WakeShapes
<1>15. QED BY <1>1, <1>11, <1>13, <1>14, OneGoesOn

(* The writers after an app-server is gone, or a writer closes its thread. *)
LEMMA WriterGone ==
  ASSUME WakeInv, NEW h, writer' = [writer EXCEPT ![h] = 0] \/ writer' = writer, born' = born
  PROVE  WritersAge /\ WritersApart' /\ DOMAIN writer' = Homes
<1>1. DOMAIN writer = Homes /\ (\A k \in Homes : writer[k] \in 0..born) /\ born \in Nat /\ WritersApart
  BY DEF WakeInv, WakeShapes, WritersApart, ClocksRight
<1>2. DOMAIN writer' = Homes /\ \A k \in Homes : writer'[k] = writer[k] \/ writer'[k] = 0
  BY <1>1
<1>3. WritersAge BY <1>1, <1>2 DEF WritersAge
<1>4. WritersApart' BY <1>1, <1>2 DEF WritersApart
<1>5. QED BY <1>2, <1>3, <1>4

(* ... and after a new one appears.                                        *)
LEMMA WriterNew ==
  ASSUME WakeInv, NEW h \in Homes, born < MaxWriter, writer' = [writer EXCEPT ![h] = born + 1], born' = born + 1
  PROVE  WritersAge /\ WritersApart' /\ DOMAIN writer' = Homes /\ born' \in 0..MaxWriter
<1>1. DOMAIN writer = Homes /\ (\A k \in Homes : writer[k] \in 0..born) /\ born \in Nat /\ WritersApart /\ MaxWriter \in Nat
  BY WakeBounds DEF WakeInv, WakeShapes, WritersApart, ClocksRight
<1>2. DOMAIN writer' = Homes /\ writer'[h] = born + 1 /\ \A k \in Homes \ {h} : writer'[k] = writer[k]
  BY <1>1
<1>3. WritersAge BY <1>1, <1>2 DEF WritersAge
<1>4. WritersApart'
  <2>1. ASSUME NEW k \in Homes PROVE writer'[k] \in 0..born' BY <1>1, <1>2
  <2>2. ASSUME NEW j \in Homes, NEW k \in Homes, j # k, writer'[j] # 0 PROVE writer'[j] # writer'[k]
    BY <1>1, <1>2, <2>2 DEF WritersApart
  <2>3. QED BY <2>1, <2>2 DEF WritersApart
<1>5. QED BY <1>1, <1>2, <1>3, <1>4

LEMMA StopsKeeps == ASSUME WakeInv, NEW s \in Sends, StopsServer(s) PROVE WakeInv'
<1>1. /\ send[s].stage = "stop" /\ guard' = Dropped(s) /\ server' = [server EXCEPT ![s] = "gone"]
      /\ send' = [send EXCEPT ![s].stage = "over", ![s].told = send[s].told, ![s].seen = NothingSeen]
      /\ UNCHANGED <<real, back, rate, born, stamps, queued, reserved>>
      /\ writer' = [writer EXCEPT ![send[s].root] = 0] \/ writer' = writer
  BY DEF StopsServer, At, AfterStop, Over, Stopped
<1>2. SendPlaced(s) /\ MessagePlaced(s) /\ ServerPlaced(s) BY DEF WakeInv, SendRight
<1>3. DOMAIN server = Sends BY DEF WakeInv, WakeShapes
<1>4. WritersAge /\ WritersApart' /\ DOMAIN writer' = Homes
  <2>1. born' = born BY <1>1
  <2>2. QED BY <1>1, <2>1, WriterGone
<1>5. PICK say : say = send[s].told
  OBVIOUS
<1>6. PICK end \in {"over", "killed"} : end = "over"
  OBVIOUS
<1>7. send' = [send EXCEPT ![s].stage = end, ![s].told = say, ![s].seen = NothingSeen]
  BY <1>1, <1>5, <1>6
<1>8. say \in SubmittedTo BY <1>1, <1>2, <1>5 DEF MessagePlaced
<1>9. /\ say \in {"nothing", "refused", "queued", "unknown", "failed", "active", "completed"}
      /\ say \notin {"nothing", "refused"}
      /\ \A h \in Homes : s \in queued'[h] => h = send[s].root
      /\ say \in SubmittedTo => send[s].root \in Homes /\ s \in queued'[send[s].root]
  BY <1>1, <1>2, <1>5, <1>8 DEF MessagePlaced, SubmittedTo
<1>10. server'[s] = "gone" /\ DOMAIN server' = Sends /\ \A q \in Sends \ {s} : server'[q] = server[q]
  BY <1>1, <1>3
<1>11. server[s] # "none" BY <1>1, <1>2 DEF ServerPlaced
<1>12. /\ \A h \in Homes : reserved[h] \subseteq reserved'[h]
       /\ born' = born
       /\ server'[s] = server[s] \/ (server[s] # "none" /\ server'[s] = "gone")
       /\ server'[s] \in {"started", "resumed"} => end = "killed"
       /\ send[s].stage \notin {"idle", "over", "killed"}
  BY <1>1, <1>10, <1>11
<1>13. /\ SendRight(s)' /\ SameContext(s) /\ send'[s].stage = end
       /\ \A q \in Sends \ {s} : send'[q] = send[q]
       /\ SendShapes'
  BY <1>7, <1>9, <1>12, OverRight
<1>14. DOMAIN guard' = Homes /\ \A h \in Homes : guard'[h] = guard[h] \/ guard[h] = s
  BY <1>1, LockDropped
<1>15. OneSends(s) BY <1>1, <1>6, <1>10, <1>13, <1>14 DEF OneSends
<1>16. \A q \in Sends \ {s} : SendRight(q)' BY <1>4, <1>12, <1>15, OthersInStep
<1>17. WakeShapes'
  <2>1. WakeShapes /\ UNCHANGED <<stamps, queued, reserved>> BY <1>1 DEF WakeInv
  <2>2. QED BY ONLY <1>4, <1>10, <1>13, <1>14, <2>1 DEF WakeShapes
<1>18. \A h \in Homes : RateRight(h)' BY <1>1, RateStays
<1>19. ClocksRight' BY <1>1 DEF WakeInv, ClocksRight
<1>20. QED BY <1>4, <1>13, <1>16, <1>17, <1>18, <1>19 DEF WakeInv
(* Steps of the machine around the invocations: native writers and the     *)
(* app-servers.                                                            *)
LEMMA MachineKeeps ==
  ASSUME WakeInv, UNCHANGED <<real, back, rate, guard, stamps, send, queued, reserved>>,
         WritersAge, WritersApart', DOMAIN writer' = Homes, born' \in 0..MaxWriter, DOMAIN server' = Sends,
         \A q \in Sends :
           \/ server'[q] = server[q]
           \/ server[q] \in {"started", "resumed"} /\ server'[q] \in {"resumed", "gone"}
  PROVE  WakeInv'
<1>1. ContextsStay BY DEF ContextsStay
<1>2. \A q \in Sends : SendRight(q)'
  <2> TAKE q \in Sends
  <2>1. \/ server'[q] = server[q]
        \/ server[q] \in {"started", "resumed"} /\ server'[q] \in {"resumed", "gone"}
    OBVIOUS
  <2>2. send'[q] = send[q]
    OBVIOUS
  <2>3. /\ \A h \in Homes : guard[h] = q => guard'[h] = q
        /\ \A h \in Homes : reserved[h] \subseteq reserved'[h]
        /\ \A h \in Homes : q \in queued'[h] <=> q \in queued[h]
    OBVIOUS
  <2>4. QED BY <1>1, <2>1, <2>2, <2>3, SendStays
<1>3. \A h \in Homes : RateRight(h)' BY RateStays
<1>4. ClocksRight' BY DEF WakeInv, ClocksRight
<1>5. WakeShapes'
  <2>1. WakeShapes /\ UNCHANGED <<guard, stamps, send, queued, reserved>> BY DEF WakeInv
  <2>2. DOMAIN writer' = Homes /\ DOMAIN server' = Sends
    OBVIOUS
  <2>3. QED BY ONLY <2>1, <2>2 DEF WakeShapes, SendShapes
<1>6. QED BY <1>2, <1>3, <1>4, <1>5 DEF WakeInv

LEMMA ServersKeep == ASSUME WakeInv, NEW s \in Sends, Resumes(s) \/ OrphanEnds(s) PROVE WakeInv'
<1>1. DOMAIN server = Sends /\ born \in 0..MaxWriter
  BY DEF WakeInv, WakeShapes, ClocksRight
<1>2. SendPlaced(s) /\ ServerPlaced(s) /\ ActivationReserved(s)
  BY DEF WakeInv, SendRight
<1>3. CASE Resumes(s)
  <2>1. /\ server[s] = "started" /\ server' = [server EXCEPT ![s] = "resumed"]
        /\ UNCHANGED <<real, back, rate, guard, stamps, send, queued, reserved>>
        /\ born < MaxWriter /\ writer' = [writer EXCEPT ![send[s].root] = born + 1] /\ born' = born + 1
    BY <1>3 DEF Resumes
  <2>2. send[s].root \in Homes BY <1>2, <2>1 DEF ActivationReserved
  <2>3. PICK h \in Homes : h = send[s].root BY <2>2
  <2>4. WritersAge /\ WritersApart' /\ DOMAIN writer' = Homes /\ born' \in 0..MaxWriter
    BY <2>1, <2>3, WriterNew
  <2>5. /\ DOMAIN server' = Sends
        /\ \A q \in Sends : \/ server'[q] = server[q]
                            \/ server[q] \in {"started", "resumed"} /\ server'[q] \in {"resumed", "gone"}
    BY <1>1, <2>1
  <2>6. UNCHANGED <<real, back, rate, guard, stamps, send, queued, reserved>> BY <2>1
  <2>7. QED BY <2>4, <2>5, <2>6, MachineKeeps
<1>4. CASE OrphanEnds(s)
  <2>1. /\ server[s] \in {"started", "resumed"} /\ server' = [server EXCEPT ![s] = "gone"]
        /\ UNCHANGED <<real, back, rate, guard, stamps, send, queued, reserved>>
        /\ born' = born
        /\ writer' = [writer EXCEPT ![send[s].root] = 0] \/ writer' = writer
    BY <1>4 DEF OrphanEnds, Stopped
  <2>2. born' = born /\ (writer' = [writer EXCEPT ![send[s].root] = 0] \/ writer' = writer)
    BY <2>1
  <2>3. WritersAge /\ WritersApart' /\ DOMAIN writer' = Homes BY <2>2, WriterGone
  <2>4. /\ DOMAIN server' = Sends /\ born' \in 0..MaxWriter
        /\ \A q \in Sends : \/ server'[q] = server[q]
                            \/ server[q] \in {"started", "resumed"} /\ server'[q] \in {"resumed", "gone"}
    BY <1>1, <2>1
  <2>5. UNCHANGED <<real, back, rate, guard, stamps, send, queued, reserved>> BY <2>1
  <2>6. QED BY <2>3, <2>4, <2>5, MachineKeeps
<1>5. QED BY <1>3, <1>4

LEMMA ThreadsKeep == ASSUME WakeInv, NEW h \in Homes, OpensThread(h) \/ ClosesThread(h) PROVE WakeInv'
<1>1. DOMAIN server = Sends /\ born \in 0..MaxWriter
  BY DEF WakeInv, WakeShapes, ClocksRight
<1>2. UNCHANGED <<real, back, rate, guard, stamps, send, queued, reserved>> /\ server' = server
  BY DEF OpensThread, ClosesThread
<1>3. WritersAge /\ WritersApart' /\ DOMAIN writer' = Homes /\ born' \in 0..MaxWriter
  <2>1. CASE OpensThread(h) BY <2>1, WriterNew DEF OpensThread
  <2>2. CASE ClosesThread(h)
    <3>1. born' = born /\ writer' = [writer EXCEPT ![h] = 0] BY <2>2 DEF ClosesThread
    <3>2. QED BY <1>1, <3>1, WriterGone
  <2>3. QED BY <2>1, <2>2
<1>4. DOMAIN server' = Sends /\ \A q \in Sends : server'[q] = server[q] BY <1>1, <1>2
<1>5. QED BY <1>2, <1>3, <1>4, MachineKeeps

(* An invocation begins, alone or in the turn of another one.              *)
LEMMA BeginsRight ==
  ASSUME WakeInv, NEW s \in Sends, NEW r, DOMAIN r = WakeFields, DOMAIN r.seen = Homes, send' = [send EXCEPT ![s] = r],
         send[s].stage = "idle",
         r.root = NoHome, r.from = send[s].from, r.wake \in BOOLEAN,
         r.explicit \in Copies(r.thread) \cup {NoHome},
         \/ ~r.wake /\ r.stage = "resolve" /\ r.told = "nothing" /\ r.hop = send[s].hop /\ r.limit = send[s].limit
            /\ r.link = "none"
         \/ r.wake /\ r.stage = "first resolve" /\ r.told = "nothing" /\ r.hop <= r.limit
         \/ r.wake /\ r.stage = "over" /\ r.told = "refused",
         r.hop \in Nat, r.limit \in Nat, r.wake => r.hop >= 1,
         r.link \in Chained =>
           /\ r.parent \in Sends /\ server[r.parent] = "resumed" /\ r.hop = send[r.parent].hop + 1
           /\ r.link # "raised" => r.limit <= send[r.parent].limit,
         r.wake /\ r.link \notin Chained => r.hop = 1,
         UNCHANGED <<real, back, rate, writer, born, guard, stamps, server, queued, reserved>>
  PROVE  WakeInv'
<1>1. /\ send'[s] = r /\ \A q \in Sends \ {s} : send'[q] = send[q]
      /\ SendShapes'
  <2>1. DOMAIN send = Sends BY DEF WakeInv, WakeShapes, SendShapes
  <2>2. send'[s] = r /\ \A q \in Sends \ {s} : send'[q] = send[q] BY <2>1
  <2>3. SendShapes' BY <2>1, <2>2 DEF WakeInv, WakeShapes, SendShapes
  <2>4. QED BY <2>2, <2>3
<1>2. SendPlaced(s) /\ LockIsMine(s) /\ ServerPlaced(s) /\ ActivationReserved(s) /\ MessagePlaced(s) /\ HopKept(s)
  BY DEF WakeInv, SendRight
<1>3. server[s] = "none" /\ (\A h \in Homes : s \notin queued[h])
  BY <1>2 DEF ServerPlaced, MessagePlaced, Late
<1>4. r.stage \in {"resolve", "first resolve", "over"} /\ r.told \in {"nothing", "refused"}
      /\ (r.stage = "first resolve" => r.wake) /\ (r.stage = "resolve" => ~r.wake)
      /\ (r.stage = "over" <=> r.told = "refused") /\ r.stage # "idle"
  OBVIOUS
<1>5. SendPlaced(s)'
  <2>1. /\ r.stage \in SendStages /\ (r.stage \in WakeOnly => r.wake)
        /\ r.stage \notin HomeChosen /\ ~(r.wake /\ r.stage = "resolve")
    BY <1>4 DEF SendStages, WakeOnly, HomeChosen, Late
  <2>2. send'[s] = r /\ born' = born /\ send[s].from \in 0..born
    BY <1>1, <1>2 DEF SendPlaced
  <2>3. r.from = send[s].from /\ r.root = NoHome /\ r.wake \in BOOLEAN /\ r.explicit \in Copies(r.thread) \cup {NoHome}
    OBVIOUS
  <2>4. QED BY ONLY <1>4, <2>1, <2>2, <2>3 DEF SendPlaced, Copies
<1>6. LockIsMine(s)' /\ ServerPlaced(s)' /\ ActivationReserved(s)'
  BY <1>1, <1>3, <1>4 DEF LockIsMine, ServerPlaced, ActivationReserved, UnderLock
<1>7. MessagePlaced(s)' /\ LooksHold(s)'
  BY <1>1, <1>3, <1>4 DEF MessagePlaced, LooksHold, Late, SubmittedTo
<1>8. HopKept(s)'
  <2>1. ASSUME NEW p \in Sends, server[p] = "resumed"
        PROVE  send'[p].stage # "idle" /\ send'[p].wake /\ send'[p] = send[p]
    <3>1. ServerPlaced(p) /\ p # s BY <1>3, <2>1 DEF WakeInv, SendRight
    <3>2. QED BY <1>1, <2>1, <3>1 DEF ServerPlaced
  <2>2. r.link \in Chained => /\ r.parent \in Sends /\ send'[r.parent].stage # "idle" /\ send'[r.parent].wake
                              /\ r.hop = send'[r.parent].hop + 1
                              /\ r.link # "raised" => r.limit <= send'[r.parent].limit
    BY <2>1
  <2>3. /\ send'[s] = r /\ r.hop \in Nat /\ r.limit \in Nat /\ (r.wake => r.hop >= 1)
        /\ r.wake /\ r.link \notin Chained => r.hop = 1
        /\ server'[s] = "none"
        /\ r.wake /\ r.stage # "over" => r.hop <= r.limit
        /\ r.stage # "idle"
    BY <1>1, <1>3, <1>4
  <2>4. QED BY ONLY <2>2, <2>3 DEF HopKept, Chained
<1>9. SendRight(s)' BY <1>5, <1>6, <1>7, <1>8 DEF SendRight
<1>10. OneSends(s) BY <1>1 DEF OneSends
<1>11. WakeShapes'
  <2>1. WakeShapes /\ UNCHANGED <<writer, guard, stamps, server, queued, reserved>>
    BY DEF WakeInv
  <2>2. QED BY ONLY <1>1, <2>1 DEF WakeShapes
<1>12. UNCHANGED <<real, back, rate, writer, born, stamps, reserved>>
  OBVIOUS
<1>13. QED BY <1>9, <1>10, <1>11, <1>12, OneGoesOn

LEMMA StartsKeeps ==
  ASSUME WakeInv, NEW s \in Sends, NEW t \in Threads, NEW p \in Sends \cup {NoSend}, Starts(s, t, p)
  PROVE  WakeInv'
<1>1. /\ send[s].stage = "idle" /\ (p # NoSend => server[p] = "resumed")
      /\ UNCHANGED <<real, back, rate, writer, born, guard, stamps, server, queued, reserved>>
  BY DEF Starts, At
<1>2. PICK e \in Copies(t) \cup {NoHome}, o \in BOOLEAN :
        \/ send' = [send EXCEPT ![s] = [@ EXCEPT !.stage = "resolve", !.thread = t, !.explicit = e,
                                            !.optIn = o, !.parent = p]]
        \/ \E c \in Contexts(p) :
             send' = [send EXCEPT ![s] = [@ EXCEPT !.wake = TRUE, !.thread = t, !.explicit = e, !.parent = p,
               !.hop = c.hop, !.limit = c.limit, !.link = c.link,
               !.stage = IF WithinHops(c) THEN "first resolve" ELSE "over",
               !.told = IF WithinHops(c) THEN "nothing" ELSE "refused"]]
  BY DEF Starts
<1>3. SendPlaced(s) /\ MessagePlaced(s) /\ HopKept(s) BY DEF WakeInv, SendRight
<1>4. /\ send[s].root = NoHome /\ ~send[s].wake /\ send[s].wake \in BOOLEAN /\ send[s].told = "nothing"
      /\ send[s].hop \in Nat /\ send[s].limit \in Nat /\ send[s].link = "none"
  BY <1>1, <1>3 DEF SendPlaced, MessagePlaced, HopKept, Late
<1>5. DOMAIN send[s] = WakeFields /\ DOMAIN send = Sends /\ DOMAIN send[s].seen = Homes
  BY DEF WakeInv, WakeShapes, SendShapes
<1>6. CASE send' = [send EXCEPT ![s] = [@ EXCEPT !.stage = "resolve", !.thread = t, !.explicit = e,
                                                 !.optIn = o, !.parent = p]]
  <2>1. PICK r : r = [send[s] EXCEPT !.stage = "resolve", !.thread = t, !.explicit = e, !.optIn = o, !.parent = p]
    OBVIOUS
  <2>2. send' = [send EXCEPT ![s] = r] BY <1>5, <1>6, <2>1
  <2>3. /\ DOMAIN r = WakeFields /\ r.stage = "resolve" /\ r.thread = t /\ r.explicit = e
        /\ r.root = send[s].root /\ r.from = send[s].from /\ r.wake = send[s].wake /\ r.told = send[s].told
        /\ r.hop = send[s].hop /\ r.limit = send[s].limit /\ r.link = send[s].link /\ r.seen = send[s].seen
    BY <1>5, <2>1 DEF WakeFields
  <2>4. ~r.wake /\ r.wake \in BOOLEAN /\ r.link = "none" /\ r.link \notin Chained /\ r.root = NoHome /\ r.told = "nothing"
        /\ r.hop \in Nat /\ r.limit \in Nat /\ r.explicit \in Copies(r.thread) \cup {NoHome} /\ DOMAIN r.seen = Homes
    BY <1>4, <1>5, <2>3 DEF Chained
  <2>5. QED BY <1>1, <2>2, <2>3, <2>4, BeginsRight
<1>7. CASE \E c \in Contexts(p) :
             send' = [send EXCEPT ![s] = [@ EXCEPT !.wake = TRUE, !.thread = t, !.explicit = e, !.parent = p,
               !.hop = c.hop, !.limit = c.limit, !.link = c.link,
               !.stage = IF WithinHops(c) THEN "first resolve" ELSE "over",
               !.told = IF WithinHops(c) THEN "nothing" ELSE "refused"]]
  <2>1. PICK c \in Contexts(p) :
             send' = [send EXCEPT ![s] = [@ EXCEPT !.wake = TRUE, !.thread = t, !.explicit = e, !.parent = p,
               !.hop = c.hop, !.limit = c.limit, !.link = c.link,
               !.stage = IF WithinHops(c) THEN "first resolve" ELSE "over",
               !.told = IF WithinHops(c) THEN "nothing" ELSE "refused"]]
    BY <1>7
  <2>2. PICK st : st = IF WithinHops(c) THEN "first resolve" ELSE "over"
    OBVIOUS
  <2>3. PICK say : say = IF WithinHops(c) THEN "nothing" ELSE "refused"
    OBVIOUS
  <2>4. PICK ho, li, ln : ho = c.hop /\ li = c.limit /\ ln = c.link
    OBVIOUS
  <2>5. PICK r : r = [send[s] EXCEPT !.wake = TRUE, !.thread = t, !.explicit = e, !.parent = p,
                        !.hop = ho, !.limit = li, !.link = ln, !.stage = st, !.told = say]
    OBVIOUS
  <2>6. send' = [send EXCEPT ![s] = r] BY <1>5, <2>1, <2>2, <2>3, <2>4, <2>5
  <2>7. /\ DOMAIN r = WakeFields /\ r.stage = st /\ r.thread = t /\ r.explicit = e /\ r.parent = p
        /\ r.root = send[s].root /\ r.from = send[s].from /\ r.wake = TRUE /\ r.told = say
        /\ r.hop = ho /\ r.limit = li /\ r.link = ln /\ r.seen = send[s].seen
    BY <1>5, <2>5 DEF WakeFields
  <2>8. /\ ho \in Nat /\ li \in Nat /\ ho >= 1
        /\ ln \in Chained => p \in Sends /\ server[p] = "resumed" /\ ho = send[p].hop + 1
                             /\ (ln # "raised" => li <= send[p].limit)
        /\ ln \notin Chained => ho = 1
    <3>1. \A l \in Hops : l \in Nat BY WakeBounds
    <3>2. CASE p = NoSend BY <2>4, <3>1, <3>2 DEF Contexts, Chained
    <3>3. CASE p # NoSend
      <4>1. p \in Sends /\ server[p] = "resumed" /\ send[p].hop \in Nat /\ send[p].limit \in Nat
        BY <1>1, <3>3 DEF WakeInv, SendRight, HopKept
      <4>2. \A l \in Hops : CarriedLimit(p, l) \in Nat /\ CarriedLimit(p, l) <= send[p].limit
        BY <3>1, <4>1 DEF CarriedLimit
      <4>3. CASE c = [hop |-> send[p].hop + 1, limit |-> send[p].limit, link |-> "inherited"]
        BY <2>4, <4>1, <4>3 DEF Chained
      <4>4. CASE c \in {[hop |-> send[p].hop + 1, limit |-> l, link |-> "raised"] : l \in Hops}
        BY <2>4, <3>1, <4>1, <4>4 DEF Chained
      <4>5. CASE c \in {[hop |-> send[p].hop + 1, limit |-> CarriedLimit(p, l), link |-> "carried"] : l \in Hops}
        BY <2>4, <4>1, <4>2, <4>5 DEF Chained
      <4>6. CASE c \in {[hop |-> 1, limit |-> l, link |-> "filtered"] : l \in Hops}
        BY <2>4, <3>1, <4>6 DEF Chained
      <4>7. QED BY <3>3, <4>3, <4>4, <4>5, <4>6 DEF Contexts
    <3>4. QED BY <3>2, <3>3
  <2>9. /\ r.root = NoHome /\ r.wake \in BOOLEAN /\ r.wake /\ r.explicit \in Copies(r.thread) \cup {NoHome}
        /\ DOMAIN r.seen = Homes
    BY <1>4, <1>5, <2>7
  <2>10. \/ r.wake /\ r.stage = "first resolve" /\ r.told = "nothing" /\ r.hop <= r.limit
         \/ r.wake /\ r.stage = "over" /\ r.told = "refused"
    BY <2>2, <2>3, <2>4, <2>7 DEF WithinHops
  <2>11. /\ r.hop \in Nat /\ r.limit \in Nat /\ r.hop >= 1
         /\ r.link \in Chained =>
              /\ r.parent \in Sends /\ server[r.parent] = "resumed" /\ r.hop = send[r.parent].hop + 1
              /\ r.link # "raised" => r.limit <= send[r.parent].limit
         /\ r.link \notin Chained => r.hop = 1
    BY <2>7, <2>8
  <2>12. QED BY <1>1, <2>6, <2>7, <2>9, <2>10, <2>11, BeginsRight
<1>8. QED BY <1>2, <1>6, <1>7

(* What is in the file of a target after a moment.                         *)
LEMMA FiledFinite ==
  ASSUME NEW h, NEW x, stamps[h].at \in Seq(Nat)
  PROVE  IsFiniteSet(FiledAfter(h, x))
<1>1. Len(stamps[h].at) \in Nat BY LenProperties
<1>2. IsFiniteSet(1..Len(stamps[h].at)) BY <1>1, FS_Interval
<1>3. FiledAfter(h, x) \subseteq 1..Len(stamps[h].at) BY DEF FiledAfter
<1>4. QED BY <1>2, <1>3, FS_Subset

LEMMA Sooner == \A x, w, n, m \in Int : x >= m - w /\ n <= m => x >= n - w
  OBVIOUS
(* Time goes on: fewer moments lie in the window that ends now.  The clock *)
(* is set back: more of the file lies after what it now shows.             *)
LEMMA ClockKeeps == ASSUME WakeInv, TimePasses \/ ClockSetBack PROVE WakeInv'
<1>1. /\ UNCHANGED <<rate, writer, born, guard, stamps, send, server, queued, reserved>>
      /\ real' \in Nat /\ back' \in Nat /\ real <= real' /\ back <= back' /\ real \in Nat /\ back \in Nat
  BY WakeBounds DEF TimePasses, ClockSetBack, WakeInv, ClocksRight
<1>2. ClocksRight' BY WakeBounds DEF TimePasses, ClockSetBack, WakeInv, ClocksRight
<1>3. WritersAge /\ WritersApart' BY <1>1, SteadyAge
<1>4. \A q \in Sends : SendRight(q)'
  <2> TAKE q \in Sends
  <2>1. ContextsStay BY <1>1 DEF ContextsStay
  <2>2. /\ send'[q] = send[q] /\ server'[q] = server[q]
        /\ \A h \in Homes : guard[h] = q => guard'[h] = q
        /\ \A h \in Homes : reserved[h] \subseteq reserved'[h]
        /\ \A h \in Homes : q \in queued'[h] <=> q \in queued[h]
    BY <1>1
  <2>3. QED BY <1>3, <2>1, <2>2, SendStays
<1>5. WakeShapes'
  <2>1. WakeShapes BY DEF WakeInv
  <2>2. QED BY ONLY <1>1, <2>1 DEF WakeShapes, SendShapes
<1>6. \A h \in Homes : RateRight(h)'
  <2> TAKE h \in Homes
  <2>1. RateRight(h) BY DEF WakeInv
  <2>2. /\ \A x : MadeAfter(h, x)' = MadeAfter(h, x)
        /\ \A x : FiledAfter(h, x)' = FiledAfter(h, x)
        /\ \A t : InWindow(h, t)' = InWindow(h, t)
    BY <1>1 DEF MadeAfter, FiledAfter, InWindow
  <2>3. /\ stamps'[h].at \in Seq(Nat) /\ InOrder(stamps'[h].at)
        /\ IsFiniteSet(reserved'[h])
    BY <1>1, <2>1 DEF RateRight
  <2>4. \A r \in reserved'[h] : r.at \in 0..real' BY <1>1, <2>1 DEF RateRight
  <2>5. ASSUME NEW x \in Moments, x >= real' - Window
        PROVE  Cardinality(MadeAfter(h, x)') <= Cardinality(FiledAfter(h, x - back'))
    <3>1. x \in Int /\ Window \in Nat BY WakeBounds DEF Moments
    <3>2. x >= real - Window
      <4>1. x >= real' - Window /\ real <= real' /\ real \in Nat /\ real' \in Nat
        BY <1>1, <2>5
      <4>2. PICK n, m \in Nat : n = real /\ m = real' BY <4>1
      <4>6. x \in Int BY <3>1
      <4>7. n \in Int /\ m \in Int
        OBVIOUS
      <4>8. Window \in Int BY <3>1
      <4>9. n <= m BY <4>1, <4>2
      <4>10. x >= m - Window BY <4>1, <4>2
      <4>3. n \in Int /\ m \in Int /\ Window \in Int /\ x >= m - Window /\ n <= m
        BY <4>7, <4>8, <4>9, <4>10
      <4>4. x >= n - Window BY ONLY <3>1, <4>3, Sooner
      <4>5. QED BY <4>2, <4>4
    <3>3. Cardinality(MadeAfter(h, x)) <= Cardinality(FiledAfter(h, x - back))
      BY <2>1, <3>2 DEF RateRight
    <3>4. FiledAfter(h, x - back) \subseteq FiledAfter(h, x - back')
      <4>1. ASSUME NEW n \in 1..Len(stamps[h].at) PROVE stamps[h].at[n] \in Nat
        BY <2>1, ElementOfSeq DEF RateRight
      <4>2. QED BY <1>1, <3>1, <4>1 DEF FiledAfter
    <3>5. /\ IsFiniteSet(FiledAfter(h, x - back)) /\ IsFiniteSet(FiledAfter(h, x - back'))
          /\ Cardinality(FiledAfter(h, x - back)) <= Cardinality(FiledAfter(h, x - back'))
      BY <2>1, <3>4, FiledFinite, FS_Subset DEF RateRight
    <3>6. IsFiniteSet(MadeAfter(h, x))
      <4>1. MadeAfter(h, x) \subseteq reserved[h] BY DEF MadeAfter
      <4>2. QED BY <2>1, <4>1, FS_Subset DEF RateRight
    <3>7. Cardinality(MadeAfter(h, x)) \in Nat /\ Cardinality(FiledAfter(h, x - back)) \in Nat
          /\ Cardinality(FiledAfter(h, x - back')) \in Nat
      BY <3>5, <3>6, FS_CardinalityType
    <3>8. QED BY <2>2, <3>3, <3>5, <3>7
  <2>6. \A t \in 0..MaxReal : Cardinality(InWindow(h, t)') <= rate'
    BY <1>1, <2>1, <2>2 DEF RateRight
  <2>7. \A x : FiledAfter(h, x - back') = {n \in 1..Len(stamps'[h].at) : stamps'[h].at[n] > x - back'}
    BY <1>1 DEF FiledAfter
  <2>8. QED BY <2>3, <2>4, <2>5, <2>6, <2>7 DEF RateRight, Moments, FiledAfter
<1>7. QED BY <1>1, <1>2, <1>3, <1>4, <1>5, <1>6 DEF WakeInv

LEMMA LeastIndex ==
  ASSUME NEW T, T \subseteq Nat, T # {}
  PROVE  \E x \in T : \A y \in T : x <= y
<1> DEFINE R == {ss \in Nat \X Nat : ss[1] < ss[2]}
<1>1. R = OpToRel(<, Nat) BY DEF OpToRel
<1>2. IsWellFoundedOn(R, Nat) BY <1>1, NatLessThanWellFounded
<1>3. ASSUME NEW x \in Nat, NEW y \in Nat, y < x PROVE <<y, x>> \in R
  <2>1. PICK p : p = <<y, x>>
    OBVIOUS
  <2>2. p \in Nat \X Nat BY <2>1
  <2>3. p[1] = y /\ p[2] = x BY <2>1
  <2>4. p[1] < p[2] BY <1>3, <2>3
  <2>5. p \in R BY <2>2, <2>4
  <2>6. QED BY <2>1, <2>5
<1> HIDE DEF R
<1>4. PICK x \in T : \A y \in T : ~(<<y, x>> \in R) BY <1>2, WFMin
<1>5. \A y \in T : ~(y < x) BY <1>3, <1>4
<1>6. QED BY <1>5

(* Those of an ordered list that are after a moment are its rest.          *)
RestBegins(at, b, f) == \A n \in 1..Len(at) : n >= f <=> at[n] > b
LEMMA RestExists ==
  ASSUME NEW at \in Seq(Nat), InOrder(at), NEW b \in Int
  PROVE  \E f \in 1..Len(at) + 1 : RestBegins(at, b, f)
<1>1. PICK len \in Nat : len = Len(at) BY LenProperties
<1>2. \A n \in 1..len : at[n] \in Nat BY <1>1, ElementOfSeq
<1>3. PICK T : T = {n \in 1..len : at[n] > b} \cup {len + 1}
  OBVIOUS
<1>4. T \subseteq Nat /\ T # {} BY <1>3
<1>5. PICK f \in T : \A y \in T : f <= y BY <1>4, LeastIndex
<1>6. f \in 1..len + 1 BY <1>3
<1>7. ASSUME NEW n \in 1..len PROVE n >= f <=> at[n] > b
  <2>1. at[n] > b => n >= f BY <1>3, <1>5
  <2>2. ASSUME n >= f PROVE at[n] > b
    <3>1. f \in 1..len /\ at[f] > b BY <1>3, <1>6, <2>2
    <3>2. at[f] <= at[n] BY <1>1, <1>2, <2>2, <3>1 DEF InOrder
    <3>3. QED BY <1>2, <3>1, <3>2
  <2>3. QED BY <2>1, <2>2
<1>8. QED BY <1>1, <1>6, <1>7 DEF RestBegins

(* Of the rest, those after a later moment are as many as of the list.     *)
After(at, y) == {n \in 1..Len(at) : at[n] > y}
LEMMA RestOf ==
  ASSUME NEW at \in Seq(Nat), InOrder(at), NEW b \in Int, NEW f \in 1..Len(at) + 1, RestBegins(at, b, f),
         NEW rest, rest = SubSeq(at, f, Len(at))
  PROVE  /\ rest \in Seq(Nat) /\ InOrder(rest)
         /\ \A y \in Int : y >= b => Cardinality(After(rest, y)) = Cardinality(After(at, y))
<1>1. PICK len \in Nat : len = Len(at) BY LenProperties
<1>2. \A n \in 1..len : at[n] \in Nat BY <1>1, ElementOfSeq
<1>3. f \in 1..len + 1 BY <1>1
<1>4. \A i \in f..len : at[i] \in Nat BY <1>2, <1>3
<1>5. /\ rest \in Seq(Nat) /\ Len(rest) = (IF f <= len THEN len - f + 1 ELSE 0)
      /\ \A i \in 1..len - f + 1 : rest[i] = at[f + i - 1]
  BY <1>1, <1>3, <1>4, SubSeqProperties
<1>6. Len(rest) = len - f + 1 BY <1>3, <1>5
<1>7. InOrder(rest)
  <2>1. ASSUME NEW m \in 1..len - f + 1, NEW n \in 1..len - f + 1, m < n PROVE rest[m] <= rest[n]
    <3>1. f + m - 1 \in 1..len /\ f + n - 1 \in 1..len /\ f + m - 1 < f + n - 1
      BY <1>3, <2>1
    <3>2. at[f + m - 1] <= at[f + n - 1] BY <1>1, <3>1 DEF InOrder
    <3>3. QED BY <1>5, <3>2
  <2>2. QED BY <1>6, <2>1 DEF InOrder
<1>8. ASSUME NEW y \in Int, y >= b PROVE Cardinality(After(rest, y)) = Cardinality(After(at, y))
  <2>1. PICK S : S = After(rest, y)
    OBVIOUS
  <2>2. PICK T : T = After(at, y)
    OBVIOUS
  <2>3. \A n : n \in S <=> n \in 1..len - f + 1 /\ rest[n] > y BY <1>6, <2>1 DEF After
  <2>4. \A n : n \in T <=> n \in 1..len /\ at[n] > y BY <1>1, <2>2 DEF After
  <2>5. PICK g : g = [n \in S |-> f + n - 1]
    OBVIOUS
  <2>6. \A n \in S : g[n] \in T
    <3> TAKE n \in S
    <3>1. n \in 1..len - f + 1 /\ rest[n] > y /\ g[n] = f + n - 1 BY <2>3, <2>5
    <3>2. f + n - 1 \in 1..len /\ at[f + n - 1] > y BY <1>3, <1>5, <3>1
    <3>3. QED BY <2>4, <3>1, <3>2
  <2>7. g \in [S -> T] BY <2>5, <2>6
  <2>8. \A m, n \in S : g[m] = g[n] => m = n BY <1>3, <2>3, <2>5
  <2>9. \A t \in T : \E n \in S : g[n] = t
    <3> TAKE t \in T
    <3>1. t \in 1..len /\ at[t] > y BY <2>4
    <3>2. at[t] > b /\ t >= f BY <1>1, <1>2, <1>8, <3>1 DEF RestBegins
    <3>3. PICK n : n = t - f + 1
      OBVIOUS
    <3>4. n \in 1..len - f + 1 /\ f + n - 1 = t BY <1>3, <3>1, <3>2, <3>3
    <3>5. n \in S BY <1>5, <2>3, <3>1, <3>4
    <3>6. QED BY <2>5, <3>4, <3>5
  <2>10. g \in Bijection(S, T)
    BY <2>7, <2>8, <2>9 DEF Bijection, Injection, Surjection, IsInjective
  <2>11. IsFiniteSet(S)
    <3>1. IsFiniteSet(1..len - f + 1) BY <1>3, FS_Interval
    <3>2. S \subseteq 1..len - f + 1 BY <2>3
    <3>3. QED BY <3>1, <3>2, FS_Subset
  <2>12. Cardinality(T) = Cardinality(S)
    BY <2>10, <2>11, FS_Bijection DEF ExistsBijection
  <2>13. QED BY <2>1, <2>2, <2>12
<1>9. QED BY <1>5, <1>7, <1>8

(* A stamp no earlier than the last one is after every moment before it.   *)
LEMMA StampAdded ==
  ASSUME NEW rest \in Seq(Nat), InOrder(rest), NEW stamp \in Nat, \A n \in 1..Len(rest) : rest[n] <= stamp,
         NEW filed, filed = Append(rest, stamp)
  PROVE  /\ filed \in Seq(Nat) /\ InOrder(filed)
         /\ \A y \in Int : y < stamp => Cardinality(After(filed, y)) = Cardinality(After(rest, y)) + 1
<1>1. PICK len \in Nat : len = Len(rest) BY LenProperties
<1>2. \A n \in 1..len : rest[n] \in Nat BY <1>1, ElementOfSeq
<1>3. /\ filed \in Seq(Nat) /\ Len(filed) = len + 1
      /\ \A i \in 1..len : filed[i] = rest[i]
      /\ filed[len + 1] = stamp
  BY <1>1, AppendProperties
<1>4. InOrder(filed)
  <2>1. ASSUME NEW m \in 1..len + 1, NEW n \in 1..len + 1, m < n PROVE filed[m] <= filed[n]
    <3>1. m \in 1..len BY <2>1
    <3>2. CASE n = len + 1 BY <1>1, <1>3, <3>1, <3>2
    <3>3. CASE n \in 1..len
      <4>1. rest[m] <= rest[n] BY <1>1, <2>1, <3>1, <3>3 DEF InOrder
      <4>2. QED BY <1>3, <3>1, <3>3, <4>1
    <3>4. n = len + 1 \/ n \in 1..len BY <2>1
    <3>5. QED BY <3>2, <3>3, <3>4
  <2>2. QED BY <1>3, <2>1 DEF InOrder
<1>5. ASSUME NEW y \in Int, y < stamp PROVE Cardinality(After(filed, y)) = Cardinality(After(rest, y)) + 1
  <2>1. PICK S : S = After(rest, y)
    OBVIOUS
  <2>2. \A n : n \in S <=> n \in 1..len /\ rest[n] > y BY <1>1, <2>1 DEF After
  <2>3. \A n : n \in After(filed, y) <=> n \in 1..len + 1 /\ filed[n] > y
    BY <1>3 DEF After
  <2>4. After(filed, y) = S \cup {len + 1}
    <3>1. ASSUME NEW n PROVE n \in After(filed, y) <=> n \in S \cup {len + 1}
      <4>1. CASE n = len + 1 BY <1>3, <1>5, <2>3, <4>1
      <4>2. CASE n # len + 1
        <5>1. n \in 1..len + 1 <=> n \in 1..len BY <4>2
        <5>2. QED BY <1>3, <2>2, <2>3, <4>2, <5>1
      <4>3. QED BY <4>1, <4>2
    <3>2. QED BY <3>1
  <2>5. len + 1 \notin S BY <2>2
  <2>6. IsFiniteSet(S)
    <3>1. IsFiniteSet(1..len) BY FS_Interval
    <3>2. S \subseteq 1..len BY <2>2
    <3>3. QED BY <3>1, <3>2, FS_Subset
  <2>7. QED BY <2>1, <2>4, <2>5, <2>6, FS_AddElement
<1>6. QED BY <1>3, <1>4, <1>5

(* What the reservation adds to the file of its target.                    *)
LEMMA Filed ==
  ASSUME WakeInv, NEW h \in Homes, NEW rest, rest = Charged(h)
  PROVE  /\ rest \in Seq(Nat) /\ InOrder(rest) /\ Clock \in Nat
         /\ \A y \in Int : y >= Clock - Window => Cardinality(After(rest, y)) = Cardinality(FiledAfter(h, y))
         /\ NewStamp(h) \in Nat /\ NewStamp(h) >= Clock
         /\ \A n \in 1..Len(rest) : rest[n] <= NewStamp(h)
<1>1. /\ stamps[h].at \in Seq(Nat) /\ InOrder(stamps[h].at)
      /\ real \in Nat /\ back \in Nat /\ back <= real /\ Window \in Nat
  BY WakeBounds DEF WakeInv, RateRight, ClocksRight
<1>2. PICK at \in Seq(Nat) : at = stamps[h].at /\ InOrder(at) BY <1>1
<1>3. PICK c \in Nat : c = Clock BY <1>1 DEF Clock
<1>4. PICK b \in Int : b = c - Window BY <1>1
<1>5. \E f \in 1..Len(at) + 1 : RestBegins(at, b, f) BY <1>1, <1>2, RestExists
<1>6. PICK f : f = CHOOSE g \in 1..Len(at) + 1 : RestBegins(at, b, g)
  OBVIOUS
<1>7. f \in 1..Len(at) + 1 /\ RestBegins(at, b, f) BY <1>5, <1>6
<1>8. rest = SubSeq(at, f, Len(at)) BY <1>2, <1>3, <1>4, <1>6 DEF Charged, RestBegins
<1>9. /\ rest \in Seq(Nat) /\ InOrder(rest)
      /\ \A y \in Int : y >= b => Cardinality(After(rest, y)) = Cardinality(After(at, y))
  <2>1. at \in Seq(Nat) /\ InOrder(at) /\ b \in Int /\ f \in 1..Len(at) + 1 /\ RestBegins(at, b, f)
    BY <1>2, <1>7
  <2>2. QED BY ONLY <1>8, <2>1, RestOf
<1>10. PICK len \in Nat : len = Len(rest) BY <1>9, LenProperties
<1>11. \A n \in 1..len : rest[n] \in Nat BY <1>9, <1>10, ElementOfSeq
<1>12. rest # <<>> => len \in 1..len BY <1>9, <1>10, EmptySeq
<1>13. NewStamp(h) = IF rest # <<>> /\ rest[len] > c THEN rest[len] ELSE c
  BY <1>3, <1>10 DEF NewStamp
<1>14. PICK st : st = NewStamp(h)
  OBVIOUS
<1>15. st \in Nat /\ st >= c /\ (rest # <<>> => rest[len] <= st)
  <2>1. CASE rest # <<>> /\ rest[len] > c BY <1>3, <1>11, <1>12, <1>13, <1>14, <2>1
  <2>2. CASE ~(rest # <<>> /\ rest[len] > c) BY <1>3, <1>11, <1>12, <1>13, <1>14, <2>2
  <2>3. QED BY <2>1, <2>2
<1>16. ASSUME NEW n \in 1..len PROVE rest[n] <= st
  <2>1. rest # <<>> BY <1>9, <1>10, EmptySeq
  <2>2. len \in 1..len /\ rest[n] \in Nat /\ rest[len] \in Nat /\ rest[len] <= st
    BY <1>11, <1>12, <1>15, <2>1
  <2>3. n = len \/ rest[n] <= rest[len] BY <1>9, <1>10, <2>2 DEF InOrder
  <2>4. QED BY <1>15, <2>2, <2>3
<1>17. \A y : FiledAfter(h, y) = After(at, y) BY <1>2 DEF FiledAfter, After
<1>18. QED BY <1>3, <1>4, <1>9, <1>10, <1>14, <1>15, <1>16, <1>17

(* What is after a moment of a list is no more than the list.              *)
LEMMA AfterBounded ==
  ASSUME NEW at \in Seq(Nat), NEW y
  PROVE  IsFiniteSet(After(at, y)) /\ Cardinality(After(at, y)) \in Nat /\ Cardinality(After(at, y)) <= Len(at)
<1>1. PICK len \in Nat : len = Len(at) BY LenProperties
<1>2. IsFiniteSet(1..len) /\ Cardinality(1..len) = IF 1 > len THEN 0 ELSE len - 1 + 1
  BY FS_Interval
<1>3. Cardinality(1..len) = len BY <1>2
<1>4. After(at, y) \subseteq 1..len BY <1>1 DEF After
<1>5. IsFiniteSet(After(at, y)) /\ Cardinality(After(at, y)) <= Cardinality(1..len)
  BY <1>2, <1>4, FS_Subset
<1>6. Cardinality(After(at, y)) \in Nat BY <1>5, FS_CardinalityType
<1>7. QED BY <1>1, <1>3, <1>5, <1>6

LEMMA OneMore ==
  ASSUME NEW S, NEW e, IsFiniteSet(S)
  PROVE  IsFiniteSet(S \cup {e}) /\ Cardinality(S \cup {e}) <= Cardinality(S) + 1
<1>1. Cardinality(S) \in Nat BY FS_CardinalityType
<1>2. IsFiniteSet(S \cup {e}) /\ Cardinality(S \cup {e}) = IF e \in S THEN Cardinality(S) ELSE Cardinality(S) + 1
  BY FS_AddElement
<1>3. QED BY <1>1, <1>2

(* Fewer than the rate are in the file after the window began, and with    *)
(* them fewer than the rate were made since: one more may be made.         *)
LEMMA ReservationRated ==
  ASSUME WakeInv, NEW h \in Homes, NEW new, new.at = real, reserved'[h] = reserved[h] \cup {new},
         Len(Charged(h)) < rate, stamps'[h].at = Append(Charged(h), NewStamp(h)), UNCHANGED <<real, back, rate>>
  PROVE  RateRight(h)'
<1>1. /\ IsFiniteSet(reserved[h]) /\ (\A r \in reserved[h] : r.at \in 0..real)
      /\ real \in Nat /\ back \in Nat /\ back <= real /\ Window \in Nat /\ rate \in Nat /\ MaxReal \in Nat /\ real <= MaxReal
      /\ \A t \in 0..MaxReal : Cardinality(InWindow(h, t)) <= rate
  BY WakeBounds DEF WakeInv, RateRight, ClocksRight
<1>2. PICK rest : rest = Charged(h)
  OBVIOUS
<1>3. PICK st : st = NewStamp(h)
  OBVIOUS
<1>4. PICK c : c = Clock
  OBVIOUS
<1>5. /\ rest \in Seq(Nat) /\ InOrder(rest) /\ c \in Nat /\ c = real - back
      /\ \A y \in Int : y >= c - Window => Cardinality(After(rest, y)) = Cardinality(FiledAfter(h, y))
      /\ st \in Nat /\ st >= c
      /\ \A n \in 1..Len(rest) : rest[n] <= st
  BY <1>2, <1>3, <1>4, Filed DEF Clock
<1>6. PICK filed : filed = stamps'[h].at
  OBVIOUS
<1>7. /\ filed \in Seq(Nat) /\ InOrder(filed)
      /\ \A y \in Int : y < st => Cardinality(After(filed, y)) = Cardinality(After(rest, y)) + 1
  BY <1>2, <1>3, <1>5, <1>6, StampAdded
<1>8. \A y : FiledAfter(h, y)' = After(filed, y) BY <1>6 DEF FiledAfter, After
<1>9. IsFiniteSet(reserved'[h]) /\ \A r \in reserved'[h] : r.at \in 0..real'
  <2>1. PICK S : S = reserved[h]
    OBVIOUS
  <2>2. IsFiniteSet(S \cup {new}) BY <1>1, <2>1, OneMore
  <2>3. \A r \in S \cup {new} : r.at \in 0..real BY <1>1, <2>1
  <2>4. QED BY <2>1, <2>2, <2>3
<1>10. ASSUME NEW x PROVE IsFiniteSet(MadeAfter(h, x)) /\ Cardinality(MadeAfter(h, x)) \in Nat
  <2>1. MadeAfter(h, x) \subseteq reserved[h] BY DEF MadeAfter
  <2>2. QED BY <1>1, <2>1, FS_Subset, FS_CardinalityType
<1>11. ASSUME NEW x \in Moments, x >= real - Window, x < real
       PROVE  Cardinality(MadeAfter(h, x)) <= Cardinality(After(rest, x - back))
  <2>1. x \in Int BY <1>1 DEF Moments
  <2>2. x - back \in Int /\ x - back >= c - Window BY <1>1, <1>5, <1>11, <2>1
  <2>3. Cardinality(After(rest, x - back)) = Cardinality(FiledAfter(h, x - back))
    BY <1>5, <2>2
  <2>4. Cardinality(MadeAfter(h, x)) <= Cardinality(FiledAfter(h, x - back))
    BY <1>11 DEF WakeInv, RateRight
  <2>5. QED BY <2>3, <2>4
<1>12. ASSUME NEW x \in Moments, x >= real' - Window
       PROVE  Cardinality(MadeAfter(h, x)') <= Cardinality(FiledAfter(h, x - back)')
  <2>1. x \in Int /\ x - back \in Int BY <1>1 DEF Moments
  <2>2. /\ Cardinality(After(filed, x - back)) \in Nat
        /\ Cardinality(After(rest, x - back)) \in Nat
    BY <1>5, <1>7, AfterBounded
  <2>3. CASE x >= real
    <3>1. MadeAfter(h, x)' = {} BY <1>1, <2>1, <2>3 DEF MadeAfter
    <3>2. QED BY <1>8, <2>2, <3>1, FS_EmptySet
  <2>4. CASE x < real
    <3>1. MadeAfter(h, x)' \subseteq MadeAfter(h, x) \cup {new} BY DEF MadeAfter
    <3>2. /\ IsFiniteSet(MadeAfter(h, x) \cup {new})
          /\ Cardinality(MadeAfter(h, x) \cup {new}) <= Cardinality(MadeAfter(h, x)) + 1
      <4>1. PICK S : S = MadeAfter(h, x)
        OBVIOUS
      <4>2. IsFiniteSet(S) /\ Cardinality(S) \in Nat BY <1>10, <4>1
      <4>3. IsFiniteSet(S \cup {new}) /\ Cardinality(S \cup {new}) <= Cardinality(S) + 1
        BY <4>2, OneMore
      <4>4. QED BY <4>1, <4>2, <4>3
    <3>3. Cardinality(MadeAfter(h, x)') <= Cardinality(MadeAfter(h, x) \cup {new})
          /\ Cardinality(MadeAfter(h, x)') \in Nat
      BY <3>1, <3>2, FS_Subset, FS_CardinalityType
    <3>4. Cardinality(MadeAfter(h, x)) <= Cardinality(After(rest, x - back))
      BY <1>11, <1>12, <2>4
    <3>5. x - back < st BY <1>1, <1>5, <2>1, <2>4
    <3>6. Cardinality(After(filed, x - back)) = Cardinality(After(rest, x - back)) + 1
      BY <1>7, <2>1, <3>5
    <3>7. Cardinality(MadeAfter(h, x) \cup {new}) \in Nat /\ Cardinality(MadeAfter(h, x)) \in Nat
      BY <1>10, <3>2, FS_CardinalityType
    <3>8. FiledAfter(h, x - back)' = After(filed, x - back) BY <1>8
    <3>9. QED BY <2>2, <3>2, <3>3, <3>4, <3>6, <3>7, <3>8
  <2>5. QED BY <1>1, <2>1, <2>3, <2>4
<1>13. ASSUME NEW t \in 0..MaxReal PROVE Cardinality(InWindow(h, t)') <= rate'
  <2>1. t \in Nat /\ Cardinality(InWindow(h, t)) <= rate BY <1>1
  <2>2. CASE ~(t <= real /\ real < t + Window)
    <3>1. InWindow(h, t)' = InWindow(h, t) BY <2>2 DEF InWindow
    <3>2. QED BY <2>1, <3>1
  <2>3. CASE t <= real /\ real < t + Window
    <3>1. PICK x : x = t - 1
      OBVIOUS
    <3>2. x \in Moments /\ x >= real - Window /\ x < real /\ x \in Int
      BY <1>1, <2>1, <2>3, <3>1 DEF Moments
    <3>3. Cardinality(MadeAfter(h, x)) <= Cardinality(After(rest, x - back))
      BY <1>11, <3>2
    <3>4. Cardinality(After(rest, x - back)) \in Nat /\ Cardinality(After(rest, x - back)) <= Len(rest) /\ Len(rest) \in Nat
      BY <1>5, AfterBounded, LenProperties
    <3>5. InWindow(h, t)' \subseteq MadeAfter(h, x) \cup {new}
      <4>1. ASSUME NEW r \in reserved[h], t <= r.at PROVE r.at > x
        <5>1. r.at \in Nat BY <1>1
        <5>2. QED BY <2>1, <3>1, <4>1, <5>1
      <4>2. QED BY <4>1 DEF InWindow, MadeAfter
    <3>6. /\ IsFiniteSet(MadeAfter(h, x) \cup {new}) /\ Cardinality(MadeAfter(h, x)) \in Nat
          /\ Cardinality(MadeAfter(h, x) \cup {new}) <= Cardinality(MadeAfter(h, x)) + 1
      <4>1. PICK S : S = MadeAfter(h, x)
        OBVIOUS
      <4>2. IsFiniteSet(S) /\ Cardinality(S) \in Nat BY <1>10, <4>1
      <4>3. IsFiniteSet(S \cup {new}) /\ Cardinality(S \cup {new}) <= Cardinality(S) + 1
        BY <4>2, OneMore
      <4>4. QED BY <4>1, <4>2, <4>3
    <3>7. Cardinality(InWindow(h, t)') <= Cardinality(MadeAfter(h, x) \cup {new})
          /\ Cardinality(InWindow(h, t)') \in Nat /\ Cardinality(MadeAfter(h, x) \cup {new}) \in Nat
      BY <3>5, <3>6, FS_Subset, FS_CardinalityType
    <3>8. Len(rest) < rate /\ rate' = rate BY <1>2
    <3>9. QED BY <1>1, <3>3, <3>4, <3>6, <3>7, <3>8
  <2>4. QED BY <2>2, <2>3
<1>14. /\ stamps'[h].at \in Seq(Nat) /\ InOrder(stamps'[h].at) BY <1>6, <1>7
<1>15. \A x \in Moments : x >= real' - Window =>
         Cardinality(MadeAfter(h, x)') <= Cardinality(FiledAfter(h, x - back)')
  BY <1>12
<1>16. QED BY <1>9, <1>13, <1>14, <1>15 DEF RateRight, Moments

(* An invocation that reserves, or has reserved, goes on.                  *)
LEMMA ReservedGoesOn ==
  ASSUME WakeInv, NEW s \in Sends, NEW f, send' = [send EXCEPT ![s].stage = f],
         \/ send[s].stage = "reserve" /\ f = "cut"
         \/ send[s].stage = "cut" /\ f = "resolve",
         \A h \in Homes : reserved[h] \subseteq reserved'[h], DOMAIN reserved' = Homes,
         send[s].wake /\ ~send[s].active => \E a \in reserved'[send[s].root] : a.by = s,
         DOMAIN stamps' = Homes, \A h \in Homes : DOMAIN stamps'[h] = {"at", "torn"},
         \A h \in Homes : RateRight(h)',
         UNCHANGED <<real, back, rate, writer, born, guard, server, queued>>
  PROVE  WakeInv'
<1>1. DOMAIN send = Sends /\ DOMAIN send[s] = WakeFields /\ DOMAIN send[s].seen = Homes
  BY DEF WakeInv, WakeShapes, SendShapes
<1>2. PICK r : r = [send[s] EXCEPT !.stage = f]
  OBVIOUS
<1>3. send' = [send EXCEPT ![s] = r] /\ send'[s] = r BY <1>1, <1>2
<1>4. /\ DOMAIN r = WakeFields /\ r.seen = send[s].seen /\ r.stage = f /\ r.root = send[s].root /\ r.from = send[s].from
      /\ r.active = send[s].active /\ r.told = send[s].told
      /\ r.wake = send[s].wake /\ r.thread = send[s].thread /\ r.explicit = send[s].explicit
      /\ r.hop = send[s].hop /\ r.limit = send[s].limit /\ r.parent = send[s].parent /\ r.link = send[s].link
  BY <1>1, <1>2 DEF WakeFields
<1>5. SendPlaced(s) /\ LockIsMine(s) BY DEF WakeInv, SendRight
<1>6. /\ send[s].wake /\ send[s].root \in Copies(send[s].thread) /\ send[s].root \in Homes /\ send[s].from \in 0..born
      /\ guard[send[s].root] = s /\ send[s].stage \notin Late \cup {"idle"}
  BY <1>5 DEF SendPlaced, LockIsMine, WakeOnly, HomeChosen, UnderLock, Late, Copies
<1>7. /\ r.stage \in SendStages \ (Late \cup {"idle"}) /\ r.wake /\ r.root \in Copies(r.thread) /\ r.from \in 0..born
      /\ DOMAIN r.seen = Homes
  BY <1>1, <1>4, <1>6 DEF SendStages, WakeOnly, Late
<1>8. LockIsMine(s)' BY <1>3, <1>4, <1>6 DEF LockIsMine
<1>9. ActivationReserved(s)'
  <2>1. server[s] = "none" BY DEF WakeInv, SendRight, ServerPlaced
  <2>2. QED BY <1>3, <1>4, <1>6, <2>1 DEF ActivationReserved
<1>10. LooksHold(s)' BY <1>3, <1>4 DEF LooksHold
<1>11. born' = born /\ server' = server /\ queued' = queued /\ \A h \in Homes : guard'[h] = guard[h] \/ guard[h] \in {s, NoSend}
  OBVIOUS
<1>12. SendRight(s)' /\ OneSends(s) /\ SendShapes'
  BY <1>3, <1>4, <1>6, <1>7, <1>8, <1>9, <1>10, <1>11, MoveRight
<1>13. WritersAge /\ WritersApart' BY SteadyAge
<1>14. \A q \in Sends \ {s} : SendRight(q)' BY <1>12, <1>13, OthersInStep
<1>15. WakeShapes'
  <2>1. WakeShapes /\ UNCHANGED <<writer, guard, server, queued>> /\ DOMAIN reserved' = Homes /\ DOMAIN stamps' = Homes
        /\ \A h \in Homes : DOMAIN stamps'[h] = {"at", "torn"}
    BY DEF WakeInv
  <2>2. QED BY ONLY <1>12, <2>1 DEF WakeShapes
<1>16. ClocksRight' BY DEF WakeInv, ClocksRight
<1>17. QED BY <1>12, <1>13, <1>14, <1>15, <1>16 DEF WakeInv

LEMMA ReservesKeeps == ASSUME WakeInv, NEW s \in Sends, Reserves(s) PROVE WakeInv'
<1>1. send[s].stage = "reserve" /\ UNCHANGED <<real, back, rate, writer, born, server, queued>>
  BY DEF Reserves, At
<1>2. CASE send[s].active /\ GoesOn(s) /\ UNCHANGED <<stamps, reserved>>
  <2>1. UNCHANGED <<real, back, rate, writer, born, stamps, server, queued, reserved>>
    BY <1>1, <1>2
  <2>2. QED BY <1>1, <1>2, <2>1, GoesOnKeeps
<1>3. CASE Over(s, "refused") /\ UNCHANGED <<stamps, reserved>>
  <2>1. UNCHANGED <<real, back, rate, writer, born, stamps, server, queued, reserved>>
    BY <1>1, <1>3
  <2>2. send[s].stage \notin Late \cup {"idle"} BY <1>1 DEF Late
  <2>3. QED BY <1>3, <2>1, <2>2, Refuses
<1>4. CASE ~(send[s].active) /\ ~(stamps[send[s].root].torn \/ ~InOrder(stamps[send[s].root].at) \/ Len(Charged(send[s].root)) >= rate)
  <2>1. PICK h : h = send[s].root
    OBVIOUS
  <2>2. SendPlaced(s) BY DEF WakeInv, SendRight
  <2>3. h \in Homes BY <1>1, <2>1, <2>2 DEF SendPlaced, HomeChosen, Copies
  <2>4. PICK at, torn : at = Append(Charged(h), NewStamp(h)) /\ torn = (Len(at) < Len(stamps[h].at))
    OBVIOUS
  <2>5. /\ stamps' = [stamps EXCEPT ![h] = [at |-> at, torn |-> torn]]
        /\ reserved' = [reserved EXCEPT ![h] = @ \cup {[by |-> s, at |-> real]}]
        /\ send' = [send EXCEPT ![s].stage = "cut"] /\ UNCHANGED guard
    BY <1>4, <2>1, <2>4 DEF Reserves
  <2>6. PICK new : new = [by |-> s, at |-> real]
    OBVIOUS
  <2>7. new.by = s /\ new.at = real BY <2>6
  <2>8. DOMAIN stamps = Homes /\ DOMAIN reserved = Homes /\ \A k \in Homes : DOMAIN stamps[k] = {"at", "torn"}
    BY DEF WakeInv, WakeShapes
  <2>9. /\ reserved'[h] = reserved[h] \cup {new} /\ DOMAIN reserved' = Homes
        /\ \A k \in Homes \ {h} : reserved'[k] = reserved[k]
    BY <2>3, <2>5, <2>6, <2>8
  <2>10. /\ stamps'[h].at = at /\ DOMAIN stamps' = Homes /\ DOMAIN stamps'[h] = {"at", "torn"}
         /\ \A k \in Homes \ {h} : stamps'[k] = stamps[k]
    BY <2>3, <2>5, <2>8
  <2>11. Len(Charged(h)) < rate
    <3>1. Charged(h) \in Seq(Nat) BY <2>3, Filed
    <3>2. Len(Charged(h)) \in Nat /\ rate \in Nat
      BY <3>1, LenProperties, WakeBounds DEF WakeInv, ClocksRight
    <3>3. QED BY <1>4, <2>1, <3>2
  <2>12. UNCHANGED <<real, back, rate>> BY <1>1
  <2>13. RateRight(h)' BY <2>3, <2>4, <2>7, <2>9, <2>10, <2>11, <2>12, ReservationRated
  <2>14. \A k \in Homes \ {h} : RateRight(k)' BY <2>9, <2>10, <2>12, RateStays
  <2>15. /\ \A k \in Homes : RateRight(k)'
         /\ \A k \in Homes : reserved[k] \subseteq reserved'[k]
         /\ \A k \in Homes : DOMAIN stamps'[k] = {"at", "torn"}
    BY <2>8, <2>9, <2>10, <2>13, <2>14
  <2>16. \E a \in reserved'[send[s].root] : a.by = s BY <2>1, <2>7, <2>9
  <2>17. UNCHANGED <<real, back, rate, writer, born, guard, server, queued>>
    BY <1>1, <2>5
  <2>18. PICK f : f = "cut"
    OBVIOUS
  <2>19. send' = [send EXCEPT ![s].stage = f] /\ send[s].stage = "reserve"
    BY <1>1, <2>5, <2>18
  <2>20. QED BY <2>9, <2>10, <2>15, <2>16, <2>17, <2>18, <2>19, ReservedGoesOn
<1>5. QED BY <1>2, <1>3, <1>4 DEF Reserves

LEMMA CutsKeeps == ASSUME WakeInv, NEW s \in Sends, Cuts(s) PROVE WakeInv'
<1>1. /\ send[s].stage = "cut" /\ send' = [send EXCEPT ![s].stage = "resolve"]
      /\ stamps' = [stamps EXCEPT ![send[s].root].torn = FALSE]
      /\ UNCHANGED <<real, back, rate, writer, born, guard, server, queued, reserved>>
  BY DEF Cuts, At
<1>2. SendPlaced(s) /\ ServerPlaced(s) /\ MessagePlaced(s) /\ ActivationReserved(s)
  BY DEF WakeInv, SendRight
<1>3. DOMAIN stamps = Homes /\ DOMAIN reserved = Homes /\ \A k \in Homes : DOMAIN stamps[k] = {"at", "torn"}
  BY DEF WakeInv, WakeShapes
<1>4. DOMAIN stamps' = Homes /\ \A k \in Homes : DOMAIN stamps'[k] = {"at", "torn"} /\ stamps'[k].at = stamps[k].at
  BY <1>1, <1>3
<1>5. \A k \in Homes : RateRight(k)' BY <1>1, <1>4, RateStays
<1>6. PICK f : f = "resolve"
  OBVIOUS
<1>7. send' = [send EXCEPT ![s].stage = f] /\ send[s].stage = "cut" BY <1>1, <1>6
<1>8. /\ \A h \in Homes : reserved[h] \subseteq reserved'[h]
      /\ DOMAIN reserved' = Homes
      /\ UNCHANGED <<real, back, rate, writer, born, guard, server, queued>>
  BY <1>1, <1>3
<1>9. send[s].wake /\ ~send[s].active => \E a \in reserved'[send[s].root] : a.by = s
  BY <1>1, <1>2 DEF ActivationReserved
<1>10. QED BY <1>4, <1>5, <1>6, <1>7, <1>8, <1>9, ReservedGoesOn

LEMMA WakeStart == ASSUME CodexInit PROVE WakeInv
<1>1. /\ real = 0 /\ back = 0 /\ rate \in Rates /\ born = 0
      /\ writer = [h \in Homes |-> 0]
      /\ guard = [h \in Homes |-> NoSend]
      /\ stamps = [h \in Homes |-> [at |-> <<>>, torn |-> FALSE]]
      /\ send = [s \in Sends |-> Unstarted]
      /\ server = [s \in Sends |-> "none"]
      /\ queued = [h \in Homes |-> {}]
      /\ reserved = [h \in Homes |-> {}]
  BY DEF CodexInit
<1>2. DOMAIN Unstarted = WakeFields /\ DOMAIN Unstarted.seen = Homes
  BY SeenNothing DEF Unstarted, WakeFields
<1>3. /\ Unstarted.stage = "idle" /\ Unstarted.wake = FALSE /\ Unstarted.explicit = NoHome /\ Unstarted.root = NoHome
      /\ Unstarted.from = 0 /\ Unstarted.told = "nothing" /\ Unstarted.hop = 0 /\ Unstarted.limit = 0
      /\ Unstarted.link = "none"
  BY DEF Unstarted
<1>4. WakeShapes
  <2>1. DOMAIN [at |-> <<>>, torn |-> FALSE] = {"at", "torn"}
    OBVIOUS
  <2>2. QED BY <1>1, <1>2, <2>1 DEF WakeShapes, SendShapes
<1>5. ClocksRight BY <1>1, WakeBounds DEF ClocksRight
<1>6. WritersApart BY <1>1 DEF WritersApart
<1>7. ASSUME NEW s \in Sends PROVE SendRight(s)
  <2>1. send[s] = Unstarted /\ server[s] = "none" /\ born = 0 /\ \A h \in Homes : queued[h] = {}
    BY <1>1
  <2>2. SendPlaced(s)
    <3>1. /\ send[s].stage = "idle" /\ send[s].wake = FALSE /\ send[s].explicit = NoHome /\ send[s].root = NoHome
          /\ send[s].from = 0 /\ send[s].told = "nothing"
      BY <1>3, <2>1
    <3>2. "idle" \in SendStages /\ "idle" \notin WakeOnly /\ "idle" \notin HomeChosen
      BY DEF SendStages, WakeOnly, HomeChosen
    <3>3. 0 \in 0..born BY <2>1
    <3>4. QED BY <3>1, <3>2, <3>3 DEF SendPlaced
  <2>3. LockIsMine(s) /\ ServerPlaced(s) /\ ActivationReserved(s) /\ LooksHold(s)
    BY <1>3, <2>1 DEF LockIsMine, ServerPlaced, ActivationReserved, LooksHold
  <2>4. MessagePlaced(s) BY <1>3, <2>1 DEF MessagePlaced, Late, SubmittedTo
  <2>5. HopKept(s) BY <1>3, <2>1 DEF HopKept, Chained
  <2>6. QED BY <2>2, <2>3, <2>4, <2>5 DEF SendRight
<1>8. ASSUME NEW h \in Homes PROVE RateRight(h)
  <2>1. stamps[h].at = <<>> /\ reserved[h] = {} /\ rate \in Nat BY <1>1, WakeBounds
  <2>2. stamps[h].at \in Seq(Nat) /\ Len(stamps[h].at) = 0 BY <2>1
  <2>3. InOrder(stamps[h].at) BY <2>2 DEF InOrder
  <2>4. /\ \A x : MadeAfter(h, x) = {} /\ FiledAfter(h, x) = {}
        /\ \A t : InWindow(h, t) = {}
    BY <2>1, <2>2 DEF MadeAfter, FiledAfter, InWindow
  <2>5. IsFiniteSet({}) /\ Cardinality({}) = 0 /\ 0 <= 0 /\ 0 <= rate
    BY <2>1, FS_EmptySet
  <2>6. \A x : Cardinality(MadeAfter(h, x)) <= Cardinality(FiledAfter(h, x - back))
    BY <2>4, <2>5
  <2>7. \A t : Cardinality(InWindow(h, t)) <= rate BY <2>4, <2>5
  <2>8. QED BY <2>1, <2>2, <2>3, <2>5, <2>6, <2>7 DEF RateRight
<1>9. QED BY <1>4, <1>5, <1>6, <1>7, <1>8 DEF WakeInv

LEMMA WakeStutters == ASSUME WakeInv, UNCHANGED codexVars PROVE WakeInv'
<1>1. UNCHANGED <<real, back, rate, writer, born, guard, stamps, send, server, queued, reserved>>
  BY DEF codexVars
<1>2. WritersAge /\ WritersApart' BY <1>1, SteadyAge
<1>3. DOMAIN writer' = Homes /\ born' \in 0..MaxWriter /\ DOMAIN server' = Sends
  BY <1>1 DEF WakeInv, WakeShapes, ClocksRight
<1>4. QED BY <1>1, <1>2, <1>3, MachineKeeps

LEMMA WakeStep == ASSUME WakeInv, [CodexNext]_codexVars PROVE WakeInv'
<1>1. CASE UNCHANGED codexVars BY <1>1, WakeStutters
<1>2. ASSUME NEW s \in Sends, NEW t \in Threads, NEW p \in Sends \cup {NoSend}, Starts(s, t, p) PROVE WakeInv'
  BY <1>2, StartsKeeps
<1>3. ASSUME NEW s \in Sends, NEW h \in Homes, Inspects(s, h) PROVE WakeInv'
  BY <1>3, InspectsKeeps
<1>4. ASSUME NEW s \in Sends, Resolves(s) PROVE WakeInv' BY <1>4, ResolvesKeeps
<1>5. ASSUME NEW s \in Sends, Preflight(s) PROVE WakeInv' BY <1>5, PreflightKeeps
<1>6. ASSUME NEW s \in Sends, Revalidates(s) \/ EndsEarly(s) PROVE WakeInv'
  BY <1>6, RevalidatesKeeps
<1>7. ASSUME NEW s \in Sends, Guards(s) PROVE WakeInv' BY <1>7, GuardsKeeps
<1>8. ASSUME NEW s \in Sends, Reserves(s) PROVE WakeInv' BY <1>8, ReservesKeeps
<1>9. ASSUME NEW s \in Sends, Cuts(s) PROVE WakeInv' BY <1>9, CutsKeeps
<1>10. ASSUME NEW s \in Sends, Queues(s) PROVE WakeInv' BY <1>10, QueuesKeeps
<1>11. ASSUME NEW s \in Sends, Activates(s) \/ WaitEnds(s) PROVE WakeInv'
  BY <1>11, ActivatesKeeps
<1>12. ASSUME NEW s \in Sends, Resumes(s) \/ OrphanEnds(s) PROVE WakeInv'
  BY <1>12, ServersKeep
<1>13. ASSUME NEW s \in Sends, StopsServer(s) PROVE WakeInv' BY <1>13, StopsKeeps
<1>14. ASSUME NEW s \in Sends, KillsSend(s) PROVE WakeInv' BY <1>14, KillsKeeps
<1>15. ASSUME NEW h \in Homes, OpensThread(h) \/ ClosesThread(h) PROVE WakeInv'
  BY <1>15, ThreadsKeep
<1>16. CASE TimePasses \/ ClockSetBack BY <1>16, ClockKeeps
<1>17. CASE CodexNext
  BY <1>2, <1>3, <1>4, <1>5, <1>6, <1>7, <1>8, <1>9, <1>10, <1>11, <1>12, <1>13, <1>14, <1>15, <1>16, <1>17 DEF CodexNext
<1>18. QED BY <1>1, <1>17

(* What the inductive invariant says.                                      *)
LEMMA GuardsTyped ==
  ASSUME WakeInv, [CodexNext]_codexVars, \A h \in Homes : guard[h] \in Sends \cup {NoSend}
  PROVE  \A h \in Homes : guard'[h] \in Sends \cup {NoSend}
<1> TAKE h \in Homes
<1>1. DOMAIN guard = Homes BY DEF WakeInv, WakeShapes
<1>2. CASE UNCHANGED guard BY <1>2
<1>3. CASE \E s \in Sends : guard' = Dropped(s) BY <1>3 DEF Dropped
<1>4. CASE \E s \in Sends, k \in Homes : guard' = [guard EXCEPT ![k] = s] BY <1>1, <1>4
<1>5. ASSUME NEW s \in Sends, Guards(s)
      PROVE  UNCHANGED guard \/ guard' = Dropped(s) \/ guard' = [guard EXCEPT ![send[s].root] = s]
  BY <1>5 DEF Guards, Over
<1>6. ASSUME NEW s \in Sends, send[s].stage = "guard" PROVE send[s].root \in Homes
  BY <1>6 DEF WakeInv, SendRight, SendPlaced, HomeChosen, Copies
<1>7. \/ UNCHANGED guard
      \/ \E s \in Sends : guard' = Dropped(s)
      \/ \E s \in Sends : Guards(s)
  <2>1. ASSUME NEW s \in Sends,
               \/ \E t \in Threads, p \in Sends \cup {NoSend} : Starts(s, t, p)
               \/ \E k \in Homes : Inspects(s, k)
               \/ Cuts(s) \/ Resumes(s) \/ WaitEnds(s) \/ OrphanEnds(s)
        PROVE  UNCHANGED guard
    BY <2>1 DEF Starts, Inspects, Cuts, Resumes, WaitEnds, OrphanEnds
  <2>2. ASSUME NEW s \in Sends,
               \/ Resolves(s) \/ Preflight(s) \/ Revalidates(s) \/ EndsEarly(s) \/ Reserves(s) \/ Queues(s)
               \/ Activates(s) \/ StopsServer(s) \/ KillsSend(s)
        PROVE  UNCHANGED guard \/ guard' = Dropped(s)
    BY <2>2 DEF Resolves, Preflight, Revalidates, EndsEarly, Reserves, Queues, Activates, StopsServer, KillsSend,
                Over, GoesOn
  <2>3. ASSUME \/ \E k \in Homes : OpensThread(k) \/ ClosesThread(k)
               \/ TimePasses \/ ClockSetBack \/ UNCHANGED codexVars
        PROVE  UNCHANGED guard
    BY <2>3 DEF OpensThread, ClosesThread, TimePasses, ClockSetBack, codexVars
  <2>4. QED BY <2>1, <2>2, <2>3 DEF CodexNext
<1>8. ASSUME NEW s \in Sends, Guards(s) PROVE guard'[h] \in Sends \cup {NoSend}
  <2>1. send[s].stage = "guard" BY <1>8 DEF Guards, At
  <2>2. QED BY <1>2, <1>3, <1>4, <1>5, <1>6, <1>8, <2>1
<1>9. QED BY <1>2, <1>3, <1>7, <1>8

LEMMA WakesTyped ==
  ASSUME WakeInv, \A h \in Homes : guard[h] \in Sends \cup {NoSend}
  PROVE  CodexTypeOK
<1>1. /\ WakeStages[1] = "first resolve" /\ WakeStages[2] = "preflight" /\ WakeStages[3] = "guard"
      /\ WakeStages[4] = "first revalidate" /\ WakeStages[5] = "second preflight" /\ WakeStages[6] = "reserve"
      /\ WakeStages[7] = "resolve" /\ WakeStages[8] = "revalidate" /\ WakeStages[9] = "queue" /\ Len(WakeStages) = 9
  BY DEF WakeStages
<1>2. \A f \in SendStages : \/ f \in {"idle", "cut", "after", "wait", "stop", "over", "killed"}
                            \/ \E n \in 1..9 : f = WakeStages[n]
  <2>1. /\ 1 \in 1..9 /\ 2 \in 1..9 /\ 3 \in 1..9 /\ 4 \in 1..9 /\ 5 \in 1..9 /\ 6 \in 1..9 /\ 7 \in 1..9 /\ 8 \in 1..9
        /\ 9 \in 1..9
    OBVIOUS
  <2>2. \A f \in SendStages : \/ f \in {"idle", "cut", "after", "wait", "stop", "over", "killed"}
                              \/ f \in {"first resolve", "preflight", "guard", "first revalidate", "second preflight",
                                        "reserve", "resolve", "revalidate", "queue"}
    BY DEF SendStages, WakeOnly, HomeChosen, Late
  <2>3. QED BY <1>1, <2>1, <2>2
<1>3. ASSUME NEW s \in Sends
      PROVE  /\ send[s].stage \in {"idle", "cut", "after", "wait", "stop", "over", "killed"}
                  \cup {PlainStages[n] : n \in 1..Len(PlainStages)} \cup {WakeStages[n] : n \in 1..Len(WakeStages)}
             /\ send[s].root \in Homes \cup {NoHome} /\ send[s].explicit \in Homes \cup {NoHome}
             /\ send[s].told \in {"nothing", "refused", "queued", "unknown", "failed", "active", "completed"}
             /\ server[s] \in {"none", "started", "resumed", "gone"}
  <2>1. SendPlaced(s) /\ ServerPlaced(s) BY DEF WakeInv, SendRight
  <2>2. send[s].stage \in SendStages BY <2>1 DEF SendPlaced
  <2>3. \/ send[s].stage \in {"idle", "cut", "after", "wait", "stop", "over", "killed"}
        \/ send[s].stage \in {WakeStages[n] : n \in 1..Len(WakeStages)}
    BY <1>1, <1>2, <2>2
  <2>4. QED BY <2>1, <2>3 DEF SendPlaced, ServerPlaced, Copies
<1>4. ASSUME NEW h \in Homes
      PROVE  /\ writer[h] \in 0..born /\ guard[h] \in Sends \cup {NoSend}
             /\ \A k \in Homes : h # k /\ writer[h] # 0 => writer[h] # writer[k]
             /\ InOrder(stamps[h].at)
  BY DEF WakeInv, WritersApart, RateRight
<1>5. QED BY <1>3, <1>4 DEF CodexTypeOK, WakeInv, ClocksRight

LEMMA WakesSay == ASSUME WakeInv PROVE ToldTrue /\ ServersGuarded /\ ActivationsRated
<1>1. ToldTrue
  <2> SUFFICES ASSUME NEW s \in Sends
               PROVE  LET where == {h \in Homes : s \in queued[h]} IN
                      /\ where \subseteq {send[s].root}
                      /\ send[s].told \in {"queued", "active", "completed"} => where # {}
                      /\ send[s].told \in {"nothing", "refused"} /\ ~At(s, "killed") => where = {}
    BY DEF ToldTrue
  <2>1. MessagePlaced(s) BY DEF WakeInv, SendRight
  <2>2. QED BY <2>1 DEF MessagePlaced, SubmittedTo, At
<1>2. ServersGuarded
  <2> SUFFICES ASSUME NEW s \in Sends, server[s] \in {"started", "resumed"}, ~At(s, "killed")
               PROVE  guard[send[s].root] = s
    BY DEF ServersGuarded
  <2>1. ServerPlaced(s) /\ LockIsMine(s) BY DEF WakeInv, SendRight
  <2>2. QED BY <2>1 DEF ServerPlaced, LockIsMine, UnderLock, At
<1>3. ActivationsRated
  <2> SUFFICES ASSUME NEW h \in Homes
               PROVE  /\ \A s \in Sends : server[s] # "none" /\ send[s].root = h => \E r \in reserved[h] : r.by = s
                      /\ \A t \in 0..MaxReal : Cardinality({r \in reserved[h] : t <= r.at /\ r.at < t + Window}) <= rate
    BY DEF ActivationsRated
  <2>1. ASSUME NEW s \in Sends, server[s] # "none", send[s].root = h PROVE \E r \in reserved[h] : r.by = s
    <3>1. ActivationReserved(s) BY DEF WakeInv, SendRight
    <3>2. QED BY <2>1, <3>1 DEF ActivationReserved
  <2>2. ASSUME NEW t \in 0..MaxReal PROVE Cardinality({r \in reserved[h] : t <= r.at /\ r.at < t + Window}) <= rate
    <3>1. Cardinality(InWindow(h, t)) <= rate BY DEF WakeInv, RateRight
    <3>2. QED BY <3>1 DEF InWindow
  <2>3. QED BY <2>1, <2>2
<1>4. QED BY <1>1, <1>2, <1>3

(* A message goes into a home only where the looks at the other copies     *)
(* hold.                                                                   *)
LEMMA QueuedLooked ==
  ASSUME WakeInv, [CodexNext]_codexVars, NEW s \in Sends, NEW h \in Homes, s \in queued'[h] \ queued[h]
  PROVE  \A k \in Copies(send[s].thread) \ {h} : writer[k] = 0 \/ writer[k] > send[s].from
<1>1. DOMAIN queued = Homes BY DEF WakeInv, WakeShapes
<1>2. queued' = queued \/ \E q \in Sends : Queues(q)
  <2>1. ASSUME NEW q \in Sends,
               \/ \E t \in Threads, p \in Sends \cup {NoSend} : Starts(q, t, p)
               \/ \E k \in Homes : Inspects(q, k)
               \/ Resolves(q) \/ Preflight(q) \/ Revalidates(q) \/ EndsEarly(q) \/ Guards(q) \/ Reserves(q) \/ Cuts(q)
               \/ Activates(q) \/ Resumes(q) \/ WaitEnds(q) \/ StopsServer(q) \/ KillsSend(q) \/ OrphanEnds(q)
        PROVE  queued' = queued
    BY <2>1 DEF Starts, Inspects, Resolves, Preflight, Revalidates, EndsEarly, Guards, Reserves, Cuts, Activates,
                Resumes, WaitEnds, StopsServer, KillsSend, OrphanEnds
  <2>2. ASSUME \/ \E k \in Homes : OpensThread(k) \/ ClosesThread(k)
               \/ TimePasses \/ ClockSetBack \/ UNCHANGED codexVars
        PROVE  queued' = queued
    BY <2>2 DEF OpensThread, ClosesThread, TimePasses, ClockSetBack, codexVars
  <2>3. QED BY <2>1, <2>2 DEF CodexNext
<1>3. PICK q \in Sends : Queues(q) BY <1>2
<1>4. send[q].stage = "queue" /\ (queued' = queued \/ queued' = [queued EXCEPT ![send[q].root] = @ \cup {q}])
  BY <1>3 DEF Queues, At
<1>5. s = q /\ h = send[q].root BY <1>1, <1>4
<1>6. LooksHold(s) BY DEF WakeInv, SendRight
<1>7. QED BY <1>4, <1>5, <1>6 DEF LooksHold, NewerOnly

(* How deep a wake is in its chain is what its context says.               *)
DepthIs(d) == d = [s \in Sends |-> IF Linked(s) \/ send[s].link = "raised" THEN 1 + d[send[s].parent] ELSE 1]
HopOf(s) == IF send[s].link \in Chained THEN send[s].hop ELSE 1
LEMMA ParentHop ==
  ASSUME WakeInv, NEW s \in Sends, send[s].link \in Chained
  PROVE  /\ send[s].parent \in Sends /\ send[s].hop = HopOf(send[s].parent) + 1 /\ send[s].hop \in Nat
         /\ HopOf(send[s].parent) \in Nat
<1>1. HopKept(s) BY DEF WakeInv, SendRight
<1>2. PICK p \in Sends : p = send[s].parent /\ send[p].stage # "idle" /\ send[p].wake /\ send[s].hop = send[p].hop + 1
  BY <1>1 DEF HopKept
<1>3. HopKept(p) BY DEF WakeInv, SendRight
<1>4. HopOf(p) = send[p].hop /\ send[p].hop \in Nat BY <1>2, <1>3 DEF HopKept, HopOf
<1>5. QED BY <1>1, <1>2, <1>4 DEF HopKept

LEMMA LinkedChained == \A s \in Sends : Linked(s) \/ send[s].link = "raised" <=> send[s].link \in Chained
  BY DEF Linked, Chained

LEMMA DepthKnown == ASSUME WakeInv PROVE \A s \in Sends : Depth[s] = HopOf(s)
<1>1. PICK f : f = [s \in Sends |-> HopOf(s)]
  OBVIOUS
<1>2. DepthIs(f)
  <2>1. \A s \in Sends : f[s] = IF Linked(s) \/ send[s].link = "raised" THEN 1 + f[send[s].parent] ELSE 1
    <3> TAKE s \in Sends
    <3>1. CASE send[s].link \in Chained
      <4>1. send[s].parent \in Sends /\ send[s].hop = HopOf(send[s].parent) + 1 /\ HopOf(send[s].parent) \in Nat
        BY <3>1, ParentHop
      <4>2. f[s] = send[s].hop /\ f[send[s].parent] = HopOf(send[s].parent)
        BY <1>1, <3>1, <4>1 DEF HopOf
      <4>3. QED BY <3>1, <4>1, <4>2, LinkedChained
    <3>2. CASE send[s].link \notin Chained
      <4>1. f[s] = 1 BY <1>1, <3>2 DEF HopOf
      <4>2. QED BY <3>2, <4>1, LinkedChained
    <3>3. QED BY <3>1, <3>2
  <2>2. QED BY <1>1, <2>1 DEF DepthIs
<1>3. Depth = CHOOSE d : DepthIs(d) BY DEF Depth, DepthIs
<1>4. PICK d : d = Depth /\ DepthIs(d) BY <1>2, <1>3
<1>5. \A s \in Sends : d[s] = IF send[s].link \in Chained THEN 1 + d[send[s].parent] ELSE 1
  BY <1>4, LinkedChained DEF DepthIs
<1>6. PICK T : T = {n \in Nat : \E s \in Sends : send[s].link \in Chained /\ send[s].hop = n /\ d[s] # HopOf(s)}
  OBVIOUS
<1>7. T = {}
  <2> SUFFICES ASSUME T # {} PROVE FALSE
    OBVIOUS
  <2>1. PICK n \in T : \A m \in T : n <= m BY <1>6, LeastIndex
  <2>2. PICK s \in Sends : send[s].link \in Chained /\ send[s].hop = n /\ d[s] # HopOf(s)
    BY <1>6, <2>1
  <2>3. PICK p \in Sends : p = send[s].parent /\ n = HopOf(p) + 1 /\ HopOf(p) \in Nat /\ n \in Nat
    BY <2>2, ParentHop
  <2>4. CASE send[p].link \in Chained
    <3>1. send[p].hop = HopOf(p) /\ HopOf(p) \notin T BY <2>1, <2>3, <2>4 DEF HopOf
    <3>2. d[p] = HopOf(p) BY <1>6, <2>3, <2>4, <3>1
    <3>3. QED BY <1>5, <2>2, <2>3, <3>2 DEF HopOf
  <2>5. CASE send[p].link \notin Chained
    <3>1. d[p] = 1 /\ HopOf(p) = 1 BY <1>5, <2>5 DEF HopOf
    <3>2. QED BY <1>5, <2>2, <2>3, <3>1 DEF HopOf
  <2>6. QED BY <2>4, <2>5
<1>8. ASSUME NEW s \in Sends PROVE d[s] = HopOf(s)
  <2>1. CASE send[s].link \in Chained BY <1>6, <1>7, <2>1, ParentHop
  <2>2. CASE send[s].link \notin Chained BY <1>5, <2>2 DEF HopOf
  <2>3. QED BY <2>1, <2>2
<1>9. QED BY <1>4, <1>8

(* The limit a chain began with: that of the last one on the way back      *)
(* whose limit was given to it.                                            *)
BoundIs(b) == b = [s \in Sends |-> IF Linked(s) THEN b[send[s].parent] ELSE send[s].limit]
WithParents(A) == \A q \in A : Linked(q) => send[q].parent \in A
Beginnings(s) == {q \in Sends : ~Linked(q) /\ \A A \in SUBSET Sends : s \in A /\ WithParents(A) => q \in A}
LEMMA BoundExists == ASSUME WakeInv PROVE \E b : BoundIs(b)
<1>1. ASSUME NEW s \in Sends, ~Linked(s) PROVE Beginnings(s) = {s}
  <2>1. WithParents({s}) /\ {s} \in SUBSET Sends BY <1>1 DEF WithParents
  <2>2. QED BY <1>1, <2>1 DEF Beginnings
<1>2. ASSUME NEW s \in Sends, Linked(s) PROVE Beginnings(s) = Beginnings(send[s].parent) /\ send[s].parent \in Sends
  <2>1. PICK p \in Sends : p = send[s].parent BY <1>2, LinkedChained, ParentHop
  <2>2. ASSUME NEW q \in Beginnings(s) PROVE q \in Beginnings(p)
    <3>1. q \in Sends /\ ~Linked(q) /\ q # s BY <1>2, <2>2 DEF Beginnings
    <3>2. ASSUME NEW A \in SUBSET Sends, p \in A, WithParents(A) PROVE q \in A
      <4>1. A \cup {s} \in SUBSET Sends /\ WithParents(A \cup {s})
        BY <2>1, <3>2 DEF WithParents
      <4>2. q \in A \cup {s} BY <2>2, <4>1 DEF Beginnings
      <4>3. QED BY <3>1, <4>2
    <3>3. QED BY <3>1, <3>2 DEF Beginnings
  <2>3. ASSUME NEW q \in Beginnings(p) PROVE q \in Beginnings(s)
    <3>1. q \in Sends /\ ~Linked(q) BY <2>3 DEF Beginnings
    <3>2. ASSUME NEW A \in SUBSET Sends, s \in A, WithParents(A) PROVE q \in A
      <4>1. p \in A BY <1>2, <2>1, <3>2 DEF WithParents
      <4>2. QED BY <2>3, <3>2, <4>1 DEF Beginnings
    <3>3. QED BY <3>1, <3>2 DEF Beginnings
  <2>4. QED BY <2>1, <2>2, <2>3
<1>3. PICK b : b = [s \in Sends |-> send[CHOOSE q : q \in Beginnings(s)].limit]
  OBVIOUS
<1>4. \A s \in Sends : b[s] = IF Linked(s) THEN b[send[s].parent] ELSE send[s].limit
  <2> TAKE s \in Sends
  <2>1. CASE Linked(s) BY <1>2, <1>3, <2>1
  <2>2. CASE ~Linked(s)
    <3>1. (CHOOSE q : q \in Beginnings(s)) = s BY <1>1, <2>2
    <3>2. QED BY <1>3, <2>2, <3>1
  <2>3. QED BY <2>1, <2>2
<1>5. BoundIs(b) BY <1>3, <1>4 DEF BoundIs
<1>6. QED BY <1>5

LEMMA LimitsFall == ASSUME WakeInv PROVE \A s \in Sends : Bound[s] \in Nat /\ send[s].limit <= Bound[s]
<1>1. Bound = CHOOSE b : BoundIs(b) BY DEF Bound, BoundIs
<1>2. PICK b : b = Bound /\ BoundIs(b) BY <1>1, BoundExists
<1>3. \A s \in Sends : b[s] = IF Linked(s) THEN b[send[s].parent] ELSE send[s].limit
  BY <1>2 DEF BoundIs
<1>4. \A s \in Sends : send[s].hop \in Nat /\ send[s].limit \in Nat
  BY DEF WakeInv, SendRight, HopKept
<1> DEFINE Fine(s) == b[s] \in Nat /\ send[s].limit <= b[s]
<1>5. \A s \in Sends : ~Linked(s) => Fine(s) BY <1>3, <1>4
<1>6. PICK T : T = {n \in Nat : \E s \in Sends : Linked(s) /\ send[s].hop = n /\ ~Fine(s)}
  OBVIOUS
<1> HIDE DEF Fine
<1>7. T = {}
  <2> SUFFICES ASSUME T # {} PROVE FALSE
    OBVIOUS
  <2>1. PICK n \in T : \A m \in T : n <= m BY <1>6, LeastIndex
  <2>2. PICK s \in Sends : Linked(s) /\ send[s].hop = n /\ ~Fine(s) BY <1>6, <2>1
  <2>3. PICK p \in Sends : p = send[s].parent /\ n = HopOf(p) + 1 /\ HopOf(p) \in Nat /\ n \in Nat
    BY <2>2, LinkedChained, ParentHop
  <2>4. send[s].limit <= send[p].limit
    BY <2>2, <2>3 DEF WakeInv, SendRight, HopKept, Linked
  <2>5. Fine(p)
    <3>1. CASE Linked(p)
      <4>1. send[p].hop = HopOf(p) /\ HopOf(p) \notin T
        BY <2>1, <2>3, <3>1, LinkedChained DEF HopOf
      <4>2. QED BY <1>6, <2>3, <3>1, <4>1
    <3>2. CASE ~Linked(p) BY <1>5, <3>2
    <3>3. QED BY <3>1, <3>2
  <2>6. b[s] = b[p] BY <1>3, <2>2, <2>3
  <2>7. Fine(s) BY <1>4, <2>4, <2>5, <2>6 DEF Fine
  <2>8. QED BY <2>2, <2>7
<1>8. ASSUME NEW s \in Sends PROVE Fine(s) BY <1>4, <1>5, <1>6, <1>7
<1>9. QED BY <1>2, <1>8 DEF Fine

LEMMA ChainsEnd == ASSUME WakeInv PROVE HopsBounded
<1> SUFFICES ASSUME NEW s \in Sends, server[s] # "none" PROVE Depth[s] <= Bound[s]
  BY DEF HopsBounded
<1>1. HopKept(s) /\ ServerPlaced(s) BY DEF WakeInv, SendRight
<1>2. Depth[s] = HopOf(s) /\ HopOf(s) = send[s].hop
  BY <1>1, DepthKnown DEF HopOf, HopKept, ServerPlaced
<1>3. /\ send[s].hop \in Nat /\ send[s].limit \in Nat /\ send[s].hop <= send[s].limit
      /\ Bound[s] \in Nat /\ send[s].limit <= Bound[s]
  BY <1>1, LimitsFall DEF HopKept
<1>4. QED BY <1>2, <1>3

(* What sends and wakes guarantee, for every number of homes, invocations  *)
(* and writers, every rate, and every chain.                               *)
THEOREM WakesKept == CodexSpec => WakeSafe
<1> DEFINE Guarded == \A h \in Homes : guard[h] \in Sends \cup {NoSend}
<1>1. CodexInit => WakeInv /\ Guarded BY WakeStart DEF CodexInit
<1>2. WakeInv /\ Guarded /\ [CodexNext]_codexVars => (WakeInv /\ Guarded)'
  BY WakeStep, GuardsTyped
<1>3. WakeInv /\ Guarded => CodexTypeOK /\ ToldTrue /\ ServersGuarded /\ ActivationsRated /\ HopsBounded
  BY WakesTyped, WakesSay, ChainsEnd
<1>4. WakeInv /\ [CodexNext]_codexVars =>
        [\A s \in Sends : \A h \in Homes : s \in queued'[h] \ queued[h] =>
           \A k \in Copies(send[s].thread) \ {h} : writer[k] = 0 \/ writer[k] > send[s].from]_codexVars
  BY QueuedLooked
<1>5. QED BY <1>1, <1>2, <1>3, <1>4, PTL DEF CodexSpec, WakeSafe, NotBesideWriter
=============================================================================
