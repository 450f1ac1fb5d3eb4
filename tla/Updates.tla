------------------------------- MODULE Updates -------------------------------
(* Installing a release on a host (ssh.py push_to_remote, updates.py,       *)
(* install.sh).  A client pushes its own version over SSH; a publisher on   *)
(* the host takes the installation lock, looks at the installed program,    *)
(* keeps it by a hard link, makes the launcher, renames the new file into   *)
(* place, runs it, and undoes all this if it does not answer as it should.  *)
(* It may be killed between any two steps.  The SSH call ends with what has *)
(* arrived of the publisher's one line, perhaps long before the publisher   *)
(* does.                                                                    *)
(*                                                                          *)
(* A host's own update, install.sh and its uninstallation take no lock: the *)
(* outsider.  A file is known by its version and by who put it there.       *)
(* The transfer with its digest is one step, and a release is what it says. *)
EXTENDS Integers, FiniteSets

CONSTANTS
  Clients,          \* clients that push to the host, one command each
  ReleaseOf,        \* client -> the version it runs and pushes
  OutsideReleases,  \* versions the outsider installs
  MaxOutside,       \* bound: steps of the outsider
  UpdateFaults      \* subset of {"killed", "broken", "disk", "cut"}

ReleasesAssumption ==
  /\ Clients \cap {-1, 0} = {}     \* a program's owner: a client, the outsider or nobody
  /\ ReleaseOf \in [Clients -> Nat \ {0}]
  /\ OutsideReleases \subseteq Nat \ {0}
ASSUME ReleasesAssumption

VARIABLES
  program,      \* the installed file: who put it there, and its version; 0 when absent
  launcher,     \* who made the launcher, or "none"
  installLock,  \* holders of the flock
  publisher,    \* client -> its publisher on the host
  told,         \* client -> what its command says
  outside       \* steps the outsider has taken

updateVars == <<program, launcher, installLock, publisher, told, outside>>

NoProgram == [by |-> 0, version |-> 0]
Outsider == -1
Copy(c) == [by |-> c, version |-> ReleaseOf[c]]

(* A publisher: its step, the version it saw, the file it keeps for a      *)
(* rollback and the launcher it found or made; for the properties also     *)
(* what it replaced and when the outsider came.                            *)
NotStarted == [step |-> "none", seen |-> 0, kept |-> NoProgram, made |-> FALSE, printed |-> "nothing",
               put |-> FALSE, replaced |-> NoProgram, found |-> "none", disturbed |-> {}]

UpdatesInit ==
  /\ program \in {NoProgram, [by |-> Outsider, version |-> 1], [by |-> Outsider, version |-> 2]}
  /\ launcher \in IF program = NoProgram THEN {"none", "foreign"} ELSE {"outside"}
  /\ installLock = {}
  /\ publisher = [c \in Clients |-> NotStarted]
  /\ told = [c \in Clients |-> "unasked"]
  /\ outside = 0

On(c, s) == publisher[c].step = s
Advance(c, p) == publisher' = [publisher EXCEPT ![c] = p]

----------------------------------------------------------------------------
(* The client's command.                                                   *)

(* remote_installed_version: nothing is pushed over the same or a later    *)
(* version.                                                                *)
Outdated(c) == program.version < ReleaseOf[c]
AskVersion(c) ==
  /\ told[c] = "unasked"
  /\ told' = [told EXCEPT ![c] = IF Outdated(c) THEN "pushing" ELSE "current"]
  /\ UNCHANGED <<program, launcher, installLock, publisher, outside>>

(* The transfer, its digest and the staged program's own answer.           *)
Transfer(c) ==
  /\ told[c] = "pushing" /\ On(c, "none")
  /\ Advance(c, [publisher[c] EXCEPT !.step = "staged"])
  /\ UNCHANGED <<program, launcher, installLock, told, outside>>

(* One complete line is evidence, whatever else went wrong with the call;  *)
(* without one the outcome is unknown, and is not to be repeated.          *)
Evidence(c) == {"unknown"} \cup
  CASE publisher[c].printed = "receipt" -> {"committed"}
    [] publisher[c].printed = "rejection" -> {"not_started"}
    [] OTHER -> {}
CallEnds(c) ==
  /\ told[c] = "pushing"
  /\ \/ On(c, "none") /\ told' = [told EXCEPT ![c] = "not_started"]     \* no SSH at all
     \/ ~On(c, "none") /\ \E t \in Evidence(c) : told' = [told EXCEPT ![c] = t]
  /\ UNCHANGED <<program, launcher, installLock, publisher, outside>>

(* A committed push is verified once more from outside.                    *)
VerifyInstalled(c) ==
  /\ told[c] = "committed"
  /\ told' = [told EXCEPT ![c] = IF program.version = ReleaseOf[c] THEN "updated" ELSE "mismatch"]
  /\ UNCHANGED <<program, launcher, installLock, publisher, outside>>

----------------------------------------------------------------------------
(* The publisher.                                                          *)

Leave(c) == installLock' = installLock \ {c}
Ends(c, printed) ==
  /\ Advance(c, [NotStarted EXCEPT !.step = "ended", !.printed = printed, !.put = publisher[c].put])
  /\ Leave(c)

(* flock on an inode that is never removed, for thirty seconds.            *)
LockFree == installLock = {}
TakeInstallLock(c) ==
  /\ On(c, "staged")
  /\ \/ /\ LockFree
        /\ installLock' = installLock \cup {c}
        /\ Advance(c, [publisher[c] EXCEPT !.step = "locked"])
     \/ ~LockFree /\ Ends(c, "nothing")
  /\ UNCHANGED <<program, launcher, told, outside>>

(* What is installed is run for its version, also if it cannot say one.    *)
Observe(c) ==
  /\ On(c, "locked")
  /\ \/ /\ Outdated(c)
        /\ Advance(c, [publisher[c] EXCEPT !.step = "observed", !.seen = program.version])
        /\ UNCHANGED installLock
     \/ ~Outdated(c) /\ Ends(c, "rejection")
     \/ "broken" \in UpdateFaults /\ program # NoProgram /\ Ends(c, "rejection")
  /\ UNCHANGED <<program, launcher, told, outside>>

(* os.link: the file that is there now, if there was one when we looked.   *)
KeepPrevious(c) ==
  /\ On(c, "observed")
  /\ \/ publisher[c].seen > 0 /\ program = NoProgram /\ Ends(c, "nothing")
     \/ /\ publisher[c].seen > 0 => program # NoProgram
        /\ Advance(c, [publisher[c] EXCEPT !.step = "kept", !.kept = IF publisher[c].seen > 0 THEN program ELSE NoProgram])
        /\ UNCHANGED installLock
  /\ UNCHANGED <<program, launcher, told, outside>>

(* A launcher that is there must lead to the program.                      *)
MakeLauncher(c) ==
  /\ On(c, "kept")
  /\ \/ launcher = "foreign" /\ Ends(c, "nothing") /\ UNCHANGED launcher
     \/ /\ launcher # "foreign"
        /\ Advance(c, [publisher[c] EXCEPT !.step = "ready", !.made = launcher = "none", !.found = launcher])
        /\ launcher' = IF launcher = "none" THEN "push" ELSE launcher
        /\ UNCHANGED installLock
  /\ UNCHANGED <<program, told, outside>>

PutInPlace(c) ==
  /\ On(c, "ready")
  /\ program' = Copy(c)
  /\ Advance(c, [publisher[c] EXCEPT !.step = "published", !.put = TRUE, !.replaced = program])
  /\ UNCHANGED <<launcher, installLock, told, outside>>

(* A rename that fails, or an interrupt before it, undoes the launcher.    *)
PutFails(c) ==
  /\ "disk" \in UpdateFaults /\ On(c, "ready")
  /\ Advance(c, [publisher[c] EXCEPT !.step = "restored", !.replaced = program])
  /\ UNCHANGED <<program, launcher, installLock, told, outside>>

RunPublished(c) ==
  /\ On(c, "published")
  /\ \/ /\ program.version = ReleaseOf[c]
        /\ Advance(c, [publisher[c] EXCEPT !.step = "verified"])
     \/ /\ program.version # ReleaseOf[c] \/ "broken" \in UpdateFaults
        /\ Advance(c, [publisher[c] EXCEPT !.step = "failed"])
  /\ UNCHANGED <<program, launcher, installLock, told, outside>>
PrintReceipt(c) ==
  /\ On(c, "verified")
  /\ Ends(c, "receipt")
  /\ UNCHANGED <<program, launcher, told, outside>>

(* The rollback: only over its own file, looked at just before.            *)
OwnsPublicationMutant(c) == TRUE
OwnsPublication(c) == program.by = c
LookAtOwn(c) ==
  /\ On(c, "failed")
  /\ \/ OwnsPublication(c) /\ Advance(c, [publisher[c] EXCEPT !.step = "owned"]) /\ UNCHANGED installLock
     \/ ~OwnsPublication(c) /\ Ends(c, "nothing")
  /\ UNCHANGED <<program, launcher, told, outside>>
Restore(c) ==
  /\ On(c, "owned")
  /\ program' = publisher[c].kept
  /\ Advance(c, [publisher[c] EXCEPT !.step = "restored"])
  /\ UNCHANGED <<launcher, installLock, told, outside>>
RestoreFails(c) ==
  /\ "disk" \in UpdateFaults /\ On(c, "owned")
  /\ Ends(c, "nothing")
  /\ UNCHANGED <<program, launcher, told, outside>>
RemoveLauncher(c) ==
  /\ On(c, "restored")
  /\ launcher' = IF publisher[c].made /\ launcher = "push" THEN "none" ELSE launcher
  /\ Advance(c, [publisher[c] EXCEPT !.step = "undone"])
  /\ UNCHANGED <<program, installLock, told, outside>>
Undone(c) ==
  /\ On(c, "undone")
  /\ Ends(c, "nothing")
  /\ UNCHANGED <<program, launcher, told, outside>>

PublisherKilled(c) ==
  /\ "killed" \in UpdateFaults
  /\ publisher[c].step \notin {"none", "ended"}
  /\ Ends(c, "nothing")
  /\ UNCHANGED <<program, launcher, told, outside>>

----------------------------------------------------------------------------
(* The outsider: `session-peer update` on the host and install.sh.         *)

Disturbed == [c \in Clients |->
  IF c \in installLock THEN [publisher[c] EXCEPT !.disturbed = @ \cup {publisher[c].step}] ELSE publisher[c]]
OutsideStep == outside < MaxOutside /\ outside' = outside + 1 /\ publisher' = Disturbed /\ UNCHANGED <<installLock, told>>
InstallOutside ==
  /\ OutsideStep
  /\ \E v \in OutsideReleases : program' = [by |-> Outsider, version |-> v]
  /\ launcher' \in {launcher, "outside"}        \* install.sh makes it anew, an update leaves it
UninstallOutside ==
  /\ OutsideStep
  /\ program # NoProgram
  /\ program' = NoProgram /\ launcher' = "none"

----------------------------------------------------------------------------
Publisher(c) ==
  \/ TakeInstallLock(c) \/ Observe(c) \/ KeepPrevious(c) \/ MakeLauncher(c)
  \/ PutInPlace(c) \/ PutFails(c) \/ RunPublished(c) \/ PrintReceipt(c)
  \/ LookAtOwn(c) \/ Restore(c) \/ RestoreFails(c) \/ RemoveLauncher(c) \/ Undone(c) \/ PublisherKilled(c)
UpdatesNext ==
  \/ \E c \in Clients : AskVersion(c) \/ Transfer(c) \/ CallEnds(c) \/ VerifyInstalled(c) \/ Publisher(c)
  \/ InstallOutside \/ UninstallOutside

----------------------------------------------------------------------------
(* Properties.                                                             *)

(* What the command says of a push is and stays true: what is committed    *)
(* was published and nobody is about to undo it; what was not started was  *)
(* never in place and never will be.                                       *)
PushToldTrue ==
  \A c \in Clients :
    /\ told[c] \in {"committed", "updated", "mismatch"} => publisher[c].put /\ publisher[c].step = "ended"
    /\ told[c] = "not_started" => ~publisher[c].put

(* No push puts an older program over a newer one, unless the outsider     *)
(* came while the publisher held the lock and had already looked.          *)
NoDowngrade ==
  \A c \in Clients :
    publisher[c].step \in {"published", "verified"} /\ publisher[c].disturbed = {} =>
      publisher[c].replaced.version < ReleaseOf[c] /\ publisher[c].replaced.version = publisher[c].seen

(* A push that is undone leaves what was there, launcher included, and a   *)
(* rollback does not touch a file that the outsider put over the failed    *)
(* one before the rollback looked.                                         *)
UndoneCleanly ==
  \A c \in Clients : LET p == publisher[c] IN
    On(c, "undone") =>
      /\ p.disturbed = {} => program = p.replaced /\ launcher = p.found
      /\ p.disturbed \cap {"published", "failed"} = {}

(* What installing on a host guarantees in every state.                    *)
UpdatesSafe ==
  /\ PushToldTrue
  /\ NoDowngrade
  /\ UndoneCleanly
=============================================================================
