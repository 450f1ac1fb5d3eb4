---------------------------- MODULE CodexStorage ----------------------------
(***************************************************************************)
(* Which database a message to a Codex thread ends up in (the storage      *)
(* checks of session_peer_core/codex.py).  Codex lets several layers of    *)
(* configuration move its database; a message may be queued only when the  *)
(* native process, and the consumer of the thread, use the one of the      *)
(* selected home.  The command looks at every layer the native loader      *)
(* would read, several times, and hands over to the native process, which  *)
(* reads them itself.  Other programs edit the layers meanwhile.           *)
(*                                                                         *)
(* On macOS there are two more layers, the forced and the ordinary         *)
(* preferences; only the reviewed version of Codex ignores the ordinary    *)
(* ones.  Elsewhere both are plain and the version is not asked for.  The  *)
(* translated Windows home, whose layers are not inspected, is left out.   *)
(***************************************************************************)
EXTENDS Integers, Sequences, SequencesExt

CONSTANTS
  Walks,            \* for the directory of the queue and of the thread, and for the
                    \* name the thread's directory was saved under: it and its parents
  HomeDirs,         \* directories whose .codex is the selected home itself
  MaxLayerEdits,    \* bound: edits of layers, markers and the executable
  MaxFileWrites     \* bound: writes of one configuration file

Dirs == UNION {ToSet(Walks[w]) : w \in DOMAIN Walks}

ASSUME StorageAssumption ==
  /\ DOMAIN Walks = {"queue", "thread", "lexical"} /\ \A w \in DOMAIN Walks : Walks[w] \in Seq(Dirs) \ {<<>>}
  /\ MaxLayerEdits \in Nat /\ MaxFileWrites \in Nat

VARIABLES
  layer,      \* what each layer says
  mark,       \* what each directory has under .git
  version,    \* the executable: the reviewed loader or another
  job,        \* the command
  late,       \* ghost: what was edited after the last checks had begun
  handed,     \* ghost: the databases its native processes used, with `late` of then
  layerEdits,
  conf, reader    \* one configuration file and a read of it

storageVars == <<layer, mark, version, job, late, handed, layerEdits, conf, reader>>
fileVars == <<conf, reader>>

Fixed == {"home", "system", "forced", "ordinary"}
Layers == Fixed \cup (Dirs \ HomeDirs)
(* What the lexical classification tells apart: a file, or preference,     *)
(* without anything of interest, one that names sqlite_home, one that      *)
(* names project_root_markers, one that cannot be classified.              *)
Contents == {"plain", "storage", "markers", "odd"}
(* A repository, a directory without HEAD, another kind of file, a link.   *)
Marks == {"none", "repo", "empty", "file", "link"}

-----------------------------------------------------------------------------
(* The checks.                                                             *)

(* codex_system_config_paths, codex_managed_preference_values.             *)
KnownLayers(ordinary) == {"home", "system", "forced"} \cup (IF ordinary THEN {"ordinary"} ELSE {})
(* codex_project_config_paths: up to the closest root; without one only    *)
(* the directory itself; with other markers anywhere all of them.          *)
UpTo(walk, n) == {walk[k] : k \in 1 .. n}
RootsOf(walk, M) == {n \in 1 .. Len(walk) : mark[walk[n]] \in M}
Nearest(walk, M) == CHOOSE n \in RootsOf(walk, M) : \A m \in RootsOf(walk, M) : n <= m
CustomMarkers(known) == \E l \in known : layer[l] = "markers"
ProjectDirs(w, ordinary) ==
  LET walk == Walks[w] IN
  IF CustomMarkers(KnownLayers(ordinary)) THEN ToSet(walk)
  ELSE IF RootsOf(walk, {"repo", "file"}) = {} THEN {walk[1]}
  ELSE UpTo(walk, Nearest(walk, {"repo", "file"}))
(* A link where a root is looked for cannot be followed safely.            *)
LinkMet(w, ordinary) ==
  LET walk == Walks[w] IN
  /\ ~CustomMarkers(KnownLayers(ordinary)) /\ RootsOf(walk, {"link"}) # {}
  /\ \A n \in RootsOf(walk, {"repo", "file"}) : Nearest(walk, {"link"}) < n

Refuses(L) == \E l \in L : layer[l] \in {"storage", "odd"}
FixedRefused(ordinary) == Refuses(KnownLayers(ordinary))
(* The layers of the selected home are not read a second time as a         *)
(* project's; the known ones are, for their markers.                       *)
ProjectRefused(w, ordinary) ==
  \/ \E l \in KnownLayers(ordinary) : layer[l] = "odd"
  \/ LinkMet(w, ordinary)
  \/ Refuses(ProjectDirs(w, ordinary) \ HomeDirs)

(* check_codex_storage, without a directory, with that of the queue, or    *)
(* with the thread's and the second spelling of it.  One of these is one   *)
(* step: whatever is edited inside one is edited after it.                 *)
Fails(at, ordinary) ==
  \/ FixedRefused(ordinary)
  \/ at = "queue" /\ ProjectRefused("queue", ordinary)
  \/ at = "thread" /\ ProjectRefused("thread", ordinary)
  \/ at = "consumer" /\ (ProjectRefused("thread", ordinary) \/ ProjectRefused("lexical", ordinary))
Check(at, p) == <<[of |-> at, prefs |-> p]>>
OneStep(name) == <<[of |-> name, prefs |-> "plan"]>>
QueueCheck(p) == Check("queue", p) \o Check("consumer", p)

(* queue_codex and _queue_codex.  `last` begins the checks before the      *)
(* effect.  The query of the version checks before it starts a process.    *)
FinalCheckMutant(p) == OneStep("last")
FinalCheck(p) == OneStep("last") \o QueueCheck(p)
VersionQuery == Check("queue", "forced") \o OneStep("version")
PlainPlan(dry) ==
  QueueCheck("forced") \o VersionQuery \o QueueCheck("plan")
  \o (IF dry THEN Check("home", "plan") \o OneStep("end") ELSE FinalCheck("plan") \o OneStep("hand over"))
WakePreflight == Check("home", "forced") \o Check("home", "all") \o Check("thread", "all")
WakePlan(dry) ==
  WakePreflight \o (IF dry THEN <<>> ELSE WakePreflight \o QueueCheck("all")) \o QueueCheck("all") \o QueueCheck("all")
  \o (IF dry THEN Check("home", "all") \o OneStep("end")
      ELSE FinalCheck("all") \o OneStep("hand over") \o OneStep("last") \o Check("thread", "all") \o OneStep("wake"))

Plan == IF job.wake THEN WakePlan(job.dry) ELSE PlainPlan(job.dry)
Now == Plan[job.at]
Ordinary == IF Now.prefs = "plan" THEN job.ordinary ELSE Now.prefs = "all"

-----------------------------------------------------------------------------
(* The native loader, as reviewed: the reference for what the checks have  *)
(* to cover.  With markers of its own it may go up any number of parents.  *)
NativeKnown == KnownLayers(version # "reviewed")
NativeDirs(w) ==
  LET walk == Walks[w] IN
  IF CustomMarkers(NativeKnown) THEN ToSet(walk)
  ELSE IF RootsOf(walk, {"repo", "file", "link"}) = {} THEN {walk[1]}
  ELSE {walk[k] : k \in 1 .. Nearest(walk, {"repo", "file", "link"})}
Database(w) == IF \E l \in NativeKnown \cup (NativeDirs(w) \ HomeDirs) : layer[l] = "storage" THEN "elsewhere" ELSE "home"

-----------------------------------------------------------------------------
NoJob == [pc |-> "idle", wake |-> FALSE, dry |-> FALSE, at |-> 1, ordinary |-> FALSE]
NoReader == [pc |-> "idle", before |-> <<>>, of |-> 0, data |-> {}, after |-> <<>>]
StorageInit ==
  /\ layer \in [Layers -> Contents] /\ mark \in [Dirs -> Marks] /\ version \in {"reviewed", "other"}
  /\ job = NoJob /\ late = {} /\ handed = {} /\ layerEdits = 0
  /\ conf = [path |-> 1, writes |-> [i \in 1 .. MaxFileWrites + 1 |-> 0]] /\ reader = NoReader

StartsJob(wake, dry) ==
  /\ job.pc = "idle" /\ wake => version = "other"
  /\ job' = [NoJob EXCEPT !.pc = "runs", !.wake = wake, !.dry = dry]
  /\ UNCHANGED <<layer, mark, version, late, handed, layerEdits, fileVars>>

Proceeds == job' = [job EXCEPT !.at = @ + 1]
GivesRefusal == job' = [job EXCEPT !.pc = "refused"]
ChecksLayers ==
  /\ job.pc = "runs" /\ Now.of \in {"home", "queue", "thread", "consumer"}
  /\ IF Fails(Now.of, Ordinary) THEN GivesRefusal ELSE Proceeds
  /\ UNCHANGED <<layer, mark, version, late, handed, layerEdits, fileVars>>
(* codex_queue_preference_policy: an answer that is not understood, or     *)
(* none in time, is another version.                                       *)
AsksVersion ==
  /\ job.pc = "runs" /\ Now.of = "version"
  /\ \E heard \in {version, "other"} : job' = [job EXCEPT !.at = @ + 1, !.ordinary = heard # "reviewed"]
  /\ late' = late \ {"version"}
  /\ UNCHANGED <<layer, mark, version, handed, layerEdits, fileVars>>
LastChecks ==
  /\ job.pc = "runs" /\ Now.of = "last" /\ Proceeds
  /\ late' = late \cap {"version"}
  /\ UNCHANGED <<layer, mark, version, handed, layerEdits, fileVars>>
(* The native command, in the home's directory, and the consumer it queues *)
(* for; the app-server of a wake, in the thread's directory.               *)
HandsOver ==
  /\ job.pc = "runs" /\ Now.of \in {"hand over", "wake"}
  /\ LET own == Database(IF Now.of = "wake" THEN "thread" ELSE "queue")
         consumer == IF Now.of = "wake" THEN {} ELSE {Database("thread"), Database("lexical")}
     IN handed' = handed \cup {[used |-> {own} \cup consumer, late |-> late]}
  /\ job' = IF job.wake /\ Now.of = "hand over" THEN [job EXCEPT !.at = @ + 1] ELSE [job EXCEPT !.pc = "over"]
  /\ UNCHANGED <<layer, mark, version, late, layerEdits, fileVars>>
DryRunEnds ==
  /\ job.pc = "runs" /\ Now.of = "end" /\ job' = [job EXCEPT !.pc = "over"]
  /\ UNCHANGED <<layer, mark, version, late, handed, layerEdits, fileVars>>

Edits ==
  /\ job.pc = "runs" /\ layerEdits < MaxLayerEdits /\ layerEdits' = layerEdits + 1
  /\ \/ \E l \in Layers, c \in Contents : /\ layer[l] # c /\ layer' = [layer EXCEPT ![l] = c]
                                          /\ late' = late \cup {l} /\ UNCHANGED <<mark, version>>
     \/ \E d \in Dirs, m \in Marks : /\ mark[d] # m /\ mark' = [mark EXCEPT ![d] = m]
                                     /\ late' = late \cup {"marks"} /\ UNCHANGED <<layer, version>>
     \/ \E v \in {"reviewed", "other"} \ {version} :
          /\ ~job.wake /\ version' = v /\ late' = late \cup {"version"} /\ UNCHANGED <<layer, mark>>
  /\ UNCHANGED <<job, handed, fileVars>>

-----------------------------------------------------------------------------
(* _read_codex_config_bytes: one file, read in pieces while others replace *)
(* it or write it in place.  What is in a file is named by its inode and   *)
(* the number of writes to it.                                             *)

Contained(i) == <<i, conf.writes[i]>>
Replaces ==
  /\ conf.path \in 1 .. MaxFileWrites /\ conf' = [conf EXCEPT !.path = @ + 1] /\ UNCHANGED reader
WritesFile ==
  /\ \E i \in 1 .. conf.path :
       /\ conf.path + conf.writes[i] <= MaxFileWrites /\ conf' = [conf EXCEPT !.writes[i] = @ + 1]
  /\ UNCHANGED reader
Accepted == reader.after = reader.before /\ Contained(conf.path) = reader.after
Pinned == reader.of = reader.before[1]
Looks ==
  /\ reader.pc = "idle" /\ reader' = [reader EXCEPT !.pc = "open", !.before = Contained(conf.path)] /\ UNCHANGED conf
Opens ==
  /\ reader.pc = "open" /\ reader' = [reader EXCEPT !.pc = "read", !.of = conf.path] /\ UNCHANGED conf
ReadsPiece ==
  /\ reader.pc = "read" /\ Pinned /\ UNCHANGED conf
  /\ \E more \in BOOLEAN :
       reader' = [reader EXCEPT !.pc = IF more THEN "read" ELSE "after", !.data = @ \cup {Contained(reader.of)}]
LooksAgain ==
  /\ reader.pc = "after" /\ reader' = [reader EXCEPT !.pc = "compare", !.after = Contained(reader.of)] /\ UNCHANGED conf
Compares ==
  /\ reader.pc = "compare" \/ (reader.pc = "read" /\ ~Pinned)
  /\ reader' = [reader EXCEPT !.pc = IF reader.pc = "compare" /\ Accepted THEN "accepted" ELSE "refused",
                             !.after = Contained(conf.path)]
  /\ UNCHANGED conf
FileNext ==
  /\ Replaces \/ WritesFile \/ Looks \/ Opens \/ ReadsPiece \/ LooksAgain \/ Compares
  /\ UNCHANGED <<layer, mark, version, job, late, handed, layerEdits>>

StorageNext ==
  \/ \E wake, dry \in BOOLEAN : StartsJob(wake, dry)
  \/ ChecksLayers \/ AsksVersion \/ LastChecks \/ HandsOver \/ DryRunEnds \/ Edits
  \/ FileNext

StorageSpec == StorageInit /\ [][StorageNext]_storageVars

-----------------------------------------------------------------------------
(* What the checks guarantee.                                              *)

(* A native process that was started, or the consumer of what it queued,   *)
(* uses another database than the selected home's only if a layer, a       *)
(* marker or the executable was changed after the last look at it had      *)
(* begun: the gap that cannot be closed from outside.  With nothing        *)
(* changed that late, the checks saw everything the native loader reads.   *)
MovedOnlyLate == \A h \in handed : "elsewhere" \in h.used => h.late # {}

(* A configuration file is classified by what was in it at one moment, the *)
(* last, though it is read in pieces and others replace it and write it.   *)
ReadWhole == reader.pc = "accepted" => reader.data = {reader.after}

(* Messages and app-servers go to the database that was looked at.         *)
StorageSafe == MovedOnlyLate /\ ReadWhole
=============================================================================
