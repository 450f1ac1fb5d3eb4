----------------------------- MODULE AddressBook -----------------------------
(* The private book of routes and recipients (presets.py, addresses.py,     *)
(* address_cli.py, address_selection.py) and the notices its user dismissed *)
(* (update_preferences.py).  Three files in one directory, each with its    *)
(* own advisory lock.  An address binds a label to one observed session     *)
(* behind the route of a preset; a send through an address must reach that  *)
(* very session or nobody.                                                  *)
(*                                                                          *)
(* Each process runs one command.  A step is a read of a file, the probe of *)
(* a session, or one of the system calls of the write: other commands, kills*)
(* and the loss of power come between any two.  Reads take no lock: a file  *)
(* is replaced as a whole.  An entry is a value, and a revision, the hash of*)
(* a name and an entry, stands for it: an address holds a fresh binding id, *)
(* so its revision never comes back, while a preset's does with its route.  *)
(* A session with its generation, its writer and the key of its host is one *)
(* number for each route, which grows when any of them changes.             *)
(* The files are private to the user; editors that ignore the lock, whom   *)
(* the identity checks of the file are for, are not modelled.               *)
EXTENDS Integers, FiniteSets, Functions

CONSTANTS
  Users,        \* processes, each of which runs one command
  Choices,      \* the commands they may be given
  Places,       \* values of the one preset: transport, host, agent, home
  Capacity,     \* PRESET_MAX_ENTRIES
  MaxSession,   \* bound: how often the session behind a route changes
  BookFaults    \* subset of {"kill", "power", "disk"}

ASSUME BookAssumption ==
  /\ 0 \notin Users
  /\ \A c \in Choices :
       /\ c.file \in {"presets", "addresses", "notices"}
       /\ c.op \in {"reselect", "send"} => c.file = "addresses"
       /\ c.file = "addresses" => c.op \in {"add", "reselect", "send", "remove"}

VARIABLES
  book,         \* file -> its entries and the commands they come from
  older,        \* file -> versions a loss of power may bring back
  locked,       \* file -> holder of its flock, or {}
  session,      \* route -> the session that answers there now
  cmd,          \* process -> its command and how far it is
  reached,      \* process -> where its message went
  since         \* process -> what the files said at and after its probe

bookVars == <<book, older, locked, session, cmd, reached, since>>

Files == {"presets", "addresses", "notices"}
PresetName == "work"
Empty == [n \in {} |-> {}]
Version(entries, log) == [entries |-> entries, log |-> log]
FirstEntry(r) == [label |-> "one", route |-> r, seen |-> 0, binding |-> 0]
NoRevision == [route |-> "", binding |-> 0]
Waiting == [pc |-> "start", op |-> "", file |-> "", name |-> "", given |-> NoRevision, route |-> "",
            seen |-> 0, label |-> "", base |-> Version(Empty, {}), told |-> ""]
Unprobed == [routes |-> {}, bindings |-> {}]

AddressBookInit ==
  /\ \E r \in Places :
       book = [f \in Files |-> Version(CASE f = "presets" -> [n \in {PresetName} |-> r]
                                     [] f = "addresses" -> [n \in {"a"} |-> FirstEntry(r)]
                                     [] f = "notices" -> Empty, {})]
  /\ older = [f \in Files |-> {}]
  /\ locked = [f \in Files |-> {}]
  /\ session = [r \in Places |-> 0]
  /\ cmd = [p \in Users |-> Waiting]
  /\ reached = [p \in Users |-> <<>>]
  /\ since = [p \in Users |-> Unprobed]

----------------------------------------------------------------------------
(* What a process sees in the files, and how it ends.                      *)

Presets == book["presets"].entries
Addresses == book["addresses"].entries
Revision(f, e) == IF f = "addresses" THEN [NoRevision EXCEPT !.binding = e.binding] ELSE [NoRevision EXCEPT !.route = e]
Routes(b) == {b["presets"].entries[n] : n \in DOMAIN b["presets"].entries}
Bindings(b) == {b["addresses"].entries[n].binding : n \in DOMAIN b["addresses"].entries}

IsAt(p, pc) == cmd[p].pc = pc
Unlocked(p) == [f \in Files |-> locked[f] \ {p}]
Finished(p, told) == [cmd[p] EXCEPT !.pc = "done", !.told = told, !.base = Version(Empty, {})]
Forgotten(p, told) == [Waiting EXCEPT !.pc = "done", !.told = told, !.file = cmd[p].file]
Refuse(p) ==
  /\ cmd' = [cmd EXCEPT ![p] = Forgotten(p, "refused")]
  /\ locked' = Unlocked(p)
Reads == UNCHANGED <<book, older, session, reached>>
Moves(p, c) == cmd' = [cmd EXCEPT ![p] = c] /\ UNCHANGED locked

----------------------------------------------------------------------------
(* Commands up to their write or their effect.                             *)

FirstRead(c) ==
  CASE c.op \in {"reselect", "send"} -> "lookup"
    [] c.op = "add" /\ c.file = "addresses" -> "preset"
    [] OTHER -> "lock"
Begin(p) ==
  /\ IsAt(p, "start")
  /\ \E c \in Choices :
       cmd' = [cmd EXCEPT ![p] = [@ EXCEPT !.pc = FirstRead(c), !.op = c.op, !.file = c.file, !.name = c.name,
                                           !.given = c.given, !.label = c.label, !.route = c.route,
                                           !.seen = c.seen]]
  /\ UNCHANGED <<book, older, locked, session, reached, since>>

(* address_lookup: the revision must be the one the user reviewed.         *)
Reviewed(p) == cmd[p].name \in DOMAIN Addresses /\ Revision("addresses", Addresses[cmd[p].name]) = cmd[p].given
Lookup(p) ==
  /\ IsAt(p, "lookup")
  /\ \/ ~Reviewed(p) /\ Refuse(p)
     \/ /\ Reviewed(p)
        /\ LET e == Addresses[cmd[p].name] IN
           Moves(p, IF cmd[p].op = "send"
                     THEN [cmd[p] EXCEPT !.pc = "preset", !.route = e.route, !.seen = e.seen]
                     ELSE [cmd[p] EXCEPT !.pc = "preset", !.label = e.label])
  /\ Reads /\ UNCHANGED since

(* preset_lookup; a send needs the route its address was bound to.         *)
PresetUsable(p) == PresetName \in DOMAIN Presets /\ (cmd[p].op = "send" => Presets[PresetName] = cmd[p].route)
ReadPreset(p) ==
  /\ IsAt(p, "preset")
  /\ \/ ~PresetUsable(p) /\ Refuse(p)
     \/ PresetUsable(p) /\ Moves(p, [cmd[p] EXCEPT !.pc = "probe", !.route = Presets[PresetName]])
  /\ Reads /\ UNCHANGED since

(* The probe takes as long as SSH does.  What it finds must be what the    *)
(* user expects: for a send, all that the address says.                    *)
AsSeen(p) == session[cmd[p].route] = cmd[p].seen
Probe(p) ==
  /\ IsAt(p, "probe")
  /\ \/ Refuse(p) /\ UNCHANGED since          \* unavailable, or not as expected
     \/ /\ AsSeen(p)
        /\ Moves(p, [cmd[p] EXCEPT !.pc = IF cmd[p].op = "send" THEN "again" ELSE "recheck"])
        /\ since' = [since EXCEPT ![p] = [routes |-> Routes(book), bindings |-> Bindings(book)]]
  /\ Reads

(* A preset edit during the probe must not create a stale binding.         *)
SameRouteMutant(p) == TRUE
SameRoute(p) == PresetName \in DOMAIN Presets /\ Presets[PresetName] = cmd[p].route
Recheck(p) ==
  /\ IsAt(p, "recheck")
  /\ \/ ~SameRoute(p) /\ Refuse(p)
     \/ SameRoute(p) /\ Moves(p, [cmd[p] EXCEPT !.pc = "lock"])
  /\ Reads /\ UNCHANGED since

(* A send looks both up again, one after the other.                        *)
LookupAgain(p) ==
  /\ IsAt(p, "again")
  /\ \/ ~Reviewed(p) /\ Refuse(p)
     \/ Reviewed(p) /\ Moves(p, [cmd[p] EXCEPT !.pc = "route"])
  /\ Reads /\ UNCHANGED since
RouteAgain(p) ==
  /\ IsAt(p, "route")
  /\ \/ ~SameRoute(p) /\ Refuse(p)
     \/ SameRoute(p) /\ Moves(p, [cmd[p] EXCEPT !.pc = "effect"])
  /\ Reads /\ UNCHANGED since

(* The native path compares generation, writer and host key once more.     *)
StillThere(p) == session[cmd[p].route] = cmd[p].seen
Effect(p) ==
  /\ IsAt(p, "effect")
  /\ \/ ~StillThere(p) /\ Refuse(p) /\ UNCHANGED reached
     \/ /\ StillThere(p)
        /\ reached' = [reached EXCEPT ![p] = <<cmd[p].route, session[cmd[p].route]>>]
        /\ Moves(p, Finished(p, "sent"))
  /\ UNCHANGED <<book, older, session, since>>

----------------------------------------------------------------------------
(* preset_mutate: the write of a file.                                     *)

(* flock, tried for one second.                                            *)
Free(f) == locked[f] = {}
Lock(p) ==
  /\ IsAt(p, "lock")
  /\ LET f == cmd[p].file IN
     \/ ~Free(f) /\ Refuse(p)
     \/ /\ Free(f)
        /\ locked' = [locked EXCEPT ![f] = @ \cup {p}]
        /\ cmd' = [cmd EXCEPT ![p].pc = "read"]
  /\ Reads /\ UNCHANGED since

NewEntry(p) ==
  IF cmd[p].file # "addresses" THEN cmd[p].route
  ELSE [label |-> cmd[p].label, route |-> cmd[p].route, seen |-> cmd[p].seen, binding |-> p]
Mutated(p, entries) ==
  IF cmd[p].op = "remove" THEN Restrict(entries, DOMAIN entries \ {cmd[p].name})
  ELSE [n \in DOMAIN entries \cup {cmd[p].name} |-> IF n = cmd[p].name THEN NewEntry(p) ELSE entries[n]]
DuplicateLabel(f, entries) == f = "addresses" /\ ~IsInjective([n \in DOMAIN entries |-> entries[n].label])

(* The conditions under which the file may be changed.                     *)
Allowed(p, entries) ==
  /\ cmd[p].op = "add" => cmd[p].name \notin DOMAIN entries
  /\ cmd[p].op \notin {"add", "dismiss"} =>
       /\ cmd[p].name \in DOMAIN entries
       /\ Revision(cmd[p].file, entries[cmd[p].name]) = cmd[p].given
  /\ ~DuplicateLabel(cmd[p].file, Mutated(p, entries))
  /\ Cardinality(DOMAIN Mutated(p, entries)) <= Capacity
(* A dismissal of update notices that is there already is not written.     *)
Already(p, entries) == cmd[p].op = "dismiss" /\ cmd[p].name \in DOMAIN entries /\ entries[cmd[p].name] = cmd[p].route
Read(p) ==
  /\ IsAt(p, "read")
  /\ LET b == book[cmd[p].file] IN
     \/ ~Allowed(p, b.entries) /\ Refuse(p)
     \/ Already(p, b.entries) /\ cmd' = [cmd EXCEPT ![p] = Finished(p, "same")] /\ locked' = Unlocked(p)
     \/ /\ Allowed(p, b.entries) /\ ~Already(p, b.entries)
        /\ Moves(p, [cmd[p] EXCEPT !.pc = "replace", !.base = b])
  /\ Reads /\ UNCHANGED since

(* The temporary file is complete and on disk; it takes the file's name.   *)
(* An error before that leaves the file as it was.                         *)
Looking == {p \in Users : cmd[p].pc \in {"recheck", "again", "route"}}
Noted(b) == [p \in Users |-> IF p \in Looking
                               THEN [routes |-> since[p].routes \cup Routes(b), bindings |-> since[p].bindings \cup Bindings(b)]
                               ELSE since[p]]
Replace(p) ==
  /\ IsAt(p, "replace")
  /\ LET f == cmd[p].file IN
     /\ book' = [book EXCEPT ![f] = Version(Mutated(p, cmd[p].base.entries), cmd[p].base.log \cup {p})]
     /\ older' = [older EXCEPT ![f] = @ \cup {book[f]}]
  /\ since' = Noted(book')
  /\ Moves(p, [cmd[p] EXCEPT !.pc = "sync"])
  /\ UNCHANGED <<session, reached>>
DiskFails(p) ==
  /\ "disk" \in BookFaults /\ IsAt(p, "replace")
  /\ Refuse(p) /\ Reads /\ UNCHANGED since

(* The directory reaches the disk, with every name in it; only then may    *)
(* the command say that the change is made.                                *)
Confirmed(p) ==
  \/ /\ older' = [f \in Files |-> {}]
     /\ cmd' = [cmd EXCEPT ![p] = Finished(p, "ok")]
  \/ /\ "disk" \in BookFaults
     /\ cmd' = [cmd EXCEPT ![p] = Finished(p, "unconfirmed")]
     /\ UNCHANGED older
Sync(p) ==
  /\ IsAt(p, "sync")
  /\ Confirmed(p)
  /\ locked' = Unlocked(p)
  /\ UNCHANGED <<book, session, reached, since>>

----------------------------------------------------------------------------
(* The world around the commands.                                          *)

Killed(p) == IF IsAt(p, "sync") THEN Finished(p, "nothing") ELSE Forgotten(p, "nothing")
Kill(p) ==
  /\ "kill" \in BookFaults
  /\ cmd[p].pc \notin {"start", "done"}
  /\ cmd' = [cmd EXCEPT ![p] = Killed(p)]
  /\ locked' = Unlocked(p)
  /\ UNCHANGED <<book, older, session, reached, since>>

(* Every process ends, and a name that was not synced may be the old one.  *)
PowerLoss ==
  /\ "power" \in BookFaults
  /\ \E f \in Files : older[f] # {}
  /\ book' \in [Files -> UNION {older[f] \cup {book[f]} : f \in Files}]
  /\ \A f \in Files : book'[f] \in older[f] \cup {book[f]}
  /\ older' = [f \in Files |-> {}]
  /\ locked' = [f \in Files |-> {}]
  /\ cmd' = [p \in Users |-> IF cmd[p].pc \in {"start", "done"} THEN cmd[p] ELSE Killed(p)]
  /\ since' = Noted(book')
  /\ UNCHANGED <<session, reached>>

(* A session is restarted, its writer replaced, or its host's key changes. *)
SessionChanges(r) ==
  /\ session[r] < MaxSession
  /\ session' = [session EXCEPT ![r] = @ + 1]
  /\ UNCHANGED <<book, older, locked, cmd, reached, since>>

Command(p) ==
  \/ Begin(p) \/ Lookup(p) \/ ReadPreset(p) \/ Probe(p) \/ Recheck(p)
  \/ LookupAgain(p) \/ RouteAgain(p) \/ Effect(p)
  \/ Lock(p) \/ Read(p) \/ Replace(p) \/ DiskFails(p) \/ Sync(p) \/ Kill(p)
AddressBookNext == (\E p \in Users : Command(p)) \/ PowerLoss \/ (\E r \in Places : SessionChanges(r))

----------------------------------------------------------------------------
(* Properties.                                                             *)

(* What a command said of its change stays true: a change that was         *)
(* confirmed is part of the file, whatever other commands, kills and the   *)
(* loss of power do later, and one that was refused never will be.         *)
AnswersKept ==
  \A p \in Users : LET log == book[IF cmd[p].file = "" THEN "presets" ELSE cmd[p].file].log IN
    /\ cmd[p].told = "ok" => p \in log
    /\ cmd[p].told = "refused" => p \notin log

(* No two addresses have one label.                                        *)
LabelsUnique == ~DuplicateLabel("addresses", Addresses)

(* A binding was observed over a route that its preset named after that    *)
(* observation began to count, not over one that was replaced meanwhile.   *)
BoundToPreset ==
  \A p \in Users :
    cmd[p].file = "addresses" /\ cmd[p].op # "remove" /\ (cmd[p].told = "ok" \/ IsAt(p, "replace")) =>
      cmd[p].route \in since[p].routes

(* A message sent through an address reached the session that the reviewed *)
(* revision stands for, over a route and under a revision that were both   *)
(* still in the files after the probe.                                     *)
BoundTo(b) == IF b = 0 THEN <<"", 0>> ELSE <<cmd[b].route, cmd[b].seen>>
SentAsReviewed ==
  \A p \in Users :
    reached[p] # <<>> =>
      /\ cmd[p].given.binding \in since[p].bindings
      /\ cmd[p].route \in since[p].routes
      /\ reached[p][2] = BoundTo(cmd[p].given.binding)[2]
      /\ cmd[p].given.binding # 0 => reached[p][1] = BoundTo(cmd[p].given.binding)[1]

(* What the book of routes and recipients guarantees in every state.       *)
AddressesSafe ==
  /\ AnswersKept
  /\ LabelsUnique
  /\ BoundToPreset
  /\ SentAsReviewed
=============================================================================
