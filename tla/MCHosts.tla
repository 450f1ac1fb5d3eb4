------------------------------- MODULE MCHosts -------------------------------
(* One instance of each part that runs between machines without pairing, or *)
(* on one machine beside it: a handoff over SSH, sending to a Codex thread *)
(* with its wake, the control service with the register of a relay, the    *)
(* address book, the update of an installation and the SSH configuration.  *)
(* A behaviour is about one of them, chosen at the start; the others stay  *)
(* as they began.  The Codex part is explored in three directions: one send *)
(* to a thread with two saved copies whose writers come and go ("copies"), *)
(* a chain of two wakes in two threads ("chain"), and two wakes of one     *)
(* thread that compete for the guard and the rate while the clock moves    *)
(* ("rate"); the address book in two ("book", "rebind").                   *)
EXTENDS RemoteHandoff, CodexWake, ControlPlane, AddressBook, Updates, SshTrust

CONSTANT Scopes    \* the parts a run is about
VARIABLE scope

MCThreadOf == [h \in Homes |-> IF h \in {"h1", "h2"} THEN "t" ELSE "u"]
MCOperations == {[kind |-> "register", principal |-> "phone", gen |-> 1],
                 [kind |-> "recover", principal |-> "phone2", old |-> "phone"],
                 [kind |-> "recover", principal |-> "phone3", old |-> "phone"]}
MCAdmissions == {[kind |-> "admit", dev |-> "phone", recv |-> "desk"]}

Shown(r, b) == [route |-> r, binding |-> b]
Choice(op, f, n, g, label, r, seen) ==
  [op |-> op, file |-> f, name |-> n, given |-> g, label |-> label, route |-> r, seen |-> seen]
MCReleaseOf == [c \in Clients |-> c + 1]
MCChoices ==
  {Choice("replace", "presets", PresetName, Shown("r1", 0), "", "r2", 0),
   Choice("replace", "presets", PresetName, Shown("r2", 0), "", "r1", 0),
   Choice("remove", "presets", PresetName, Shown("r1", 0), "", "", 0),
   Choice("add", "presets", PresetName, NoRevision, "", "r2", 0),
   Choice("add", "addresses", "b", NoRevision, "one", "", 0),
   Choice("add", "addresses", "b", NoRevision, "two", "", 0),
   Choice("add", "addresses", "c", NoRevision, "two", "", 1),
   Choice("remove", "addresses", "a", Shown("", 0), "", "", 0),
   Choice("reselect", "addresses", "a", Shown("", 0), "", "", 1),
   Choice("reselect", "addresses", "a", Shown("", 0), "", "", 0),
   Choice("send", "addresses", "a", Shown("", 0), "", "", 0),
   Choice("send", "addresses", "b", Shown("", 1), "", "", 0),
   Choice("dismiss", "notices", "runtime", NoRevision, "", "1.0", 0),
   Choice("dismiss", "notices", "runtime", NoRevision, "", "none", 0)}
MCInit ==
  /\ scope \in Scopes
  /\ RemoteInit /\ CodexInit /\ ControlInit /\ AddressBookInit /\ UpdatesInit /\ TrustInit
  /\ scope # "update" => program = NoProgram /\ launcher = "none"
  /\ book["presets"].entries[PresetName] = "r1"
  /\ scope # "rate" => rate = 1
  /\ scope # "config" => unsafe = {}

(* Apart from "copies", every send names its home and wakes; two of them    *)
(* begin in the order of their numbers.                                    *)
CodexScope ==
  /\ CodexNext /\ UNCHANGED <<remoteVars, controlVars, bookVars, updateVars, sshTrustVars>>
  /\ scope # "rate" => real' = 0
  /\ send'["s1"].stage = "idle" => send'["s2"].stage = "idle"
  /\ scope = "copies" => /\ send'["s2"] = Unstarted /\ writer'["h3"] = 0
                         /\ send'["s1"].thread # "u" /\ send'["s1"].limit # 2
  /\ scope # "copies" => /\ \A s \in Sends : send'[s].stage # "idle" => send'[s].wake /\ send'[s].explicit # NoHome
                         /\ \A h \in Homes : writer'[h] # 0 => ServerOf(h)' # {}
  /\ scope = "rate" => /\ \A s \in Sends : send'[s].thread # "t" /\ send'[s].hop # 2 /\ send'[s].limit # 2
                       /\ writer'["h1"] = 0 /\ writer'["h2"] = 0
  /\ scope = "chain" => writer'["h2"] = 0 /\ \A s \in Sends : send'[s].explicit # "h2"

(* Two invocations begin in the order of their numbers; only the first may *)
(* be a dry run.                                                           *)
SshScope ==
  /\ RemoteNext /\ UNCHANGED <<codexVars, controlVars, bookVars, updateVars, sshTrustVars>>
  /\ sender'["s1"].pc = "idle" => sender'["s2"].pc = "idle"
  /\ ~sender'["s2"].dry

(* Time passes once a ticket is signed or being signed, and the relay loses *)
(* its replay file once there is something to replay; two operations have  *)
(* their ids reserved.                                                     *)
ControlScope ==
  /\ ControlNext /\ UNCHANGED <<remoteVars, codexVars, bookVars, updateVars, sshTrustVars>>
  /\ epoch' # epoch => tickets # <<>> \/ signing # {}
  /\ replay'.notBefore # replay.notBefore => tickets # <<>>
  /\ Cardinality(db'.reserved) <= 2

(* Commands begin in the order of their numbers; "rebind" has three of them *)
(* that send, edit the preset or bind again, without faults.                *)
BookScope ==
  /\ AddressBookNext /\ UNCHANGED <<remoteVars, codexVars, controlVars, updateVars, sshTrustVars>>
  /\ \A p, q \in Users : q < p /\ cmd'[p].pc # "start" => cmd'[q].pc # "start"
  /\ session'["r2"] = 0
  /\ scope = "book" => cmd'[3].pc = "start"
  /\ scope = "rebind" =>
       \A p \in Users : /\ cmd'[p].op \in {"", "replace", "reselect", "send"}
                        /\ cmd'[p].told \notin {"nothing", "unconfirmed"}

MCNext ==
  /\ scope' = scope
  /\ \/ scope = "ssh" /\ SshScope
     \/ scope \in {"copies", "chain", "rate"} /\ CodexScope
     \/ scope = "control" /\ ControlScope
     \/ scope \in {"book", "rebind"} /\ BookScope
     \/ scope = "update" /\ UpdatesNext /\ UNCHANGED <<remoteVars, codexVars, controlVars, bookVars, sshTrustVars>>
     \/ /\ scope = "config" /\ TrustNext
        /\ UNCHANGED <<remoteVars, codexVars, controlVars, bookVars, updateVars>>

MCSpec == MCInit /\ [][MCNext]_<<scope, remoteVars, codexVars, controlVars, bookVars, updateVars, sshTrustVars>>
=============================================================================
