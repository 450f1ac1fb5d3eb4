----------------------------- MODULE CodexWake -----------------------------
(***************************************************************************)
(* Sending to a Codex thread (session_peer_core/codex.py) and waking it    *)
(* (wake_chain.py).  A thread may be saved in several homes.  The command  *)
(* looks at the native writer lock of every copy, selects a home, looks    *)
(* again, and queues the message with the native command; with --wake it   *)
(* does so under a lock of its own, having reserved one of the target's    *)
(* activations, and then resumes an inactive thread with an app-server     *)
(* whose turn may send, and wake, in its turn.                             *)
(*                                                                         *)
(* A native writer is a number that is never used again, as its process id *)
(* and start time are; 0 is no writer.  An inspection of a lock takes two  *)
(* samples and says `Unsure` whenever they differ or show anything else    *)
(* than one Codex process.  Storage checks, the version and the record of  *)
(* the thread can only refuse, and a refusal is possible at every stage.   *)
(***************************************************************************)
EXTENDS Integers, Sequences, FiniteSets

CONSTANTS
  Homes,      \* homes a thread is saved in, each for one thread
  ThreadOf,   \* the thread of each
  Sends,      \* invocations of `send --to codex:...`
  Rates,      \* activations a target may have in a window
  Window,     \* 60 s
  Hops,       \* limits on the depth of a chain of wakes
  MaxWriter,  \* bound on the native writers
  MaxReal,    \* bound on time
  MaxBack     \* bound on how far the clock is set back

NoHome == "no home"
NoSend == "no send"
ASSUME WakeBounds == {Window, MaxWriter, MaxReal, MaxBack} \subseteq Nat /\ Hops \subseteq Nat /\ Rates \subseteq Nat
ASSUME HomesHaveThreads == DOMAIN ThreadOf = Homes
ASSUME NamesApart == NoHome \notin Homes /\ NoSend \notin Sends

VARIABLES
  real, back,  \* time, and how far the clock is behind it
  rate,        \* the operator's activation rate
  writer,      \* writer[h]: who holds the native writer lock of the copy in h
  born,        \* native writers so far
  guard,       \* guard[h]: who holds the wake lock of that copy
  stamps,      \* stamps[h]: the wake lock file: reservations, and whether a write was cut off
  send,        \* send[s]: an invocation
  server,      \* server[s]: its app-server
  queued,      \* queued[h]: the messages queued there, by invocation
  reserved     \* reserved[h]: when an activation was reserved, in real time

codexVars == <<real, back, rate, writer, born, guard, stamps, send, server, queued, reserved>>

Unsure == -1
Unseen == -2

Copies(t) == {h \in Homes : ThreadOf[h] = t}
Threads == {ThreadOf[h] : h \in Homes}
NothingSeen == [h \in Homes |-> Unseen]

(* `hop` and `limit` are the wake context; `parent` is the invocation in   *)
(* whose turn it was started and `link` how the context came to it.        *)
Unstarted == [stage |-> "idle", wake |-> FALSE, thread |-> "", explicit |-> NoHome, optIn |-> FALSE,
              seen |-> NothingSeen, root |-> NoHome, owner |-> 0, from |-> 0, active |-> FALSE, told |-> "nothing",
              hop |-> 0, limit |-> 0, parent |-> NoSend, link |-> "none"]

(* The stages up to the native command, of an invocation without and with  *)
(* --wake.  At those of `Looks` the locks are inspected.                   *)
PlainStages == <<"resolve", "revalidate", "queue">>
WakeStages == <<"first resolve", "preflight", "guard", "first revalidate", "second preflight", "reserve", "resolve",
                "revalidate", "queue">>
Looks == {"first resolve", "preflight", "first revalidate", "second preflight", "resolve", "revalidate", "after"}
StagesOf(s) == IF send[s].wake THEN WakeStages ELSE PlainStages
Following(s) == LET p == StagesOf(s) IN p[1 + CHOOSE n \in 1..Len(p) - 1 : p[n] = send[s].stage]

InOrder(at) == \A m, n \in 1..Len(at) : m < n => at[m] <= at[n]
CodexTypeOK ==
  /\ real \in 0..MaxReal /\ back \in 0..MaxBack /\ back <= real /\ rate \in Rates /\ born \in 0..MaxWriter
  /\ \A h \in Homes :
       /\ writer[h] \in 0..born /\ guard[h] \in Sends \cup {NoSend}
       /\ \A k \in Homes : h # k /\ writer[h] # 0 => writer[h] # writer[k]
       /\ InOrder(stamps[h].at)
  /\ \A s \in Sends :
       /\ send[s].stage \in {"idle", "cut", "after", "wait", "stop", "over", "killed"}
            \cup {PlainStages[n] : n \in 1..Len(PlainStages)} \cup {WakeStages[n] : n \in 1..Len(WakeStages)}
       /\ send[s].root \in Homes \cup {NoHome} /\ send[s].explicit \in Homes \cup {NoHome}
       /\ send[s].told \in {"nothing", "refused", "queued", "unknown", "failed", "active", "completed"}
       /\ server[s] \in {"none", "started", "resumed", "gone"}

CodexInit ==
  /\ real = 0 /\ back = 0 /\ rate \in Rates /\ born = 0
  /\ writer = [h \in Homes |-> 0]
  /\ guard = [h \in Homes |-> NoSend]
  /\ stamps = [h \in Homes |-> [at |-> <<>>, torn |-> FALSE]]
  /\ send = [s \in Sends |-> Unstarted]
  /\ server = [s \in Sends |-> "none"]
  /\ queued = [h \in Homes |-> {}]
  /\ reserved = [h \in Homes |-> {}]

At(s, stage) == send[s].stage = stage
Running(s) == send[s].stage \notin {"idle", "over", "killed"}
(* The process ends; the kernel or the context manager drops its lock.     *)
Dropped(s) == [h \in Homes |-> IF guard[h] = s THEN NoSend ELSE guard[h]]
Over(s, told) == send' = [send EXCEPT ![s].stage = "over", ![s].told = told, ![s].seen = NothingSeen] /\ guard' = Dropped(s)
GoesOn(s) == send' = [send EXCEPT ![s].stage = Following(s), ![s].seen = NothingSeen] /\ UNCHANGED guard

----------------------------------------------------------------------------
(* wake_chain_context: the hop an invocation would be, and its limit.      *)

(* A turn of an app-server has the context in its environment.  Its        *)
(* commands inherit it, perhaps with a limit given by the operator, or     *)
(* carry it to another machine, whose limit can only lower it, or have     *)
(* lost it and start a chain of their own.                                 *)
CarriedLimit(p, l) == IF l < send[p].limit THEN l ELSE send[p].limit
Contexts(p) ==
  IF p = NoSend THEN {[hop |-> 1, limit |-> l, link |-> "none"] : l \in Hops}
  ELSE {[hop |-> send[p].hop + 1, limit |-> send[p].limit, link |-> "inherited"]}
       \cup {[hop |-> send[p].hop + 1, limit |-> l, link |-> "raised"] : l \in Hops}
       \cup {[hop |-> send[p].hop + 1, limit |-> CarriedLimit(p, l), link |-> "carried"] : l \in Hops}
       \cup {[hop |-> 1, limit |-> l, link |-> "filtered"] : l \in Hops}
WithinHops(c) == c.hop <= c.limit

Starts(s, t, p) ==
  /\ At(s, "idle")
  /\ p # NoSend => server[p] = "resumed"
  /\ \E e \in Copies(t) \cup {NoHome}, o \in BOOLEAN :
       /\ o => e # NoHome
       /\ \/ send' = [send EXCEPT ![s] = [@ EXCEPT !.stage = "resolve", !.thread = t, !.explicit = e,
                                           !.optIn = o, !.parent = p]]
          \/ /\ ~o
             /\ \E c \in Contexts(p) :
                  send' = [send EXCEPT ![s] = [@ EXCEPT !.wake = TRUE, !.thread = t, !.explicit = e, !.parent = p,
                     !.hop = c.hop, !.limit = c.limit, !.link = c.link,
                     !.stage = IF WithinHops(c) THEN "first resolve" ELSE "over",
                     !.told = IF WithinHops(c) THEN "nothing" ELSE "refused"]]
  /\ UNCHANGED <<real, back, rate, writer, born, guard, stamps, server, queued, reserved>>

----------------------------------------------------------------------------
(* inspect_codex_writer, for one copy after the other.                     *)

ToInspect(s) == IF send[s].stage \in {"preflight", "second preflight", "after"} THEN {send[s].root} ELSE Copies(send[s].thread)
Inspected(s) == \A h \in ToInspect(s) : send[s].seen[h] # Unseen
Inspects(s, h) ==
  /\ send[s].stage \in Looks /\ h \in ToInspect(s) /\ send[s].seen[h] = Unseen
  /\ \E e \in {writer[h], Unsure} : send' = [send EXCEPT ![s].seen[h] = e]
  /\ UNCHANGED <<real, back, rate, writer, born, guard, stamps, server, queued, reserved>>

(* resolve_codex_home.  Once a wake has resolved its home, that is the     *)
(* explicit one.                                                           *)
Explicit(s) == IF send[s].root # NoHome THEN send[s].root ELSE send[s].explicit
LiveCopies(s) == {h \in Copies(send[s].thread) : send[s].seen[h] > 0}
UnsureCopies(s) == {h \in Copies(send[s].thread) : send[s].seen[h] = Unsure}
Selected(s) ==
  IF UnsureCopies(s) # {} \/ Cardinality(LiveCopies(s)) > 1 THEN {}
  ELSE IF LiveCopies(s) # {} THEN {h \in LiveCopies(s) : Explicit(s) \in {h, NoHome}}
  ELSE {h \in {Explicit(s)} \ {NoHome} : send[s].optIn \/ send[s].wake}
Resolves(s) ==
  /\ send[s].stage \in {"first resolve", "resolve"} /\ Inspected(s)
  /\ IF Selected(s) = {} THEN Over(s, "refused")
     ELSE \E h \in Selected(s) :
            /\ send' = [send EXCEPT ![s] = [@ EXCEPT !.root = h, !.owner = send[s].seen[h], !.from = born,
                                            !.stage = Following(s), !.seen = NothingSeen]]
            /\ UNCHANGED guard
  /\ UNCHANGED <<real, back, rate, writer, born, stamps, server, queued, reserved>>

(* codex_wake_preflight.                                                   *)
Preflight(s) ==
  /\ send[s].stage \in {"preflight", "second preflight"} /\ Inspected(s)
  /\ LET e == send[s].seen[send[s].root] IN
     IF e = Unsure THEN Over(s, "refused")
     ELSE /\ send' = [send EXCEPT ![s] = [@ EXCEPT !.active = e > 0, !.stage = Following(s), !.seen = NothingSeen]]
          /\ UNCHANGED guard
  /\ UNCHANGED <<real, back, rate, writer, born, stamps, server, queued, reserved>>

(* revalidate_codex_home: the selected copy as it was, the others inactive.*)
SameEvidence(s) == \A h \in Copies(send[s].thread) : send[s].seen[h] = (IF h = send[s].root THEN send[s].owner ELSE 0)
Revalidates(s) ==
  /\ send[s].stage \in {"first revalidate", "revalidate"} /\ Inspected(s)
  /\ IF SameEvidence(s) THEN GoesOn(s) ELSE Over(s, "refused")
  /\ UNCHANGED <<real, back, rate, writer, born, stamps, server, queued, reserved>>

(* Storage, version, thread record and interruptions: nothing was queued.  *)
EndsEarly(s) ==
  /\ Running(s) /\ send[s].stage \notin {"after", "wait", "stop"}
  /\ Over(s, "refused")
  /\ UNCHANGED <<real, back, rate, writer, born, stamps, server, queued, reserved>>

----------------------------------------------------------------------------
(* The wake lock and the reservation kept in its file.                     *)

Guards(s) ==
  LET h == send[s].root IN
  /\ At(s, "guard")
  /\ IF guard[h] = NoSend
     THEN guard' = [guard EXCEPT ![h] = s] /\ send' = [send EXCEPT ![s].stage = Following(s)]
     ELSE Over(s, "refused")
  /\ UNCHANGED <<real, back, rate, writer, born, stamps, server, queued, reserved>>

(* wake_target_rate_reserve.  A list out of order is refused, so that those *)
(* after the window's beginning are the rest of it.  A reservation made     *)
(* before the clock was set back is of the future, and stays.  The file is  *)
(* overwritten and then cut to its new length: a kill between the two       *)
(* leaves it unreadable.                                                    *)
Clock == real - back
Charged(h) ==
  LET at == stamps[h].at
      first == CHOOSE f \in 1..Len(at) + 1 : \A n \in 1..Len(at) : n >= f <=> at[n] > Clock - Window
  IN SubSeq(at, first, Len(at))
NewStamp(h) ==
  LET at == Charged(h) IN IF at # <<>> /\ at[Len(at)] > Clock THEN at[Len(at)] ELSE Clock
Reserves(s) ==
  LET h == send[s].root
      at == Append(Charged(h), NewStamp(h))
  IN /\ At(s, "reserve")
     /\ IF send[s].active THEN GoesOn(s) /\ UNCHANGED <<stamps, reserved>>
        ELSE IF stamps[h].torn \/ ~InOrder(stamps[h].at) \/ Len(Charged(h)) >= rate THEN Over(s, "refused") /\ UNCHANGED <<stamps, reserved>>
        ELSE /\ stamps' = [stamps EXCEPT ![h] = [at |-> at, torn |-> Len(at) < Len(@.at)]]
             /\ reserved' = [reserved EXCEPT ![h] = @ \cup {[by |-> s, at |-> real]}]
             /\ send' = [send EXCEPT ![s].stage = "cut"] /\ UNCHANGED guard
  /\ UNCHANGED <<real, back, rate, writer, born, server, queued>>
Cuts(s) ==
  /\ At(s, "cut")
  /\ stamps' = [stamps EXCEPT ![send[s].root].torn = FALSE]
  /\ send' = [send EXCEPT ![s].stage = "resolve"]
  /\ UNCHANGED <<real, back, rate, writer, born, guard, server, queued, reserved>>

----------------------------------------------------------------------------
(* The effect.                                                             *)

(* The native command queues the message or not; a timeout, or a failure,  *)
(* does not say which.                                                     *)
Answers(put) == {"unknown", "failed"} \cup (IF put THEN {"queued"} ELSE {})
Queues(s) ==
  /\ At(s, "queue")
  /\ \E put \in BOOLEAN : \E told \in Answers(put) :
       /\ queued' = IF put THEN [queued EXCEPT ![send[s].root] = @ \cup {s}] ELSE queued
       /\ IF told = "queued" /\ send[s].wake
          THEN send' = [send EXCEPT ![s].stage = "after", ![s].told = told] /\ UNCHANGED guard
          ELSE Over(s, told)
  /\ UNCHANGED <<real, back, rate, writer, born, stamps, server, reserved>>

(* After the submission the outcome can only be added to: an active writer *)
(* is left alone, an unclear one too, an inactive one is resumed.          *)
MayActivate(s) == send[s].seen[send[s].root] = 0 /\ ~send[s].active
Activates(s) ==
  LET e == send[s].seen[send[s].root] IN
  /\ At(s, "after") /\ Inspected(s)
  /\ IF MayActivate(s)
     THEN /\ server' = [server EXCEPT ![s] = "started"]
          /\ send' = [send EXCEPT ![s].stage = "wait", ![s].seen = NothingSeen] /\ UNCHANGED guard
     ELSE Over(s, IF e > 0 THEN "active" ELSE "queued") /\ UNCHANGED server
  /\ UNCHANGED <<real, back, rate, writer, born, stamps, queued, reserved>>

(* thread/resume takes the native lock, or is rejected; a resumed thread   *)
(* takes its queue up.                                                     *)
Resumes(s) ==
  LET h == send[s].root IN
  /\ server[s] = "started" /\ writer[h] = 0 /\ born < MaxWriter
  /\ writer' = [writer EXCEPT ![h] = born + 1] /\ born' = born + 1
  /\ server' = [server EXCEPT ![s] = "resumed"]
  /\ UNCHANGED <<real, back, rate, guard, stamps, send, queued, reserved>>

(* run_codex_wake is over: a turn completed, or it was rejected, failed,   *)
(* ran out of time or was interrupted.  Its process group is stopped       *)
(* before the wake lock is given back.                                     *)
Stopped(s) == IF server[s] = "resumed" THEN [writer EXCEPT ![send[s].root] = 0] ELSE writer
WaitEnds(s) ==
  /\ At(s, "wait")
  /\ \E told \in {"queued", "completed"} :
       /\ told = "completed" => server[s] = "resumed"
       /\ send' = [send EXCEPT ![s].stage = "stop", ![s].told = told]
  /\ UNCHANGED <<real, back, rate, writer, born, guard, stamps, server, queued, reserved>>
AfterStopMutant(s) == server
AfterStop(s) == [server EXCEPT ![s] = "gone"]
StopsServer(s) ==
  /\ At(s, "stop") /\ server' = AfterStop(s)
  /\ writer' = IF server'[s] = "gone" THEN Stopped(s) ELSE writer
  /\ Over(s, send[s].told)
  /\ UNCHANGED <<real, back, rate, born, stamps, queued, reserved>>

----------------------------------------------------------------------------
(* Faults, and the rest of the machine.                                    *)

(* A killed command leaves its app-server behind, in its own session.      *)
KillsSend(s) ==
  /\ Running(s) /\ send' = [send EXCEPT ![s].stage = "killed", ![s].seen = NothingSeen] /\ guard' = Dropped(s)
  /\ UNCHANGED <<real, back, rate, writer, born, stamps, server, queued, reserved>>
OrphanEnds(s) ==
  /\ At(s, "killed") /\ server[s] \in {"started", "resumed"}
  /\ server' = [server EXCEPT ![s] = "gone"] /\ writer' = Stopped(s)
  /\ UNCHANGED <<real, back, rate, born, guard, stamps, send, queued, reserved>>

ServerOf(h) == {s \in Sends : send[s].root = h /\ server[s] = "resumed"}
OpensThread(h) ==
  /\ writer[h] = 0 /\ born < MaxWriter
  /\ writer' = [writer EXCEPT ![h] = born + 1] /\ born' = born + 1
  /\ UNCHANGED <<real, back, rate, guard, stamps, send, server, queued, reserved>>
ClosesThread(h) ==
  /\ writer[h] # 0 /\ ServerOf(h) = {}
  /\ writer' = [writer EXCEPT ![h] = 0]
  /\ UNCHANGED <<real, back, rate, born, guard, stamps, send, server, queued, reserved>>

TimePasses ==
  /\ real < MaxReal /\ real' = real + 1
  /\ UNCHANGED <<back, rate, writer, born, guard, stamps, send, server, queued, reserved>>
ClockSetBack ==
  /\ back < MaxBack /\ back < real /\ back' = back + 1
  /\ UNCHANGED <<real, rate, writer, born, guard, stamps, send, server, queued, reserved>>

CodexNext ==
  \/ \E s \in Sends :
       \/ \E t \in Threads, p \in Sends \cup {NoSend} : Starts(s, t, p)
       \/ \E h \in Homes : Inspects(s, h)
       \/ Resolves(s) \/ Preflight(s) \/ Revalidates(s) \/ EndsEarly(s)
       \/ Guards(s) \/ Reserves(s) \/ Cuts(s) \/ Queues(s)
       \/ Activates(s) \/ Resumes(s) \/ WaitEnds(s) \/ StopsServer(s)
       \/ KillsSend(s) \/ OrphanEnds(s)
  \/ \E h \in Homes : OpensThread(h) \/ ClosesThread(h)
  \/ TimePasses \/ ClockSetBack

CodexSpec == CodexInit /\ [][CodexNext]_codexVars

----------------------------------------------------------------------------
(* What a send and a wake guarantee.                                       *)

(* What the caller is told of its message is true: told of a submission    *)
(* there is one, told of a refusal there is none, and never in two homes.  *)
ToldTrue ==
  \A s \in Sends :
    LET where == {h \in Homes : s \in queued[h]} IN
    /\ where \subseteq {send[s].root}
    /\ send[s].told \in {"queued", "active", "completed"} => where # {}
    /\ send[s].told \in {"nothing", "refused"} /\ ~At(s, "killed") => where = {}

(* A message never goes to one copy of a thread while another copy has a   *)
(* native writer that was there when the home was selected, however        *)
(* writers come and go between and during the looks at the copies.         *)
NotBesideWriter ==
  [][\A s \in Sends : \A h \in Homes : s \in queued'[h] \ queued[h] =>
       \A k \in Copies(send[s].thread) \ {h} : writer[k] = 0 \/ writer[k] > send[s].from]_codexVars

(* The app-server of a wake lives under the wake lock of its target, so    *)
(* that no two wakes resume a thread at once and none is left behind; only *)
(* a killed command leaves one.                                            *)
ServersGuarded ==
  \A s \in Sends : server[s] \in {"started", "resumed"} /\ ~At(s, "killed") => guard[send[s].root] = s

(* Every activation was reserved, and in no window of real time are there  *)
(* more reservations of a target than the rate, also when commands         *)
(* compete, are killed, or the clock is set back.                          *)
ActivationsRated ==
  \A h \in Homes :
    /\ \A s \in Sends : server[s] # "none" /\ send[s].root = h => \E r \in reserved[h] : r.by = s
    /\ \A t \in 0..MaxReal : Cardinality({r \in reserved[h] : t <= r.at /\ r.at < t + Window}) <= rate

(* A chain of wakes, each started in the turn of the one before, locally   *)
(* or over SSH, ends at the limit it began with, unless somebody gave a    *)
(* new one on the way; a lost context begins a new chain.                  *)
Linked(s) == send[s].link \in {"inherited", "carried"}
Depth[s \in Sends] == IF Linked(s) \/ send[s].link = "raised" THEN 1 + Depth[send[s].parent] ELSE 1
Bound[s \in Sends] == IF Linked(s) THEN Bound[send[s].parent] ELSE send[s].limit
HopsBounded == \A s \in Sends : server[s] # "none" => Depth[s] <= Bound[s]

(* What sends and wakes guarantee: what is told is true, app-servers live  *)
(* under their lock, activations and chains keep to their limits, and no   *)
(* message goes beside a native writer.                                    *)
WakeSafe ==
  /\ [](/\ CodexTypeOK
        /\ ToldTrue
        /\ ServersGuarded
        /\ ActivationsRated
        /\ HopsBounded)
  /\ NotBesideWriter
=============================================================================
