----------------------------- MODULE Rotation -----------------------------
(***************************************************************************)
(* Identity rotation between mutually paired devices (rotation.py, with    *)
(* the parts of app.exchange, Receiver.dispatch and store.Store it runs    *)
(* through).  A device's principal stays and its key changes: generation g *)
(* stands for the device's g-th key, and since a saved proposal is reused  *)
(* until it is active, also for the operation that introduces it.          *)
(*                                                                         *)
(* `rotate` holds the device's state lock alone, so a device's receiver is *)
(* down while its own rotation runs.  Every run of `rotate` goes through   *)
(* all the recorded peers in order, first preparing the new key with the   *)
(* old one, or asking with the new one what became of it, then committing  *)
(* with the new one; any failure ends the run and it is resumed later.     *)
(* Definitions named ...Mutant are deliberately wrong forms of the next    *)
(* one, used only to show that a property notices the mistake.             *)
(***************************************************************************)
EXTENDS Naturals, FiniteSets

CONSTANTS
  Devices,  \* the devices, numbers, for they are visited in the order of their ids
  MaxGen,   \* bound on the generations
  Faults    \* what may happen besides: a subset of AllFaults

AllFaults == {"loss", "crash", "revoke", "delay"}

ASSUME DevicesAssumption == Devices \subseteq Nat /\ IsFiniteSet(Devices)
ASSUME MaxGenAssumption == MaxGen \in Nat \ {0}
ASSUME FaultsAssumption == Faults \subseteq AllFaults

VARIABLES
  keyGen,      \* the generation each device is at
  saved,    \* its saved rotation
  run,      \* its `device rotate` command
  serving,  \* whether its receiver runs
  peer,     \* peer[e][d]: what e's store has about d
  requests  \* requests on their way to a receiver

rotationVars == <<keyGen, saved, run, serving, peer, requests>>

KeyGens == 0..MaxGen
(* A retired key is dead when its ten minutes are over.                    *)
KeyStates == {"absent", "pending", "active", "retired", "dead", "revoked"}
SavedRotation == [gen : KeyGens, status : {"none", "prepared", "active"}, receivers : SUBSET Devices]
(* `todo` are the receivers the current loop has not done yet.             *)
Run == [pc : {"idle", "prepare", "preparing", "ask", "commit", "committing", "activate"}, todo : SUBSET Devices]
(* `pin` is the generation of the certificate e expects of d.              *)
Peer == [status : {"paired", "revoked"}, pin : KeyGens, keys : [KeyGens -> KeyStates],
         ops : [KeyGens -> {"none", "prepared", "committed"}]]
(* `late` ones have lost their client's interest; `admitted` ones have     *)
(* passed the checks before the transaction.                               *)
RotationRequest == [op : {"prepare", "commit"}, from : Devices, to : Devices, key : KeyGens, gen : KeyGens,
            late : BOOLEAN, admitted : BOOLEAN]

NotRotating == [pc |-> "idle", todo |-> {}]
NewPeer == [status |-> "paired", pin |-> 0, keys |-> [g \in KeyGens |-> IF g = 0 THEN "active" ELSE "absent"],
            ops |-> [g \in KeyGens |-> "none"]]

RotationInit ==
  /\ keyGen = [d \in Devices |-> 0]
  /\ saved = [d \in Devices |-> [gen |-> 0, status |-> "none", receivers |-> {}]]
  /\ run = [d \in Devices |-> NotRotating]
  /\ serving = [d \in Devices |-> FALSE]
  /\ peer = [e \in Devices |-> [d \in Devices |-> NewPeer]]
  /\ requests = {}

----------------------------------------------------------------------------
(* What a receiver allows.                                                 *)

(* Store.trusted: the certificates a receiver's TLS context loads.         *)
TrustsKey(v, k) == v.status = "paired" /\ (v.pin = k \/ v.keys[k] \in {"pending", "retired"})

(* Store.principal, authorize and the restriction of Receiver.dispatch:    *)
(* rotation needs a paired device and a key that has some life left,       *)
(* anything that acts a key that is active and no rotation under way.      *)
MayRotate(v, k) == v.status = "paired" /\ v.keys[k] \notin {"revoked", "dead"}
MaySend(v, k) == v.status = "paired" /\ v.keys[k] = "active" /\ \A g \in KeyGens : v.ops[g] # "prepared"

(* A channel needs the receiver, with the certificate the client pinned,   *)
(* and the client's certificate among those the receiver trusts.           *)
Meets(d, e, k) == peer[d][e].status = "paired" /\ peer[d][e].pin = keyGen[e] /\ TrustsKey(peer[e][d], k)
Reaches(d, e, k) == serving[e] /\ Meets(d, e, k)

----------------------------------------------------------------------------
(* Receivers and their handlers.                                           *)

Serve(e) ==
  /\ ~serving[e] /\ run[e].pc = "idle" /\ serving' = [serving EXCEPT ![e] = TRUE]
  /\ UNCHANGED <<keyGen, saved, run, peer, requests>>
StopServing(e) ==
  /\ serving[e] /\ serving' = [serving EXCEPT ![e] = FALSE]
  /\ requests' = {q \in requests : q.to # e}
  /\ UNCHANGED <<keyGen, saved, run, peer>>

(* remote_prepare: a repeated proposal is answered with what became of it. *)
AcceptableProposal(v, q) ==
  /\ v.keys[q.key] = "active" /\ q.gen = q.key + 1
  /\ \A g \in KeyGens : v.ops[g] # "prepared"
  /\ v.keys[q.gen] = "absent"
Prepared(v, g) == [v EXCEPT !.keys[g] = "pending", !.ops[g] = "prepared"]

(* remote_commit, by the new key, retires the active one.                  *)
Uncommitted(v, g) == v.ops[g] = "prepared"
RetiredKeys(v) == [k \in KeyGens |-> IF v.keys[k] = "active" THEN "retired" ELSE v.keys[k]]
Committed(v, g) ==
  IF Uncommitted(v, g)
  THEN [v EXCEPT !.keys = [RetiredKeys(v) EXCEPT ![g] = "active"], !.pin = g, !.ops[g] = "committed"]
  ELSE v

(* What the request does to e's view of d, and whether it is refused.      *)
Effect(v, q) ==
  IF q.op = "commit" THEN Committed(v, q.gen)
  ELSE IF v.ops[q.gen] = "none" /\ AcceptableProposal(v, q) THEN Prepared(v, q.gen) ELSE v
Refused(v, q) ==
  \/ ~q.admitted /\ ~MayRotate(v, q.key)
  \/ v.ops[q.gen] = "none" /\ (q.op = "commit" \/ ~AcceptableProposal(v, q))

----------------------------------------------------------------------------
(* A device's `rotate` command.                                            *)

CurrentPeer(d) == CHOOSE e \in run[d].todo : \A f \in run[d].todo : e <= f
Move(d, pc, todo) == run' = [run EXCEPT ![d] = [pc |-> pc, todo |-> todo]]
Stop(d) == Move(d, "idle", {})

(* local_prepare, under the exclusive state lock.                          *)
LockedMutant(d) == run[d].pc = "idle"
Locked(d) == run[d].pc = "idle" /\ ~serving[d]
PairedWith(d) == {e \in Devices \ {d} : peer[d][e].status = "paired"}
Rotate(d) ==
  /\ Locked(d)
  /\ \/ saved[d].status = "prepared" /\ UNCHANGED saved
     \/ /\ saved[d].status # "prepared" /\ keyGen[d] < MaxGen /\ PairedWith(d) # {}
        /\ saved' = [saved EXCEPT ![d] = [gen |-> keyGen[d] + 1, status |-> "prepared", receivers |-> PairedWith(d)]]
  /\ Move(d, "prepare", saved'[d].receivers)
  /\ UNCHANGED <<keyGen, serving, peer, requests>>

(* The first request of a loop's step; without a channel there is none.    *)
Ask(d, op, key) ==
  requests' = requests \cup {[op |-> op, from |-> d, to |-> CurrentPeer(d), key |-> key, gen |-> saved[d].gen,
                               late |-> FALSE, admitted |-> FALSE]}
SendPrepare(d) ==
  /\ run[d].pc = "prepare"
  /\ \/ Reaches(d, CurrentPeer(d), keyGen[d]) /\ Ask(d, "prepare", keyGen[d]) /\ Move(d, "preparing", run[d].todo)
     \/ (~Reaches(d, CurrentPeer(d), keyGen[d]) \/ "loss" \in Faults) /\ UNCHANGED requests /\ Move(d, "ask", run[d].todo)
  /\ UNCHANGED <<keyGen, saved, serving, peer>>
SendCommit(d) ==
  /\ run[d].pc = "commit"
  /\ \/ /\ Reaches(d, CurrentPeer(d), saved[d].gen)
        /\ Ask(d, "commit", saved[d].gen) /\ Move(d, "committing", run[d].todo)
     \/ (~Reaches(d, CurrentPeer(d), saved[d].gen) \/ "loss" \in Faults) /\ UNCHANGED requests /\ Stop(d)
  /\ UNCHANGED <<keyGen, saved, serving, peer>>

(* The loop goes on to the next receiver, the next loop or the end.        *)
PeerDone(d) ==
  LET rest == run[d].todo \ {CurrentPeer(d)}
      committing == run[d].pc = "committing"
  IN IF rest # {} THEN Move(d, IF committing THEN "commit" ELSE "prepare", rest)
     ELSE IF committing THEN Move(d, "activate", {}) ELSE Move(d, "commit", saved[d].receivers)
Failed(d) == IF run[d].pc = "preparing" THEN Move(d, "ask", run[d].todo) ELSE Stop(d)

(* What became of the new key at a receiver that did not prepare it, asked *)
(* with that key (remote_status).                                          *)
AskStatus(d) ==
  LET e == CurrentPeer(d)
      g == saved[d].gen
  IN /\ run[d].pc = "ask"
     /\ \/ Reaches(d, e, g) /\ MayRotate(peer[e][d], g) /\ peer[e][d].ops[g] # "none" /\ PeerDone(d)
        \/ (~Reaches(d, e, g) \/ peer[e][d].ops[g] = "none" \/ "loss" \in Faults) /\ Stop(d)
     /\ UNCHANGED <<keyGen, saved, serving, peer, requests>>

(* A request is handled; its answer reaches a client that still waits for  *)
(* it, or is lost.                                                         *)
Handle(q) ==
  LET v == peer[q.to][q.from]
  IN /\ q \in requests /\ serving[q.to] /\ requests' = requests \ {q}
     /\ peer' = IF Refused(v, q) THEN peer ELSE [peer EXCEPT ![q.to][q.from] = Effect(v, q)]
     /\ IF ~q.late
        THEN \/ ~Refused(v, q) /\ PeerDone(q.from)
             \/ (Refused(v, q) \/ "loss" \in Faults) /\ Failed(q.from)
        ELSE UNCHANGED run
     /\ UNCHANGED <<keyGen, saved, serving>>

Abandon(d) == requests' = {[q EXCEPT !.late = @ \/ q.from = d] : q \in requests}
(* The wait for an answer ends; the request may be handled all the same.   *)
GivesUp(d) ==
  /\ run[d].pc \in {"preparing", "committing"}
  /\ "loss" \in Faults \/ ~\E q \in requests : q.from = d /\ ~q.late
  /\ Failed(d) /\ Abandon(d) /\ UNCHANGED <<keyGen, saved, serving, peer>>

ActivateKey(d) ==
  /\ run[d].pc = "activate"
  /\ keyGen' = [keyGen EXCEPT ![d] = saved[d].gen] /\ saved' = [saved EXCEPT ![d].status = "active"]
  /\ Stop(d) /\ UNCHANGED <<serving, peer, requests>>

RotationCrash(d) ==
  /\ "crash" \in Faults /\ run[d].pc # "idle" /\ Stop(d) /\ Abandon(d)
  /\ UNCHANGED <<keyGen, saved, serving, peer>>

----------------------------------------------------------------------------
(* The ten minutes of a retired key end; a device's owner revokes another  *)
(* one in its store, perhaps just after a request of it has been admitted. *)

WindowEnds(e, d, k) ==
  /\ "delay" \in Faults /\ peer[e][d].keys[k] = "retired" /\ peer' = [peer EXCEPT ![e][d].keys[k] = "dead"]
  /\ UNCHANGED <<keyGen, saved, run, serving, requests>>

RevokeDevice(e, d) ==
  LET v == peer[e][d]
  IN /\ "revoke" \in Faults /\ e # d /\ v.status = "paired" /\ run[e].pc = "idle"
     /\ peer' = [peer EXCEPT ![e][d].status = "revoked",
                             ![e][d].keys = [k \in KeyGens |-> IF v.keys[k] = "absent" THEN "absent" ELSE "revoked"]]
     /\ \E early \in SUBSET {q \in requests : q.to = e /\ q.from = d /\ MayRotate(v, q.key)} :
          requests' = (requests \ early) \cup {[q EXCEPT !.admitted = TRUE] : q \in early}
     /\ UNCHANGED <<keyGen, saved, run, serving>>

Steps(d) == SendPrepare(d) \/ SendCommit(d) \/ AskStatus(d) \/ GivesUp(d) \/ ActivateKey(d)
RotationNext ==
  \/ \E d \in Devices : Serve(d) \/ StopServing(d) \/ Rotate(d) \/ Steps(d) \/ RotationCrash(d)
  \/ \E q \in requests : Handle(q)
  \/ \E e, d \in Devices : RevokeDevice(e, d) \/ \E k \in KeyGens : WindowEnds(e, d, k)

RotationSpec == RotationInit /\ [][RotationNext]_rotationVars

----------------------------------------------------------------------------
(* Properties.                                                             *)

(* Every variable has its type, and a loop under way has a receiver to do. *)
RotationTypeOK ==
  /\ \A d \in Devices : run[d].pc \notin {"idle", "activate"} => run[d].todo # {}
  /\ keyGen \in [Devices -> KeyGens] /\ saved \in [Devices -> SavedRotation] /\ run \in [Devices -> Run]
  /\ serving \in [Devices -> BOOLEAN] /\ peer \in [Devices -> [Devices -> Peer]]
  /\ requests \subseteq RotationRequest

(* The keys a device has at hand: its own and the one it rotates to.       *)
Held(d) == {keyGen[d]} \cup (IF saved[d].status = "prepared" THEN {saved[d].gen} ELSE {})
Both(d, e) == peer[d][e].status = "paired" /\ peer[e][d].status = "paired"

(* A receiver lets one key of a device act at most: no commit, repeated or *)
(* late, leaves an old key's authority behind.                             *)
OneKeyActs ==
  \A e, d \in Devices : \A j, k \in KeyGens :
    MaySend(peer[e][d], j) /\ MaySend(peer[e][d], k) => j = k

(* Wherever a rotation was interrupted, every device can still prove a key *)
(* to every peer it shares a pairing with, and every peer expects a        *)
(* certificate the device can show.                                        *)
NobodyStranded ==
  \A d \in Devices : \A e \in Devices \ {d} : Both(d, e) =>
    /\ peer[e][d].pin \in Held(d)
    /\ \E k \in Held(d) : TrustsKey(peer[e][d], k) /\ MayRotate(peer[e][d], k)

(* A device is active only when every recorded peer that has not revoked   *)
(* it has committed: it never changes keys ahead of a peer.                *)
ActiveEverywhere ==
  \A d \in Devices : saved[d].status = "active" =>
    \A e \in saved[d].receivers : peer[e][d].status = "paired" =>
      peer[e][d].pin = keyGen[d] /\ peer[e][d].keys[keyGen[d]] = "active"

(* Devices that rotate at the same time cannot block each other for good:  *)
(* one of them at least can still go through all of its peers, once their  *)
(* receivers run.                                                          *)
Pending == {d \in Devices : saved[d].status = "prepared"}
Unblocked(d) ==
  \A e \in saved[d].receivers :
    /\ Meets(d, e, keyGen[d]) \/ Meets(d, e, saved[d].gen)
    /\ peer[e][d].ops[saved[d].gen] # "none" \/ Meets(d, e, keyGen[d])
NoMutualBlock ==
  Pending # {} /\ (\A d, e \in Devices : d # e => Both(d, e)) => \E d \in Pending : Unblocked(d)

(* A key that was retired never acts again, whatever late commit arrives.  *)
RetiredForGood ==
  [][\A e, d \in Devices : \A k \in KeyGens :
       peer[e][d].keys[k] \in {"retired", "dead"} => peer'[e][d].keys[k] \in {"retired", "dead", "revoked"}]_rotationVars

(* What rotations guarantee: one key acts, nobody is stranded, an active   *)
(* device has every peer with it, no rotations block each other, and a     *)
(* retired key stays retired.                                              *)
RotationSafe ==
  /\ [](/\ RotationTypeOK
        /\ OneKeyActs
        /\ NobodyStranded
        /\ ActiveEverywhere
        /\ NoMutualBlock)
  /\ RetiredForGood
=============================================================================
