------------------------------ MODULE Recovery ------------------------------
(***************************************************************************)
(* Restoring a backup into quarantine and replacing the lost identity by a *)
(* fresh one (lifecycle.restore, recovery.py, Store.recovery_required and  *)
(* the recovery commands of cli.py).                                       *)
(*                                                                         *)
(* The operator restores the archive, begins a plan in an empty state, has *)
(* each archived peer approve a signed request, imports the approvals,     *)
(* fences the old principal at the control service, reconciles what is     *)
(* unknown, and activates.  Every command holds its store's lock           *)
(* exclusively and writes one transaction, so a command is one step; the   *)
(* request and approval files may be lost, kept and used again in any      *)
(* order.  Certificates of a peer are named by their generation.           *)
(***************************************************************************)
EXTENDS Naturals, FiniteSets

CONSTANTS
  Peers,      \* peers the archive was paired with
  Fresh,      \* empty states, each with a principal of its own
  PlanIds,    \* operation ids the operator chooses
  Routes,     \* routes a request may name
  Effects,    \* requests in the archive's journal, and outgoing receipts
  ReconIds,   \* operation ids of reconciliations
  MaxGeneration,
  Managed,    \* whether the archive was enrolled at a control service
  Old         \* the archived principal

None == "none"
ASSUME RecoveryAssumption == Old \notin Fresh /\ Managed \in BOOLEAN /\ MaxGeneration \in Nat
ASSUME NoneIsNothing == None \notin Fresh \cup PlanIds

VARIABLES
  staging,    \* the directory restore() prepares or removes, and those that were left
  restored,   \* the destination it publishes
  archive,    \* per peer the archived certificate and generation, and the journal
  plan,       \* plan[f]: the recovery plan of a fresh state
  gate,       \* gate[f]: the metadata rows recovery_origin and recovery_activation
  pinned,     \* pinned[f][p]: the fresh state's peers and peer_keys
  trust,      \* trust[p][d]: the peer's peers table
  generation, \* generation[p]: the peer's own key
  approvals,  \* approvals[p]: its recovery_approvals
  files,      \* request and approval files
  fenced      \* the control service's replacement of the old principal

recoveryVars == <<staging, restored, archive, plan, gate, pinned, trust, generation, approvals, files, fenced>>

Gens == 0..MaxGeneration
NoGen == MaxGeneration + 1  \* a generation that is not said
Classes == {"unknown", "already_processed", "not_processed"}
(* What a directory has in it, and whether its removal was begun.          *)
Pieces == {"marker", "identity", "tombstone"}
Dirs == SUBSET Pieces
Staged == [has : Dirs, removing : BOOLEAN]
Stagings == [now : Staged, left : SUBSET Staged]
NoStaging == [has |-> {}, removing |-> FALSE]
Request == [kind : {"request"}, id : PlanIds, new : Fresh, peer : Peers, routes : Routes]
Approval == [kind : {"approval"}, id : PlanIds, new : Fresh, peer : Peers, cert : Gens,
             generation : Gens \cup {NoGen}]
NoPlan == [id |-> None, status |-> None, control |-> None, items |-> [p \in Peers |-> "pending"],
           effects |-> [e \in Effects |-> "unknown"], operations |-> {}]
Unpinned == [status |-> "none", cert |-> 0, generation |-> 0]

RecoveryTypeOK ==
  /\ staging \in Stagings /\ restored \in Dirs
  /\ archive.generation \in [Peers -> Gens \cup {NoGen}] /\ archive.cert \in [Peers -> Gens]
  /\ archive.effects \in [Effects -> Classes]
  /\ \A f \in Fresh : /\ plan[f].status \in {None, "pending", "active"}
                      /\ plan[f].items \in [Peers -> {"pending", "committed"}]
                      /\ plan[f].effects \in [Effects -> Classes]
                      /\ plan[f].id = None <=> gate[f] = "clean"
  /\ gate \in [Fresh -> {"clean", "origin", "activated"}]
  /\ trust \in [Peers -> [Fresh \cup {Old} -> {"none", "paired", "revoked"}]]
  /\ generation \in [Peers -> Gens]
  /\ \A p \in Peers : \A a, b \in approvals[p] : a.request.id = b.request.id => a = b
  /\ files \subseteq Request \cup Approval
  /\ fenced \in Fresh \cup {None}

(* At the backup each peer's certificate was of some generation; a plan    *)
(* begun by an older release does not say which.                           *)
RecoveryInit ==
  /\ staging = [now |-> NoStaging, left |-> {}] /\ restored = {}
  /\ generation \in [Peers -> Gens]
  /\ \E known \in BOOLEAN : \E unknown \in SUBSET Effects :
       archive = [cert |-> generation,
                  generation |-> [p \in Peers |-> IF known THEN generation[p] ELSE NoGen],
                  effects |-> [e \in Effects |-> IF e \in unknown THEN "unknown" ELSE "already_processed"]]
  /\ plan = [f \in Fresh |-> NoPlan]
  /\ gate = [f \in Fresh |-> "clean"]
  /\ pinned = [f \in Fresh |-> [p \in Peers |-> Unpinned]]
  /\ trust = [p \in Peers |-> [d \in Fresh \cup {Old} |-> IF d = Old THEN "paired" ELSE "none"]]
  /\ approvals = [p \in Peers |-> {}]
  /\ files = {} /\ fenced = None

----------------------------------------------------------------------------
(* lifecycle.restore: a new staging directory is marked incomplete,        *)
(* filled, given its tombstone, unmarked and renamed.  An error anywhere   *)
(* has it removed, file by file in any order; a kill leaves what is there, *)
(* also what a removal had not come to.                                    *)

NextStage(d) ==
  CASE d = {} -> {"marker"}
    [] d = {"marker"} -> {"marker", "identity"}
    [] d = {"marker", "identity"} -> {"marker", "identity", "tombstone"}
    [] OTHER -> {"identity", "tombstone"}
Unmarked == {"identity", "tombstone"}
AfterRestoring == <<archive, plan, gate, pinned, trust, generation, approvals, files, fenced>>

Stage ==
  /\ restored = {} /\ ~staging.now.removing /\ staging.now.has # Unmarked
  /\ staging' = [staging EXCEPT !.now = [has |-> NextStage(staging.now.has), removing |-> FALSE]]
  /\ UNCHANGED restored /\ UNCHANGED AfterRestoring

PublishRestored ==
  /\ restored = {} /\ ~staging.now.removing /\ staging.now.has = Unmarked
  /\ restored' = staging.now.has /\ staging' = [staging EXCEPT !.now = NoStaging]
  /\ UNCHANGED AfterRestoring

RestoreFails ==
  /\ staging.now.has # {} /\ ~staging.now.removing
  /\ staging' = [staging EXCEPT !.now = [has |-> staging.now.has, removing |-> TRUE]]
  /\ UNCHANGED restored /\ UNCHANGED AfterRestoring

Removes(x) ==
  /\ staging.now.removing /\ x \in staging.now.has
  /\ LET rest == staging.now.has \ {x} IN
     staging' = [staging EXCEPT !.now = [has |-> rest, removing |-> rest # {}]]
  /\ UNCHANGED restored /\ UNCHANGED AfterRestoring

RestoreKilled ==
  /\ staging.now.has # {}
  /\ staging' = [now |-> NoStaging, left |-> staging.left \cup {staging.now}]
  /\ UNCHANGED restored /\ UNCHANGED AfterRestoring

(* Store.__init__ refuses a marked directory; recovery_required holds with *)
(* the tombstone, or while a plan has begun and is not activated.          *)
Openable(dir) == "identity" \in dir /\ "marker" \notin dir
Gated(f) == gate[f] = "origin"

----------------------------------------------------------------------------
(* The fresh state.                                                        *)

Rest == <<staging, restored, archive, generation, fenced>>

(* begin(): an empty state takes the archived peers and journal over; a    *)
(* repetition with the same id is answered, another one refused.           *)
BeginRecovery(f, id) ==
  /\ Openable(restored)
  /\ plan[f].id = None
  /\ \A p \in Peers : pinned[f][p].status = "none"
  /\ plan' = [plan EXCEPT ![f] = [id |-> id, status |-> "pending", control |-> "pending",
                                  items |-> [p \in Peers |-> "pending"],
                                  effects |-> archive.effects, operations |-> {}]]
  /\ gate' = [gate EXCEPT ![f] = "origin"]
  /\ UNCHANGED <<pinned, trust, approvals, files>> /\ UNCHANGED Rest

(* Ordinary pairing, which a plan under way forbids.                       *)
Pair(f, p) ==
  /\ ~Gated(f)
  /\ pinned[f][p].status = "none" /\ trust[p][f] = "none"
  /\ pinned' = [pinned EXCEPT ![f][p] = [status |-> "paired", cert |-> generation[p], generation |-> generation[p]]]
  /\ trust' = [trust EXCEPT ![p][f] = "paired"]
  /\ UNCHANGED <<plan, gate, approvals, files>> /\ UNCHANGED Rest

(* reconcile(): one operation id stands for one classification.            *)
Reconcile(f, op, e, c) ==
  /\ plan[f].id # None
  /\ \A x \in plan[f].operations : x.op # op
  /\ plan' = [plan EXCEPT ![f].effects[e] = c,
                          ![f].operations = @ \cup {[op |-> op, effect |-> e, class |-> c]}]
  /\ UNCHANGED <<gate, pinned, trust, approvals, files>> /\ UNCHANGED Rest

(* peer_request(): signed anew each time, for any routes.                  *)
MakeRequest(f, p, r) ==
  LET q == [kind |-> "request", id |-> plan[f].id, new |-> f, peer |-> p, routes |-> r] IN
  /\ plan[f].id # None /\ q \notin files
  /\ files' = files \cup {q}
  /\ UNCHANGED <<plan, gate, pinned, trust, approvals>> /\ UNCHANGED Rest

(* peer_commit(): the certificate has to be the archived one, and its      *)
(* generation known: from the approval, from the archive, or zero when the *)
(* certificate is the one the principal is named after.                    *)
KnownGenerations(a) == {g \in {a.generation, archive.generation[a.peer]} : g # NoGen}
GenerationOf(a) == IF KnownGenerations(a) = {} /\ a.cert = 0 THEN {0} ELSE KnownGenerations(a)
Acceptable(f, a) ==
  /\ a.id = plan[f].id /\ a.new = f
  /\ a.cert = archive.cert[a.peer]
  /\ Cardinality(GenerationOf(a)) = 1
Recommit(f, a) == plan[f].items[a.peer] = "pending"
CommitApproval(f, a) ==
  /\ a.kind = "approval" /\ a \in files
  /\ Acceptable(f, a) /\ Recommit(f, a)
  /\ pinned' = [pinned EXCEPT ![f][a.peer] = [status |-> "paired", cert |-> a.cert, generation |-> CHOOSE g \in GenerationOf(a) : TRUE]]
  /\ plan' = [plan EXCEPT ![f].items[a.peer] = "committed"]
  /\ UNCHANGED <<gate, trust, approvals, files>> /\ UNCHANGED Rest

(* recovery-fence: the control service replaces a principal once, for one  *)
(* operation id, and repeats its receipt.                                  *)
Fence(f) ==
  /\ Managed /\ plan[f].id # None /\ fenced \in {None, f}
  /\ fenced' = f
  /\ plan' \in {plan, [plan EXCEPT ![f].control = "committed"]}
  /\ UNCHANGED <<staging, restored, archive, gate, pinned, trust, generation, approvals, files>>

(* activate(): no gate but the activation itself is left.                  *)
Gates(f) ==
  {p \in Peers : plan[f].items[p] # "committed"} \cup {e \in Effects : plan[f].effects[e] = "unknown"}
  \cup (IF Managed /\ plan[f].control # "committed" THEN {"control"} ELSE {})
Activate(f) ==
  /\ Openable(restored) /\ plan[f].status = "pending" /\ Gates(f) = {}
  /\ plan' = [plan EXCEPT ![f].status = "active"]
  /\ gate' = [gate EXCEPT ![f] = "activated"]
  /\ UNCHANGED <<pinned, trust, approvals, files>> /\ UNCHANGED Rest

RevokePeer(f, p) ==
  /\ pinned[f][p].status = "paired"
  /\ pinned' = [pinned EXCEPT ![f][p].status = "revoked"]
  /\ UNCHANGED <<plan, gate, trust, approvals, files>> /\ UNCHANGED Rest

----------------------------------------------------------------------------
(* A peer.                                                                 *)

(* peer_approve(): a request seen before gets the stored answer, a         *)
(* different one under the same operation id is refused.  Otherwise the    *)
(* old principal is revoked and the new one paired in one transaction.     *)
Prior(p, q) == {a \in approvals[p] : a.request.id = q.id}
OldKnown(p) == trust[p][Old] \in {"paired", "revoked"}
AfterApprovalMutant(p, q) == [trust[p] EXCEPT ![q.new] = "paired"]
AfterApproval(p, q) == [trust[p] EXCEPT ![Old] = "revoked", ![q.new] = "paired"]
Unknown(p, q) == trust[p][q.new] = "none"
ApprovalOf(p, q, version) ==
  [kind |-> "approval", id |-> q.id, new |-> q.new, peer |-> p, cert |-> generation[p],
   generation |-> IF version = 2 THEN generation[p] ELSE NoGen]
(* The file may not be written any more; an older peer answers without its *)
(* generation.                                                             *)
Saved(a) == files' \in {files, files \cup {a}}
Approve(p, q, version) ==
  /\ q \in files /\ q.kind = "request" /\ q.peer = p
  /\ \/ \E a \in Prior(p, q) : a.request = q /\ Saved(a.response) /\ UNCHANGED <<approvals, trust>>
     \/ /\ Prior(p, q) = {} /\ OldKnown(p) /\ Unknown(p, q)
        /\ trust' = [trust EXCEPT ![p] = AfterApproval(p, q)]
        /\ approvals' = [approvals EXCEPT ![p] = @ \cup {[request |-> q, response |-> ApprovalOf(p, q, version)]}]
        /\ Saved(ApprovalOf(p, q, version))
  /\ UNCHANGED <<plan, gate, pinned>> /\ UNCHANGED Rest

Revoke(p, d) ==
  /\ trust[p][d] = "paired"
  /\ trust' = [trust EXCEPT ![p][d] = "revoked"]
  /\ UNCHANGED <<plan, gate, pinned, approvals, files>> /\ UNCHANGED Rest

(* The peer rotates its own key, with the devices it still has.            *)
PeerRotates(p) ==
  /\ generation[p] < MaxGeneration
  /\ generation' = [generation EXCEPT ![p] = @ + 1]
  /\ UNCHANGED <<staging, restored, archive, plan, gate, pinned, trust, approvals, files, fenced>>

RecoveryNext ==
  \/ Stage \/ PublishRestored \/ RestoreFails \/ RestoreKilled \/ \E x \in Pieces : Removes(x)
  \/ \E f \in Fresh :
       \/ \E id \in PlanIds : BeginRecovery(f, id)
       \/ \E op \in ReconIds, e \in Effects, c \in Classes : Reconcile(f, op, e, c)
       \/ \E p \in Peers : Pair(f, p) \/ RevokePeer(f, p) \/ \E r \in Routes : MakeRequest(f, p, r)
       \/ \E a \in files : CommitApproval(f, a)
       \/ Fence(f) \/ Activate(f)
  \/ \E p \in Peers :
       \/ PeerRotates(p)
       \/ \E d \in Fresh \cup {Old} : Revoke(p, d)
       \/ \E q \in files, version \in {1, 2} : Approve(p, q, version)

RecoverySpec == RecoveryInit /\ [][RecoveryNext]_recoveryVars

----------------------------------------------------------------------------
(* Properties.                                                             *)

(* A fresh identity that acts has replaced the old one everywhere the      *)
(* archive knows: each archived peer has revoked the old principal and     *)
(* taken the fresh one, and the control service too, however the commands  *)
(* and files were ordered, lost and repeated.                              *)
ActiveMeansFenced ==
  \A f \in Fresh : gate[f] = "activated" =>
    /\ Managed => fenced = f
    /\ \A p \in Peers : trust[p][Old] = "revoked" /\ trust[p][f] # "none" /\ pinned[f][p].status # "none"

(* A managed principal is replaced once: of several recoveries begun from  *)
(* the same archive, under the same or different ids, one becomes active.  *)
ReplacedOnce == Managed => \A f, g \in Fresh : gate[f] = "activated" /\ gate[g] = "activated" => f = g

(* What a fresh state pins is a certificate with its true generation, also *)
(* from an approval or an archive that does not say it: the peer's next    *)
(* rotation stays sequential.                                              *)
GenerationsTrue ==
  \A f \in Fresh : \A p \in Peers :
    pinned[f][p].status # "none" => pinned[f][p].generation = pinned[f][p].cert

(* Repeated approvals and commits revive nobody: what was revoked, at a    *)
(* peer or in the fresh state, stays revoked.                              *)
RevocationSticks ==
  [][/\ \A p \in Peers : \A d \in Fresh \cup {Old} : trust[p][d] = "revoked" => trust'[p][d] = "revoked"
     /\ \A f \in Fresh : \A p \in Peers :
          pinned[f][p].status = "revoked" => pinned'[f][p].status = "revoked"]_recoveryVars

(* Wherever restore() is killed, what can be opened with the old identity  *)
(* in it is in quarantine: what it publishes always, whatever failed       *)
(* before, and what it prepares or leaves, unless an error had begun the   *)
(* removal.  An interrupted removal may leave the identity without its     *)
(* marker and its tombstone, under a name that nothing else uses.          *)
NeverHalfRestored ==
  /\ Openable(restored) => "tombstone" \in restored
  /\ \A d \in {staging.now} \cup staging.left : Openable(d.has) /\ ~d.removing => "tombstone" \in d.has

(* What a recovery guarantees: an active identity has replaced the old one *)
(* everywhere and alone, pins what is true, a restored directory is in     *)
(* quarantine, also one a kill left half prepared, and nobody who was      *)
(* revoked comes back.                                                     *)
RecoverySafe ==
  /\ [](/\ RecoveryTypeOK
        /\ ActiveMeansFenced
        /\ ReplacedOnce
        /\ GenerationsTrue
        /\ NeverHalfRestored)
  /\ RevocationSticks
=============================================================================
