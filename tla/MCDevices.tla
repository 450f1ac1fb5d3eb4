------------------------------ MODULE MCDevices ------------------------------
(* One instance of each of four parts: the two ends of a channel to a      *)
(* peer, the approved recovery of a restored identity, the rotation of      *)
(* identities, and the process of the control service that devices register *)
(* with.  A behaviour is about one of them, chosen at the start; the others *)
(* stay as they began.  Recovery is explored in three directions: restores  *)
(* of the archive that fail and are killed, with no peer; one fresh state   *)
(* with everything that can happen to it; and two that compete for the same *)
(* archive, whose peers then keep their keys and whose effects are all      *)
(* known.  The service is explored with every database and two          *)
(* migrations without time ("schema"), and with a database that is ready,   *)
(* one migration, and time ("beat").                                        *)
EXTENDS RouteSelection, Recovery, Rotation, ControlProcess

CONSTANT Scopes    \* the parts a run is about
VARIABLE scope

MCStrangers == {<<"direct", 9>>, <<"relay", 9>>}
MCPreauth == [k \in Kinds |-> 1]

Stored(relay, marker, revision, rows, versions) ==
  [relay |-> relay, ledgerTable |-> versions # {}, indexes |-> relay = "all", odd |-> FALSE, marker |-> marker,
   revision |-> revision, rows |-> rows, legacy |-> FALSE, versions |-> versions, whole |-> TRUE]
Alpha == Stored("all", "zero_based_v1", "used", TRUE, {})
UpToDate == [Alpha EXCEPT !.ledgerTable = TRUE, !.versions = {1}]
MCDatabases ==
  {Stored("none", "none", "none", FALSE, {}), Alpha, UpToDate,
   [Alpha EXCEPT !.marker = "none"], [Alpha EXCEPT !.revision = "none"], [Alpha EXCEPT !.revision = "bad"],
   [Alpha EXCEPT !.legacy = TRUE], [Alpha EXCEPT !.odd = TRUE], [UpToDate EXCEPT !.versions = {1, 2}],
   [UpToDate EXCEPT !.indexes = FALSE], [UpToDate EXCEPT !.whole = FALSE], [UpToDate EXCEPT !.legacy = TRUE]}

(* The states named in A begin under plan id x, the others under y.         *)
PlansBegun(A) == \A f \in Fresh : plan'[f].id \in {None, IF f \in A THEN "x" ELSE "y"}
FirstKeys == generation = [p \in Peers |-> 0]
MCInit ==
  /\ scope \in Scopes
  /\ RouteInit /\ RecoveryInit /\ RotationInit /\ ProcessInit
  /\ scope # "route" => ~listener
  /\ scope = "recovery" => generation["q"] = 0
  /\ scope # "recovery" => FirstKeys /\ archive.generation = generation
  /\ scope # "recovery" => \A e \in Effects : archive.effects[e] = "already_processed"
  /\ IF scope = "beat" THEN setting.deadline # 0 /\ (setting.listeners = {"main"} <=> setting.deadline > 3)
     ELSE setting = [deadline |-> 0, listeners |-> {"main"}]
  /\ scope # "schema" => database = UpToDate

(* One other client, by either route.                                       *)
RouteScope ==
  /\ RouteNext /\ UNCHANGED <<recoveryVars, rotationVars, controlProcessVars>>
  /\ \E c \in Strangers : \A other \in Strangers \ {c} : far'[other].pc = "none"
RecoveryScope ==
  /\ RecoveryNext /\ UNCHANGED <<routeVars, rotationVars, controlProcessVars>>
  /\ IF scope = "restore" THEN UNCHANGED <<pinned, trust, generation, files, fenced>> /\ plan'["g"] = NoPlan /\ plan'["f"].operations = {}
     ELSE staging'.left = {} /\ ~staging'.now.removing
  /\ scope = "recovery" =>
       /\ gate'["g"] = "clean" /\ \A p \in Peers : trust'[p]["g"] = "none"
       /\ PlansBegun(Fresh)
  /\ scope = "rivals" =>
       /\ FirstKeys' /\ PlansBegun({"f"})
       /\ \A f \in Fresh, p \in Peers : pinned'[f][p].status # "revoked" /\ trust'[p][f] # "revoked"
       /\ \A f \in Fresh : plan'[f].operations = {}
ServiceScope ==
  /\ ProcessNext /\ UNCHANGED <<routeVars, recoveryVars, rotationVars>>
  /\ scope = "schema" => process'.refresh \in {0, RefreshTime}
  /\ scope = "beat" =>
       /\ migration'["m2"].pc = "idle" /\ systemd'.launches <= 1
       /\ setting.deadline > 3 => ~process'.stopped /\ systemd'.state # "stopping"
MCNext ==
  /\ scope' = scope
  /\ \/ scope = "route" /\ RouteScope
     \/ scope \in {"restore", "recovery", "rivals"} /\ RecoveryScope
     \/ scope = "rotation" /\ RotationNext /\ UNCHANGED <<routeVars, recoveryVars, controlProcessVars>>
     \/ scope \in {"schema", "beat"} /\ ServiceScope

MCSpec == MCInit /\ [][MCNext]_<<scope, routeVars, recoveryVars, rotationVars, controlProcessVars>>
=============================================================================
