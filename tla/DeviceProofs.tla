----------------------------- MODULE DeviceProofs -----------------------------
(***************************************************************************)
(* Proofs about a device and those it meets: the control service's         *)
(* register of devices and the relay's view of it (ControlPlane), the      *)
(* exchange over two routes with the receiver's admission                  *)
(* (RouteSelection), the recovery of a lost identity (Recovery), the       *)
(* rotation of keys (Rotation), and the control service as a process       *)
(* (ControlProcess).                                                       *)
(***************************************************************************)
EXTENDS ControlPlane, RouteSelection, Recovery, Rotation, ControlProcess, FiniteSetTheorems, SequenceTheorems, WellFoundedInduction, TLAPS

-----------------------------------------------------------------------------
(* The control service's register and the relay's view of it.              *)

RegisterShapes ==
  /\ DOMAIN db = {"devices", "reserved", "committed", "challenges"}
  /\ DOMAIN control = {"pc", "change", "healthy", "floor"}
  /\ DOMAIN file = {"revision", "devices"}
  /\ DOMAIN replay = {"revision", "devices", "spent", "notBefore"}
  /\ DOMAIN admitted = 1..MaxTickets
  /\ IsFiniteSet(replay.spent)

(* A map of the devices that a register with the rows m may come to: a     *)
(* revocation stays, a generation does not come back.                      *)
Onward(m, n) ==
  \A d \in Principals :
    /\ m[d].status = "revoked" => n[d].status = "revoked"
    /\ m[d].status # "absent" => n[d].status # "absent"
    /\ m[d].gen <= n[d].gen

RowsRight ==
  /\ db.devices \in DeviceMap
  /\ db.reserved \subseteq Operations /\ db.committed \subseteq db.reserved
  /\ db.challenges \subseteq Challenges
  /\ \A d \in Principals : Device(d).status = "absent" => Device(d).gen = 0
  /\ OperationsTakeEffectOnce

(* The revisions on their way from the reservation to the file.            *)
RevisionRight ==
  /\ revision \in Revisions /\ control.floor \in Revisions /\ file.revision \in Revisions
  /\ control.pc \in {"down", "idle", "reserved", "published"}
  /\ control.change \in Change /\ control.healthy \in BOOLEAN
  /\ control.change.what = "operation" => control.change.op \in db.reserved
  /\ file.revision <= revision
  /\ control.pc = "reserved" => file.revision < revision
  /\ control.pc = "published" => file.revision = revision /\ file.devices = Snapshot
  /\ control.healthy => control.pc = "idle" /\ file.devices = db.devices /\ file.revision = revision

FileRight ==
  /\ file.devices \in DeviceMap /\ Onward(db.devices, file.devices)
  /\ file.revision = 0 => file.devices = EnrolledMap

TicketRight(t) ==
  /\ t \in Ticket /\ t.iat <= epoch
  /\ t.gen <= Device(t.dev).gen /\ Device(t.dev).status # "absent" /\ Device(t.recv).status # "absent"
TicketsRight ==
  /\ epoch \in 0..MaxEpoch
  /\ tickets \in Seq(Ticket)
  /\ \A t \in signing : TicketRight(t)
  /\ \A n \in 1..Len(tickets) : TicketRight(tickets[n])

(* A ticket that has given a session is spent, or it cannot count any more.*)
ReplayRight ==
  /\ NotRolledBack
  /\ replay.revision \in Revisions /\ replay.devices \in DeviceMap
  /\ replay.spent \subseteq 1..Len(tickets) /\ Cardinality(replay.spent) <= MaxSpent
  /\ replay.notBefore \in 0..(MaxEpoch + 1)
  /\ \A n \in 1..MaxTickets :
       /\ admitted[n] \in {0, 1}
       /\ admitted[n] = 1 => /\ n \in 1..Len(tickets)
                             /\ n \in replay.spent \/ epoch > tickets[n].iat + 1 \/ tickets[n].iat < replay.notBefore

RegisterInv == RegisterShapes /\ RowsRight /\ RevisionRight /\ FileRight /\ TicketsRight /\ ReplayRight /\ receipts \subseteq Operations

LEMMA ChangeKinds ==
  ASSUME NEW c \in Change
  PROVE  \/ c.what = "refresh"
         \/ c.what = "revoke" /\ c.principal \in Principals
         \/ c.what = "operation" /\ c.op \in Operations
  BY DEF Change

LEMMA OperationKinds ==
  ASSUME NEW o \in Operations
  PROVE  \/ /\ o.kind = "register" /\ o.principal \in Principals /\ o.gen \in Nat
            /\ o = [kind |-> "register", principal |-> o.principal, gen |-> o.gen]
         \/ o.kind = "recover" /\ o.principal \in Principals /\ o.old \in Principals /\ o.old # o.principal
  BY OperationsAssumption DEF Registration, Recovery

LEMMA RowWritten ==
  ASSUME NEW m \in DeviceMap, NEW d \in Principals, NEW row \in Row
  PROVE  /\ [m EXCEPT ![d] = row] \in DeviceMap /\ [m EXCEPT ![d] = row][d] = row
         /\ \A e \in Principals \ {d} : [m EXCEPT ![d] = row][e] = m[e]
  BY DEF DeviceMap

LEMMA RowRevoked ==
  ASSUME NEW m \in DeviceMap, NEW d \in Principals
  PROVE  /\ Revoked(m, d) \in DeviceMap
         /\ Revoked(m, d)[d].status = "revoked" /\ Revoked(m, d)[d].gen = m[d].gen
         /\ \A e \in Principals \ {d} : Revoked(m, d)[e] = m[e]
<1>1. m[d] \in Row BY DEF DeviceMap
<1>2. PICK row : row = [m[d] EXCEPT !.status = "revoked"]
  OBVIOUS
<1>3. row \in Row /\ row.status = "revoked" /\ row.gen = m[d].gen BY <1>1, <1>2 DEF Row
<1>4. Revoked(m, d) = [m EXCEPT ![d] = row] BY <1>2 DEF Revoked, DeviceMap
<1>5. PICK n : n = [m EXCEPT ![d] = row]
  OBVIOUS
<1>6. n \in DeviceMap /\ n[d] = row /\ \A e \in Principals \ {d} : n[e] = m[e]
  BY <1>3, <1>5 DEF DeviceMap
<1>7. QED BY <1>3, <1>4, <1>5, <1>6

LEMMA OnwardSame == ASSUME NEW m \in DeviceMap PROVE Onward(m, m)
<1>1. \A d \in Principals : m[d].gen \in Nat BY DEF DeviceMap, Row
<1>2. QED BY <1>1 DEF Onward

(* What a request or an operation that goes through makes of the rows.     *)
LEMMA OperatedRight ==
  ASSUME RegisterInv, NEW o \in Operations, o \notin db.committed, Valid(o), o \in db.reserved,
         NEW new, new = Operated(o)
  PROVE  /\ DOMAIN new = DOMAIN db /\ new.devices \in DeviceMap /\ Onward(db.devices, new.devices)
         /\ new.reserved = db.reserved /\ new.committed = db.committed \cup {o} /\ new.challenges \subseteq db.challenges
         /\ \A d \in Principals : new.devices[d].status = "absent" => new.devices[d].gen = 0
         /\ \A d \in Principals \ {o.principal} : new.devices[d].gen = db.devices[d].gen
         /\ \A d \in Principals \ {o.principal} : new.devices[d].status = "absent" <=> db.devices[d].status = "absent"
         /\ new.devices[o.principal].status = "active"
         /\ \/ o.kind = "register" /\ new.devices[o.principal].gen = o.gen
               /\ (o.gen = 0 \/ o.gen = db.devices[o.principal].gen + 1)
            \/ o.kind = "recover" /\ new.devices[o.principal].gen = 0 /\ new.devices[o.old].status = "revoked"
               /\ Replaced(o.old) = {}
<1>1. /\ db.devices \in DeviceMap
      /\ DOMAIN db = {"devices", "reserved", "committed", "challenges"}
      /\ \A d \in Principals : db.devices[d].status = "absent" => db.devices[d].gen = 0
      /\ \A d \in Principals : db.devices[d].gen \in Nat
  BY DEF RegisterInv, RowsRight, RegisterShapes, Device, DeviceMap, Row
<1>2. PICK p \in Principals : p = o.principal BY OperationKinds
<1>3. PICK row : row = [status |-> "active", gen |-> IF o.kind = "register" THEN o.gen ELSE 0]
  OBVIOUS
<1>4. row \in Row /\ row.status = "active" /\ row.gen = IF o.kind = "register" THEN o.gen ELSE 0
  BY <1>3, OperationKinds DEF Row
<1>5. PICK kept : kept = IF o.kind = "recover" THEN Revoked(db.devices, o.old) ELSE db.devices
  OBVIOUS
<1>6. /\ kept \in DeviceMap
      /\ \A d \in Principals : kept[d].gen = db.devices[d].gen
      /\ o.kind = "recover" => kept[o.old].status = "revoked" /\ kept[p] = db.devices[p]
      /\ \A d \in Principals : kept[d] = db.devices[d] \/ (o.kind = "recover" /\ d = o.old /\ kept[d].status = "revoked")
  <2>1. CASE o.kind = "recover"
    <3>1. PICK q \in Principals : q = o.old /\ q # p BY <1>2, <2>1, OperationKinds
    <3>2. kept = Revoked(db.devices, q) BY <1>5, <2>1, <3>1
    <3>3. /\ kept \in DeviceMap /\ kept[q].status = "revoked" /\ kept[q].gen = db.devices[q].gen
          /\ \A e \in Principals \ {q} : kept[e] = db.devices[e]
      BY <1>1, <3>2, RowRevoked
    <3>4. QED BY <2>1, <3>1, <3>3
  <2>2. CASE o.kind # "recover" BY <1>1, <1>5, <2>2
  <2>3. QED BY <2>1, <2>2
<1>7. new.devices = [kept EXCEPT ![p] = row] /\ new.reserved = db.reserved /\ new.committed = db.committed \cup {o}
      /\ new.challenges \subseteq db.challenges /\ DOMAIN new = DOMAIN db
  BY <1>1, <1>2, <1>3, <1>5 DEF Operated
<1>8. /\ new.devices \in DeviceMap /\ new.devices[p] = row
      /\ \A d \in Principals \ {p} : new.devices[d] = kept[d]
  BY <1>4, <1>6, <1>7, RowWritten
<1>9. CASE o.kind = "register"
  <2>1. /\ row.gen = o.gen /\ o.gen \in Nat
        /\ \/ db.devices[p].status = "active" /\ o.gen = db.devices[p].gen + 1
           \/ db.devices[p].status = "absent" /\ o.gen = 0
    BY <1>2, <1>4, <1>9, OperationKinds DEF Valid, ValidRegistration, Device
  <2>2. /\ \A d \in Principals \ {p} : new.devices[d] = db.devices[d]
        /\ new.devices[p].gen = o.gen /\ new.devices[p].status = "active"
    BY <1>4, <1>6, <1>8, <1>9, <2>1
  <2>3. Onward(db.devices, new.devices) BY <1>1, <2>1, <2>2 DEF Onward
  <2>4. QED BY <1>1, <1>2, <1>7, <1>8, <1>9, <2>1, <2>2, <2>3
<1>10. CASE o.kind = "recover"
  <2>1. /\ db.devices[o.old].status # "absent" /\ Replaced(o.old) \subseteq {o} /\ db.devices[p].status = "absent"
        /\ o.old \in Principals /\ o.old # p
    BY <1>2, <1>10, OperationKinds DEF Valid, ValidRecovery, Device
  <2>2. Replaced(o.old) = {} BY <2>1 DEF Replaced
  <2>3. /\ new.devices[p].gen = 0 /\ new.devices[p].status = "active" /\ db.devices[p].gen = 0
        /\ new.devices[o.old].status = "revoked"
        /\ \A d \in Principals \ {p} : new.devices[d].gen = db.devices[d].gen
        /\ \A d \in Principals \ {p, o.old} : new.devices[d] = db.devices[d]
    BY <1>1, <1>4, <1>6, <1>8, <1>10, <2>1
  <2>4. Onward(db.devices, new.devices) BY <1>1, <2>1, <2>3 DEF Onward
  <2>5. /\ \A d \in Principals : new.devices[d].status = "absent" => new.devices[d].gen = 0
        /\ \A d \in Principals \ {p} : new.devices[d].status = "absent" <=> db.devices[d].status = "absent"
    BY <1>1, <2>1, <2>3
  <2>6. QED BY <1>2, <1>7, <1>8, <1>10, <2>2, <2>3, <2>4, <2>5
<1>11. QED BY <1>9, <1>10, OperationKinds

(* A change that goes through leaves the rows right.                       *)
ChangedRight(new) ==
  /\ DOMAIN new = DOMAIN db /\ new.devices \in DeviceMap /\ Onward(db.devices, new.devices)
  /\ new.reserved = db.reserved /\ db.committed \subseteq new.committed /\ new.committed \subseteq new.reserved
  /\ new.challenges \subseteq db.challenges
  /\ \A d \in Principals : new.devices[d].status = "absent" => new.devices[d].gen = 0
LEMMA GoesRight ==
  ASSUME RegisterInv, NEW c \in Change, c.what = "operation" => c.op \in db.reserved, Goes(c)
  PROVE  ChangedRight(Changed(c))
<1>1. /\ db.devices \in DeviceMap /\ db.committed \subseteq db.reserved
      /\ DOMAIN db = {"devices", "reserved", "committed", "challenges"}
      /\ \A d \in Principals : db.devices[d].status = "absent" => db.devices[d].gen = 0
      /\ \A d \in Principals : db.devices[d].gen \in Nat
  BY DEF RegisterInv, RowsRight, RegisterShapes, Device, DeviceMap, Row
<1>2. PICK new : new = Changed(c)
  OBVIOUS
<1>3. CASE c.what = "refresh"
  <2>1. new = db BY <1>2, <1>3 DEF Changed
  <2>2. QED BY <1>1, <1>2, <2>1, OnwardSame DEF ChangedRight
<1>4. CASE c.what = "revoke" /\ c.principal \in Principals
  <2>1. PICK q \in Principals : q = c.principal BY <1>4
  <2>2. new = [db EXCEPT !.devices = Revoked(@, q), !.challenges = {}] /\ db.devices[q].status # "absent"
    BY <1>2, <1>4, <2>1 DEF Changed, Goes, Device
  <2>3. new.devices = Revoked(db.devices, q) /\ new.reserved = db.reserved /\ new.committed = db.committed
        /\ new.challenges = {} /\ DOMAIN new = DOMAIN db
    BY <1>1, <2>2
  <2>4. /\ new.devices \in DeviceMap
        /\ new.devices[q].status = "revoked" /\ new.devices[q].gen = db.devices[q].gen
        /\ \A e \in Principals \ {q} : new.devices[e] = db.devices[e]
    BY <1>1, <2>3, RowRevoked
  <2>5. Onward(db.devices, new.devices) BY <1>1, <2>4 DEF Onward
  <2>6. \A d \in Principals : new.devices[d].status = "absent" => new.devices[d].gen = 0
    BY <1>1, <2>2, <2>4
  <2>7. QED BY <1>1, <1>2, <2>3, <2>4, <2>5, <2>6 DEF ChangedRight
<1>5. CASE c.what = "operation" /\ c.op \in Operations
  <2>1. PICK o \in Operations : o = c.op BY <1>5
  <2>2. new = Operated(o) /\ o \notin db.committed /\ Valid(o) /\ o \in db.reserved
    BY <1>2, <1>5, <2>1 DEF Changed, Goes
  <2>3. /\ DOMAIN new = DOMAIN db /\ new.devices \in DeviceMap /\ Onward(db.devices, new.devices)
        /\ new.reserved = db.reserved /\ new.committed = db.committed \cup {o} /\ new.challenges \subseteq db.challenges
        /\ \A d \in Principals : new.devices[d].status = "absent" => new.devices[d].gen = 0
    BY <2>2, OperatedRight
  <2>4. QED BY <1>1, <1>2, <2>2, <2>3 DEF ChangedRight
<1>6. QED BY <1>3, <1>4, <1>5, ChangeKinds

(* ... and so leaves what operations have done.                            *)
Recovered(D, C) ==
  \A o \in C : o.kind = "recover" => /\ D[o.old].status = "revoked" /\ D[o.principal].status # "absent"
                                     /\ {c \in C : c.kind = "recover" /\ c.old = o.old} = {o}
Introduced(D, C) ==
  /\ \A d \in Principals \ Enrolled : D[d].status # "absent" => \E o \in C : o.principal = d
  /\ \A d \in Principals : \A g \in 1..D[d].gen : [kind |-> "register", principal |-> d, gen |-> g] \in C
LEMMA EffectsOf == OperationsTakeEffectOnce <=>
  receipts \subseteq db.committed /\ Recovered(db.devices, db.committed) /\ Introduced(db.devices, db.committed)
  BY DEF OperationsTakeEffectOnce, Recovered, Introduced, Replaced, Device

LEMMA EffectsKept ==
  ASSUME RegisterInv, NEW c \in Change, c.what = "operation" => c.op \in db.reserved, Goes(c),
         NEW new, new = Changed(c)
  PROVE  Recovered(new.devices, new.committed) /\ Introduced(new.devices, new.committed)
<1>1. /\ Recovered(db.devices, db.committed) /\ Introduced(db.devices, db.committed)
      /\ db.committed \subseteq Operations /\ db.devices \in DeviceMap
      /\ \A d \in Principals : db.devices[d].gen \in Nat
      /\ DOMAIN db = {"devices", "reserved", "committed", "challenges"}
  BY EffectsOf DEF RegisterInv, RowsRight, RegisterShapes, DeviceMap, Row
<1>2. ChangedRight(new) BY GoesRight
<1>3. Onward(db.devices, new.devices) BY <1>2 DEF ChangedRight
<1>4. \A o \in db.committed : o.kind = "recover" => o.old \in Principals /\ o.principal \in Principals
  BY <1>1, OperationKinds
<1>5. ASSUME new.committed = db.committed, \A d \in Principals : new.devices[d].gen = db.devices[d].gen,
             \A d \in Principals : new.devices[d].status # "absent" => db.devices[d].status # "absent"
      PROVE  Recovered(new.devices, new.committed) /\ Introduced(new.devices, new.committed)
  <2>1. Recovered(new.devices, new.committed)
    BY <1>1, <1>3, <1>4, <1>5 DEF Recovered, Onward
  <2>2. Introduced(new.devices, new.committed) BY <1>1, <1>5 DEF Introduced
  <2>3. QED BY <2>1, <2>2
<1>6. CASE c.what = "refresh"
  <2>1. new = db BY <1>6 DEF Changed
  <2>2. QED BY <1>1, <2>1
<1>7. CASE c.what = "revoke" /\ c.principal \in Principals
  <2>1. PICK q \in Principals : q = c.principal BY <1>7
  <2>2. new = [db EXCEPT !.devices = Revoked(@, q), !.challenges = {}] /\ db.devices[q].status # "absent"
    BY <1>7, <2>1 DEF Changed, Goes, Device
  <2>3. new.devices = Revoked(db.devices, q) /\ new.committed = db.committed
    BY <1>1, <2>2
  <2>4. /\ new.devices[q].status = "revoked" /\ new.devices[q].gen = db.devices[q].gen
        /\ \A e \in Principals \ {q} : new.devices[e] = db.devices[e]
    BY <1>1, <2>3, RowRevoked
  <2>5. QED BY <1>5, <2>2, <2>3, <2>4
<1>8. CASE c.what = "operation" /\ c.op \in Operations
  <2>1. PICK o \in Operations : o = c.op BY <1>8
  <2>2. new = Operated(o) /\ o \notin db.committed /\ Valid(o) /\ o \in db.reserved
    BY <1>8, <2>1 DEF Changed, Goes
  <2>3. /\ new.committed = db.committed \cup {o}
        /\ \A d \in Principals \ {o.principal} : new.devices[d].gen = db.devices[d].gen
        /\ \A d \in Principals \ {o.principal} : new.devices[d].status = "absent" <=> db.devices[d].status = "absent"
        /\ new.devices[o.principal].status = "active"
        /\ \/ o.kind = "register" /\ new.devices[o.principal].gen = o.gen
              /\ (o.gen = 0 \/ o.gen = db.devices[o.principal].gen + 1)
           \/ o.kind = "recover" /\ new.devices[o.principal].gen = 0 /\ new.devices[o.old].status = "revoked"
              /\ Replaced(o.old) = {}
    BY <2>2, OperatedRight
  <2>4. Recovered(new.devices, new.committed)
    <3> SUFFICES ASSUME NEW r \in db.committed \cup {o}, r.kind = "recover"
                 PROVE  /\ new.devices[r.old].status = "revoked" /\ new.devices[r.principal].status # "absent"
                        /\ {k \in db.committed \cup {o} : k.kind = "recover" /\ k.old = r.old} = {r}
      BY <2>3 DEF Recovered
    <3>1. CASE r = o
      <4>1. {k \in db.committed : k.kind = "recover" /\ k.old = o.old} = {}
        BY <2>3, <3>1 DEF Replaced
      <4>2. QED BY <2>3, <3>1, <4>1
    <3>2. CASE r # o
      <4>1. r \in db.committed /\ r.old \in Principals /\ r.principal \in Principals
        BY <1>4, <3>2
      <4>2. /\ db.devices[r.old].status = "revoked" /\ db.devices[r.principal].status # "absent"
            /\ {k \in db.committed : k.kind = "recover" /\ k.old = r.old} = {r}
        BY <1>1, <4>1 DEF Recovered
      <4>3. o.kind = "recover" => o.old # r.old
        <5>1. r \in Replaced(r.old) BY <4>1 DEF Replaced
        <5>2. QED BY <2>3, <5>1
      <4>4. {k \in db.committed \cup {o} : k.kind = "recover" /\ k.old = r.old} = {r}
        BY <4>1, <4>2, <4>3
      <4>5. QED BY <1>3, <4>1, <4>2, <4>4 DEF Onward
    <3>3. QED BY <3>1, <3>2
  <2>5. ASSUME NEW d \in Principals \ Enrolled, new.devices[d].status # "absent"
        PROVE  \E k \in new.committed : k.principal = d
    <3>1. CASE d = o.principal BY <2>3, <3>1
    <3>2. CASE d # o.principal BY <1>1, <2>3, <2>5, <3>2 DEF Introduced
    <3>3. QED BY <3>1, <3>2
  <2>6. ASSUME NEW d \in Principals, NEW g \in 1..new.devices[d].gen
        PROVE  [kind |-> "register", principal |-> d, gen |-> g] \in new.committed
    <3>1. CASE d # o.principal BY <1>1, <2>3, <2>6, <3>1 DEF Introduced
    <3>2. CASE d = o.principal
      <4>1. PICK n \in Nat : n = db.devices[d].gen BY <1>1
      <4>2. PICK m : m = new.devices[d].gen
        OBVIOUS
      <4>3. g \in 1..m /\ (m = 0 \/ (m = n + 1 /\ o.kind = "register" /\ m = o.gen))
        BY <2>3, <2>6, <3>2, <4>1, <4>2
      <4>4. m # 0 BY <4>3
      <4>5. g \in 1..n \/ g = m BY <4>1, <4>3, <4>4
      <4>6. CASE g \in 1..n BY <1>1, <2>3, <4>1, <4>6 DEF Introduced
      <4>7. CASE g = m
        <5>1. o = [kind |-> "register", principal |-> d, gen |-> g]
          BY <3>2, <4>3, <4>4, <4>7, OperationKinds
        <5>2. QED BY <2>3, <5>1
      <4>8. QED BY <4>5, <4>6, <4>7
    <3>3. QED BY <3>1, <3>2
  <2>7. QED BY <2>4, <2>5, <2>6 DEF Introduced
<1>9. QED BY <1>6, <1>7, <1>8, ChangeKinds

(* What a step leaves right.                                               *)
LEMMA RowsKept ==
  ASSUME RegisterInv, UNCHANGED <<db, receipts>>
  PROVE  RowsRight'
  BY DEF RegisterInv, RowsRight, OperationsTakeEffectOnce, Device, Replaced

LEMMA TicketsStand ==
  ASSUME RegisterInv, NEW t, TicketRight(t), Onward(db.devices, db'.devices), db'.devices \in DeviceMap,
         epoch' \in Nat, epoch <= epoch'
  PROVE  TicketRight(t)'
<1>1. t \in Ticket /\ t.iat <= epoch /\ epoch \in Nat
      /\ t.gen <= db.devices[t.dev].gen /\ db.devices[t.dev].status # "absent" /\ db.devices[t.recv].status # "absent"
  BY ControlBounds DEF TicketRight, Device, RegisterInv, TicketsRight
<1>2. t.dev \in Principals /\ t.recv \in Principals /\ t.gen \in Nat /\ t.iat \in Nat
  BY <1>1, ControlBounds DEF Ticket
<1>3. db.devices[t.dev].gen <= db'.devices[t.dev].gen /\ db'.devices[t.dev].status # "absent"
      /\ db'.devices[t.recv].status # "absent"
  BY <1>1, <1>2 DEF Onward
<1>4. db.devices[t.dev].gen \in Nat /\ db'.devices[t.dev].gen \in Nat
  BY <1>2 DEF RegisterInv, RowsRight, DeviceMap, Row
<1>5. t.iat <= epoch' BY <1>1, <1>2
<1>6. t.gen <= db'.devices[t.dev].gen BY <1>1, <1>2, <1>3, <1>4
<1>7. QED BY <1>1, <1>3, <1>5, <1>6 DEF TicketRight, Device

LEMMA TicketsKept ==
  ASSUME RegisterInv, UNCHANGED <<tickets, epoch>>, signing' \subseteq signing, Onward(db.devices, db'.devices), db'.devices \in DeviceMap
  PROVE  TicketsRight'
<1>1. epoch \in 0..MaxEpoch /\ tickets \in Seq(Ticket) /\ (\A t \in signing : TicketRight(t))
      /\ (\A n \in 1..Len(tickets) : TicketRight(tickets[n]))
  BY DEF RegisterInv, TicketsRight
<1>2. epoch' \in Nat /\ epoch <= epoch' BY <1>1
<1>3. ASSUME NEW t, TicketRight(t) PROVE TicketRight(t)' BY <1>2, <1>3, TicketsStand
<1>4. \A t \in signing' : TicketRight(t)' BY <1>1, <1>3
<1>5. (\A n \in 1..Len(tickets) : TicketRight(tickets[n]))'
  <2> SUFFICES ASSUME NEW n \in 1..Len(tickets') PROVE TicketRight(tickets[n])'
    OBVIOUS
  <2>1. PICK t : t = tickets[n]
    OBVIOUS
  <2>2. TicketRight(t) /\ t = tickets'[n] BY <1>1, <2>1
  <2>3. TicketRight(t)' BY <1>3, <2>2
  <2>4. QED BY <2>2, <2>3 DEF TicketRight
<1>6. QED BY <1>1, <1>4, <1>5 DEF TicketsRight

LEMMA ReplayKept ==
  ASSUME RegisterInv, UNCHANGED <<replay, admitted, epoch, tickets>>,
         file' = file \/ (file'.revision > file.revision /\ file'.revision \in Revisions)
  PROVE  ReplayRight'
<1>1. ReplayRight /\ replay.revision \in Nat /\ file.revision \in Nat
  BY ControlBounds DEF RegisterInv, ReplayRight, RevisionRight, Revisions
<1>2. NotRolledBack'
  <2>1. CASE file' = file BY <1>1, <2>1 DEF ReplayRight, NotRolledBack
  <2>2. CASE file'.revision > file.revision /\ file'.revision \in Revisions
    <3>1. file'.revision > replay'.revision /\ file'.revision \in Nat
      BY <1>1, <2>2, ControlBounds DEF ReplayRight, NotRolledBack, Revisions
    <3>2. QED BY <1>1, <3>1 DEF NotRolledBack
  <2>3. QED BY <2>1, <2>2
<1>3. QED BY <1>1, <1>2 DEF ReplayRight

LEMMA SnapshotStays == ASSUME control'.change = control.change, db' = db PROVE Snapshot' = Snapshot
  BY DEF Snapshot, Goes, Changed, Device, Valid, ValidRegistration, ValidRecovery, Replaced, Operated

(* A step of the service's process that writes nothing but its own state,  *)
(* the revision and the file.                                              *)
LEMMA ServiceSteps ==
  ASSUME RegisterInv, UNCHANGED <<db, tickets, replay, admitted, receipts, epoch>>, signing' \subseteq signing,
         NEW pc, NEW c, NEW h, NEW fl, DOMAIN control' = {"pc", "change", "healthy", "floor"},
         control'.pc = pc, control'.change = c, control'.healthy = h, control'.floor = fl,
         pc \in {"down", "idle", "reserved", "published"}, c \in Change, fl \in Revisions, h = FALSE,
         c.what = "operation" => c.op \in db.reserved,
         revision' \in Revisions, revision <= revision',
         \/ file' = file /\ (pc = "published" => FALSE) /\ (pc = "reserved" => revision < revision')
         \/ /\ control.pc = "reserved" /\ c = control.change /\ revision' = revision /\ pc # "reserved"
            /\ file' = [revision |-> revision, devices |-> Snapshot]
  PROVE  RegisterInv'
<1>1. RegisterShapes /\ RowsRight /\ RevisionRight /\ FileRight /\ receipts \subseteq Operations
  BY DEF RegisterInv
<1>2. control'.pc = pc /\ control'.change = c /\ control'.healthy = h /\ control'.floor = fl
      /\ DOMAIN control' = {"pc", "change", "healthy", "floor"}
  OBVIOUS
<1>3. revision \in Nat /\ revision' \in Nat /\ file.revision \in Nat /\ file.revision <= revision
  BY <1>1, ControlBounds DEF RevisionRight, Revisions
<1>4. CASE file' = file /\ (pc = "published" => FALSE) /\ (pc = "reserved" => revision < revision')
  <2>1. RevisionRight'
    <3>1. /\ revision' \in Revisions /\ control'.floor \in Revisions /\ file'.revision \in Revisions
          /\ control'.pc \in {"down", "idle", "reserved", "published"} /\ control'.pc # "published"
          /\ control'.change \in Change /\ control'.healthy = FALSE
          /\ control'.change.what = "operation" => control'.change.op \in db'.reserved
      BY <1>1, <1>2, <1>4 DEF RevisionRight
    <3>2. /\ file'.revision <= revision'
          /\ control'.pc = "reserved" => file'.revision < revision'
      BY <1>2, <1>3, <1>4
    <3>3. QED BY <3>1, <3>2 DEF RevisionRight
  <2>2. FileRight' BY <1>1, <1>4 DEF FileRight, Onward
  <2>3. RegisterShapes' BY <1>1, <1>2, <1>4 DEF RegisterShapes
  <2>4. RowsRight' BY RowsKept
  <2>5. TicketsRight' BY <1>1, OnwardSame, TicketsKept DEF RowsRight
  <2>6. ReplayRight'
    <3>1. UNCHANGED <<replay, admitted, epoch, tickets>> /\ file' = file BY <1>4
    <3>2. QED BY <3>1, ReplayKept
  <2>7. QED BY <1>1, <2>1, <2>2, <2>3, <2>4, <2>5, <2>6 DEF RegisterInv
<1>5. CASE /\ control.pc = "reserved" /\ c = control.change /\ revision' = revision /\ pc # "reserved"
           /\ file' = [revision |-> revision, devices |-> Snapshot]
  <2>1. file'.revision = revision /\ file'.devices = Snapshot /\ DOMAIN file' = {"revision", "devices"}
        /\ file.revision < revision
    BY <1>1, <1>5 DEF RevisionRight
  <2>2. Snapshot \in DeviceMap /\ Onward(db.devices, Snapshot)
    <3>1. CASE Goes(control.change)
      <4>1. control.change \in Change /\ (control.change.what = "operation" => control.change.op \in db.reserved)
        BY <1>1 DEF RevisionRight
      <4>2. ChangedRight(Changed(control.change)) BY <3>1, <4>1, GoesRight
      <4>3. QED BY <3>1, <4>2 DEF ChangedRight, Snapshot
    <3>2. CASE ~Goes(control.change) BY <1>1, <3>2, OnwardSame DEF Snapshot, RowsRight
    <3>3. QED BY <3>1, <3>2
  <2>3. Snapshot' = Snapshot
    <3>1. control'.change = control.change /\ db' = db BY <1>2, <1>5
    <3>2. QED BY <3>1, SnapshotStays
  <2>4. RevisionRight' BY <1>1, <1>2, <1>3, <1>5, <2>1, <2>3 DEF RevisionRight
  <2>5. FileRight' BY <1>3, <2>1, <2>2 DEF FileRight, Onward
  <2>6. RegisterShapes' BY <1>1, <1>2, <2>1 DEF RegisterShapes
  <2>7. RowsRight' BY RowsKept
  <2>8. TicketsRight' BY <1>1, OnwardSame, TicketsKept DEF RowsRight
  <2>9. ReplayRight'
    <3>1. file'.revision > file.revision /\ file'.revision \in Revisions
      BY <1>1, <1>3, <2>1 DEF RevisionRight
    <3>2. QED BY <3>1, ReplayKept
  <2>10. QED BY <1>1, <2>4, <2>5, <2>6, <2>7, <2>8, <2>9 DEF RegisterInv
<1>6. QED BY <1>4, <1>5

LEMMA Reserves ==
  ASSUME RegisterInv, NEW c \in Change, c.what = "operation" => c.op \in db.reserved, Reserve(c)
  PROVE  RegisterInv'
<1>1. DOMAIN control = {"pc", "change", "healthy", "floor"} /\ control.floor \in Revisions /\ revision \in Revisions
  BY DEF RegisterInv, RegisterShapes, RevisionRight
<1>2. /\ DOMAIN control' = {"pc", "change", "healthy", "floor"} /\ control'.pc = "reserved" /\ control'.change = c
      /\ control'.healthy = FALSE /\ control'.floor = control.floor
  BY <1>1 DEF Reserve
<1>3. PICK fl : fl = control.floor
  OBVIOUS
<1>4. revision' \in Revisions /\ revision < revision' /\ revision <= revision'
  BY <1>1, ControlBounds DEF Reserve, Revisions
<1>5. UNCHANGED <<db, tickets, replay, admitted, receipts, epoch>> /\ signing' \subseteq signing /\ file' = file
  BY DEF Reserve
<1>6. QED BY <1>1, <1>2, <1>3, <1>4, <1>5, ServiceSteps

LEMMA PublicationRight ==
  ASSUME RegisterInv, Publish \/ PublishFails \/ CommitFails
  PROVE  RegisterInv'
<1>1. /\ DOMAIN control = {"pc", "change", "healthy", "floor"} /\ control.floor \in Revisions /\ revision \in Revisions
      /\ control.change \in Change
      /\ control.change.what = "operation" => control.change.op \in db.reserved
      /\ control.healthy => control.pc = "idle"
      /\ control.healthy \in BOOLEAN
  BY DEF RegisterInv, RegisterShapes, RevisionRight
<1>2. revision' = revision /\ revision <= revision'
  BY <1>1, ControlBounds DEF Publish, PublishFails, CommitFails, Lost, Revisions
<1>3. UNCHANGED <<db, tickets, replay, admitted, receipts, epoch>> /\ signing' \subseteq signing
  BY DEF Publish, PublishFails, CommitFails
<1>4. PICK c \in Change : c = control.change BY <1>1
<1>5. CASE Publish
  <2>1. /\ DOMAIN control' = {"pc", "change", "healthy", "floor"} /\ control'.pc = "published" /\ control'.change = c
        /\ control'.healthy = FALSE /\ control'.floor = revision
        /\ control.pc = "reserved" /\ file' = [revision |-> revision, devices |-> Snapshot]
    BY <1>1, <1>4, <1>5 DEF Publish, PutFile
  <2>2. QED BY <1>1, <1>2, <1>3, <1>4, <2>1, ServiceSteps
<1>6. CASE PublishFails \/ CommitFails
  <2>1. /\ DOMAIN control' = {"pc", "change", "healthy", "floor"} /\ control'.pc = "idle" /\ control'.change = c
        /\ control'.healthy = FALSE /\ control'.floor = revision
        /\ file' = file \/ (control.pc = "reserved" /\ file' = [revision |-> revision, devices |-> Snapshot])
    BY <1>1, <1>4, <1>6 DEF PublishFails, CommitFails, AfterFailure, PutFile
  <2>2. QED BY <1>1, <1>2, <1>3, <1>4, <2>1, ServiceSteps
<1>7. QED BY <1>5, <1>6

LEMMA Restarts ==
  ASSUME RegisterInv, Crash \/ Start
  PROVE  RegisterInv'
<1>1. file.revision \in Revisions /\ revision \in Revisions /\ Refresh \in Change /\ Refresh.what = "refresh" /\ 0 \in Revisions
  BY ControlBounds DEF RegisterInv, RevisionRight, Refresh, Change, Revisions
<1>2. CASE Crash
  <2>1. /\ DOMAIN control' = {"pc", "change", "healthy", "floor"} /\ control'.pc = "down" /\ control'.change = Refresh
        /\ control'.healthy = FALSE /\ control'.floor = 0
        /\ UNCHANGED <<db, tickets, replay, admitted, receipts, epoch>> /\ signing' \subseteq signing
        /\ revision' = revision /\ file' = file
    BY <1>2 DEF Crash
  <2>2. revision <= revision' BY <1>1, <2>1, ControlBounds DEF Revisions
  <2>3. QED BY <1>1, <2>1, <2>2, ServiceSteps
<1>3. CASE Start
  <2>1. /\ DOMAIN control' = {"pc", "change", "healthy", "floor"} /\ control'.pc = "reserved" /\ control'.change = Refresh
        /\ control'.healthy = FALSE /\ control'.floor = file.revision
        /\ UNCHANGED <<db, tickets, replay, admitted, receipts, epoch>> /\ signing' \subseteq signing
        /\ file' = file
    BY <1>3 DEF Start
  <2>2. revision' \in Revisions /\ revision < revision' /\ revision <= revision'
    BY <1>1, <1>3, ControlBounds DEF Start, Revisions
  <2>3. PICK fl : fl = file.revision
    OBVIOUS
  <2>4. QED BY <1>1, <2>1, <2>2, <2>3, ServiceSteps
<1>4. QED BY <1>2, <1>3

LEMMA CommitRight ==
  ASSUME RegisterInv, Commit
  PROVE  RegisterInv'
<1>1. RegisterShapes /\ RowsRight /\ RevisionRight /\ FileRight /\ TicketsRight /\ ReplayRight /\ receipts \subseteq Operations
  BY DEF RegisterInv
<1>2. PICK c \in Change : c = control.change BY <1>1 DEF RevisionRight
<1>3. /\ c.what = "operation" => c.op \in db.reserved
      /\ file.devices = Snapshot /\ file.revision = revision
  BY <1>1, <1>2 DEF Commit, RevisionRight
<1>4. PICK new : new = IF Goes(c) THEN Changed(c) ELSE db
  OBVIOUS
<1>5. db' = new /\ file.devices = new.devices BY <1>2, <1>3, <1>4 DEF Commit, Snapshot
<1>6. ChangedRight(new) /\ Recovered(new.devices, new.committed) /\ Introduced(new.devices, new.committed)
  <2>1. CASE Goes(c) BY <1>3, <1>4, <2>1, GoesRight, EffectsKept
  <2>2. CASE ~Goes(c)
    BY <1>1, <1>4, <2>2, OnwardSame, EffectsOf DEF ChangedRight, RowsRight, Device
  <2>3. QED BY <2>1, <2>2
<1>7. receipts \subseteq db.committed /\ receipts' \subseteq new.committed /\ receipts' \subseteq Operations
  <2>1. receipts \subseteq db.committed BY <1>1, EffectsOf DEF RowsRight
  <2>2. receipts' \subseteq receipts \cup new.committed
    BY <1>5, <1>2 DEF Commit, Answered
  <2>3. db.committed \subseteq new.committed /\ new.committed \subseteq db.reserved
    BY <1>6 DEF ChangedRight
  <2>4. QED BY <1>1, <2>1, <2>2, <2>3 DEF RowsRight
<1>8. RowsRight'
  <2>1. OperationsTakeEffectOnce'
    BY <1>5, <1>6, <1>7 DEF OperationsTakeEffectOnce, Recovered, Introduced, Replaced, Device
  <2>2. QED BY <1>1, <1>5, <1>6, <2>1 DEF RowsRight, ChangedRight, Device
<1>9. /\ DOMAIN control' = {"pc", "change", "healthy", "floor"} /\ control'.pc = "idle" /\ control'.change = Refresh
      /\ control'.healthy = TRUE /\ control'.floor = control.floor
  BY <1>1 DEF Commit, RegisterShapes
<1>10. UNCHANGED <<revision, file, signing, tickets, replay, admitted, epoch>>
  BY DEF Commit
<1>11. RegisterShapes' BY <1>1, <1>5, <1>6, <1>9, <1>10 DEF RegisterShapes, ChangedRight
<1>12. RevisionRight'
  <2>1. Refresh \in Change /\ Refresh.what = "refresh" BY DEF Refresh, Change
  <2>2. QED BY <1>1, <1>3, <1>5, <1>9, <1>10, <2>1 DEF RevisionRight
<1>13. FileRight' BY <1>1, <1>5, <1>6, <1>10, OnwardSame DEF FileRight, ChangedRight
<1>14. TicketsRight' BY <1>5, <1>6, <1>10, TicketsKept DEF ChangedRight
<1>15. ReplayRight' BY <1>10, ReplayKept
<1>16. QED BY <1>7, <1>8, <1>11, <1>12, <1>13, <1>14, <1>15 DEF RegisterInv

(* A request that writes challenges only, or a receipt.                    *)
LEMMA Requests ==
  ASSUME RegisterInv, UNCHANGED <<revision, control, file, replay, admitted>>,
         NEW R \in SUBSET Operations, NEW C \in SUBSET Challenges, db.reserved \subseteq R,
         \/ db' = db
         \/ control.pc = "idle" /\ db' = [db EXCEPT !.reserved = R, !.challenges = C],
         receipts' \subseteq db.committed, TicketsRight', ReplayRight'
  PROVE  RegisterInv'
<1>1. RegisterShapes /\ RowsRight /\ RevisionRight /\ FileRight /\ receipts \subseteq Operations
  BY DEF RegisterInv
<1>2. /\ DOMAIN db' = DOMAIN db /\ db'.devices = db.devices /\ db'.committed = db.committed
      /\ db.reserved \subseteq db'.reserved /\ db'.reserved \subseteq Operations /\ db'.challenges \subseteq Challenges
  BY <1>1 DEF RegisterShapes, RowsRight
<1>3. RowsRight'
  <2>1. OperationsTakeEffectOnce'
    BY <1>1, <1>2 DEF RowsRight, OperationsTakeEffectOnce, Replaced, Device
  <2>2. QED BY <1>1, <1>2, <2>1 DEF RowsRight, Device
<1>4. RegisterShapes' BY <1>1, <1>2 DEF RegisterShapes
<1>5. RevisionRight'
  <2>1. CASE db' = db
    <3>1. Snapshot' = Snapshot BY <2>1, SnapshotStays
    <3>2. QED BY <1>1, <2>1, <3>1 DEF RevisionRight
  <2>2. CASE control.pc = "idle" BY <1>1, <1>2, <2>2 DEF RevisionRight
  <2>3. QED BY <2>1, <2>2
<1>6. FileRight' BY <1>1, <1>2 DEF FileRight, Onward
<1>7. receipts' \subseteq Operations BY <1>1 DEF RowsRight
<1>8. QED BY <1>3, <1>4, <1>5, <1>6, <1>7 DEF RegisterInv

LEMMA Challenged ==
  ASSUME RegisterInv,
         \/ \E o \in Operations : ChallengeOperation(o)
         \/ \E a \in Admissions : ChallengeAdmission(a)
  PROVE  RegisterInv'
<1>1. UNCHANGED <<revision, control, file, replay, admitted, signing, tickets, epoch>> /\ control.pc = "idle"
  BY DEF ChallengeOperation, ChallengeAdmission, Idle
<1>2. RowsRight /\ RegisterShapes BY DEF RegisterInv
<1>3. \E R \in SUBSET Operations, C \in SUBSET Challenges :
        /\ db.reserved \subseteq R
        /\ db' = db \/ db' = [db EXCEPT !.reserved = R, !.challenges = C]
  <2>1. CASE \E o \in Operations : ChallengeOperation(o)
    <3>1. PICK o \in Operations : ChallengeOperation(o) BY <2>1
    <3>2. db.reserved \cup {o} \in SUBSET Operations /\ db.challenges \cup {o} \in SUBSET Challenges
      BY <1>2 DEF RowsRight, Challenges
    <3>3. db' = db \/ db' = [db EXCEPT !.reserved = db.reserved \cup {o}, !.challenges = db.challenges \cup {o}]
      BY <3>1 DEF ChallengeOperation
    <3>4. QED BY <3>2, <3>3
  <2>2. CASE \E a \in Admissions : ChallengeAdmission(a)
    <3>1. PICK a \in Admissions : ChallengeAdmission(a) BY <2>2
    <3>2. db.reserved \in SUBSET Operations /\ db.challenges \cup {a} \in SUBSET Challenges
      BY <1>2 DEF RowsRight, Challenges
    <3>3. db' = [db EXCEPT !.challenges = db.challenges \cup {a}]
      BY <3>1 DEF ChallengeAdmission
    <3>4. db' = [db EXCEPT !.reserved = db.reserved, !.challenges = db.challenges \cup {a}]
      BY <1>2, <3>3 DEF RegisterShapes
    <3>5. QED BY <3>2, <3>4
  <2>3. QED BY <2>1, <2>2
<1>4. receipts' \subseteq db.committed
  <2>1. receipts \subseteq db.committed BY <1>2, EffectsOf DEF RowsRight
  <2>2. QED BY <2>1 DEF ChallengeOperation, ChallengeAdmission
<1>5. db'.devices = db.devices BY <1>2, <1>3 DEF RegisterShapes
<1>6. TicketsRight' BY <1>1, <1>2, <1>5, OnwardSame, TicketsKept DEF RowsRight
<1>7. ReplayRight' BY <1>1, ReplayKept
<1>8. QED BY <1>1, <1>3, <1>4, <1>6, <1>7, Requests

LEMMA Admits ==
  ASSUME RegisterInv, NEW a \in Admissions, Admit(a)
  PROVE  RegisterInv'
<1>1. UNCHANGED <<revision, control, file, replay, admitted, receipts, tickets, epoch>> /\ control.pc = "idle"
  BY DEF Admit, Idle
<1>2. RowsRight /\ RegisterShapes /\ TicketsRight /\ receipts \subseteq db.committed
  BY EffectsOf DEF RegisterInv, RowsRight
<1>3. PICK C \in SUBSET Challenges : C = db.challenges \ {a} BY <1>2 DEF RowsRight
<1>4. db' = [db EXCEPT !.reserved = db.reserved, !.challenges = C]
  BY <1>2, <1>3 DEF Admit, RegisterShapes
<1>5. db'.devices = db.devices BY <1>2, <1>4 DEF RegisterShapes
<1>6. PICK t : t = [dev |-> a.dev, recv |-> a.recv, gen |-> Device(a.dev).gen, iat |-> epoch]
  OBVIOUS
<1>7. a.dev \in Principals /\ a.recv \in Principals BY OperationsAssumption
<1>8. TicketRight(t)
  <2>1. Device(a.dev).gen \in Nat /\ epoch \in 0..MaxEpoch /\ epoch \in Nat
    BY <1>2, <1>7, ControlBounds DEF RowsRight, Device, DeviceMap, Row, TicketsRight
  <2>2. Device(a.dev).status = "active" /\ Device(a.recv).status = "active"
    BY DEF Admit, IsActive
  <2>3. QED BY <1>6, <1>7, <2>1, <2>2 DEF TicketRight, Ticket
<1>9. signing' = signing \cup {t} BY <1>6 DEF Admit
<1>10. TicketsRight'
  <2>1. ASSUME NEW u, TicketRight(u) PROVE TicketRight(u)'
    BY <1>1, <1>5, <2>1 DEF TicketRight, Device
  <2>2. \A u \in signing' : TicketRight(u)' BY <1>2, <1>8, <1>9, <2>1 DEF TicketsRight
  <2>3. \A n \in 1..Len(tickets) : TicketRight(tickets[n])'
    BY <1>1, <1>2, <1>5 DEF TicketRight, Device, TicketsRight
  <2>4. QED BY <1>1, <1>2, <2>2, <2>3 DEF TicketsRight
<1>11. ReplayRight' BY <1>1, ReplayKept
<1>12. db.reserved \in SUBSET Operations BY <1>2 DEF RowsRight
<1>13. QED BY <1>1, <1>2, <1>4, <1>10, <1>11, <1>12, Requests

LEMMA TimePasses ==
  ASSUME RegisterInv, Tick
  PROVE  RegisterInv'
<1>1. UNCHANGED <<revision, control, file, replay, admitted, receipts, tickets, signing>>
  BY DEF Tick
<1>2. RowsRight /\ RegisterShapes /\ TicketsRight /\ ReplayRight /\ receipts \subseteq db.committed
  BY EffectsOf DEF RegisterInv, RowsRight
<1>3. epoch' = epoch + 1 /\ epoch' \in 0..MaxEpoch /\ epoch \in Nat /\ epoch' \in Nat /\ epoch <= epoch'
  BY <1>2, ControlBounds DEF Tick, TicketsRight
<1>4. db' = db \/ (control.pc = "idle" /\ db' = [db EXCEPT !.challenges = {}])
  BY DEF Tick, Idle
<1>5. db'.devices = db.devices BY <1>2, <1>4 DEF RegisterShapes
<1>6. db' = db \/ (control.pc = "idle" /\ db' = [db EXCEPT !.reserved = db.reserved, !.challenges = {}])
  BY <1>2, <1>4 DEF RegisterShapes
<1>7. TicketsRight'
  <2>1. ASSUME NEW u, TicketRight(u) PROVE TicketRight(u)'
    BY <1>2, <1>3, <1>5, <2>1, OnwardSame, TicketsStand DEF RowsRight
  <2>2. \A u \in signing' : TicketRight(u)' BY <1>1, <1>2, <2>1 DEF TicketsRight
  <2>3. (\A n \in 1..Len(tickets) : TicketRight(tickets[n]))'
    <3> SUFFICES ASSUME NEW n \in 1..Len(tickets') PROVE TicketRight(tickets[n])'
      OBVIOUS
    <3>1. PICK t : t = tickets[n]
      OBVIOUS
    <3>2. TicketRight(t) /\ t = tickets'[n] BY <1>1, <1>2, <3>1 DEF TicketsRight
    <3>3. TicketRight(t)' BY <2>1, <3>2
    <3>4. QED BY <3>2, <3>3 DEF TicketRight
  <2>4. QED BY <1>1, <1>2, <1>3, <2>2, <2>3 DEF TicketsRight
<1>8. ReplayRight'
  <2>1. \A n \in 1..Len(tickets) : tickets[n].iat \in Nat
    BY <1>2, ControlBounds DEF TicketsRight, TicketRight, Ticket
  <2>2. \A n \in 1..Len(tickets) : epoch > tickets[n].iat + 1 => epoch' > tickets[n].iat + 1
    BY <1>3, <2>1
  <2>3. NotRolledBack' BY <1>1, <1>2 DEF ReplayRight, NotRolledBack
  <2>4. QED BY <1>1, <1>2, <2>2, <2>3 DEF ReplayRight
<1>9. db.reserved \in SUBSET Operations /\ {} \in SUBSET Challenges
  BY <1>2 DEF RowsRight
<1>10. QED BY <1>1, <1>2, <1>6, <1>7, <1>8, <1>9, Requests

LEMMA Signs ==
  ASSUME RegisterInv, NEW t \in signing, Signed(t)
  PROVE  RegisterInv'
<1>1. UNCHANGED <<db, revision, control, file, replay, admitted, receipts, epoch>>
  BY DEF Signed
<1>2. RowsRight /\ RegisterShapes /\ TicketsRight /\ ReplayRight /\ receipts \subseteq db.committed
  BY EffectsOf DEF RegisterInv, RowsRight
<1>3. TicketRight(t) /\ t \in Ticket BY <1>2 DEF TicketsRight, TicketRight
<1>4. PICK len \in Nat : len = Len(tickets) BY <1>2 DEF TicketsRight
<1>5. PICK new : new = IF StillTrue(t) /\ control.healthy THEN Append(tickets, t) ELSE tickets
  OBVIOUS
<1>6. /\ tickets' = new /\ new \in Seq(Ticket) /\ Len(new) \in {len, len + 1}
      /\ \A n \in 1..len : new[n] = tickets[n]
      /\ \A n \in 1..Len(new) : new[n] = t \/ (n \in 1..len /\ new[n] = tickets[n])
  <2>1. CASE new = Append(tickets, t)
    <3>1. new \in Seq(Ticket) /\ Len(new) = len + 1 /\ new[len + 1] = t
          /\ \A n \in 1..len : new[n] = tickets[n]
      BY <1>2, <1>3, <1>4, <2>1, AppendProperties DEF TicketsRight
    <3>2. \A n \in 1..(len + 1) : n \in 1..len \/ n = len + 1
      OBVIOUS
    <3>3. QED BY <1>5, <3>1, <3>2 DEF Signed
  <2>2. CASE new = tickets BY <1>2, <1>4, <1>5, <2>2 DEF Signed, TicketsRight
  <2>3. QED BY <1>5, <2>1, <2>2
<1>7. TicketsRight'
  <2>1. ASSUME NEW u, TicketRight(u) PROVE TicketRight(u)'
    BY <1>1, <2>1 DEF TicketRight, Device
  <2>2. \A u \in signing' : TicketRight(u)' BY <1>2, <2>1 DEF TicketsRight, Signed
  <2>3. \A n \in 1..Len(new) : TicketRight(new[n])
    BY <1>2, <1>3, <1>4, <1>6 DEF TicketsRight
  <2>4. (\A n \in 1..Len(tickets) : TicketRight(tickets[n]))'
    BY <1>1, <1>6, <2>3 DEF TicketRight, Device
  <2>5. QED BY <1>1, <1>2, <1>6, <2>2, <2>4 DEF TicketsRight
<1>8. ReplayRight'
  <2>1. 1..len \subseteq 1..Len(new) BY <1>6
  <2>2. NotRolledBack' BY <1>1, <1>2 DEF ReplayRight, NotRolledBack
  <2>3. QED BY <1>1, <1>2, <1>4, <1>6, <2>1, <2>2 DEF ReplayRight
<1>9. db.reserved \in SUBSET Operations /\ {} \in SUBSET Challenges
  BY <1>2 DEF RowsRight
<1>10. QED BY <1>1, <1>2, <1>7, <1>8, <1>9, Requests

LEMMA OneMore ==
  ASSUME NEW S, IsFiniteSet(S), NEW e
  PROVE  IsFiniteSet(S \cup {e}) /\ Cardinality(S \cup {e}) <= Cardinality(S) + 1
<1>1. Cardinality(S) \in Nat BY FS_CardinalityType
<1>2. IsFiniteSet(S \cup {e}) /\ Cardinality(S \cup {e}) = IF e \in S THEN Cardinality(S) ELSE Cardinality(S) + 1
  BY FS_AddElement
<1>3. QED BY <1>1, <1>2

(* A step of the relay.                                                    *)
LEMMA RelaySteps ==
  ASSUME RegisterInv, UNCHANGED <<db, revision, control, file, signing, tickets, receipts, epoch>>,
         DOMAIN replay' = DOMAIN replay, DOMAIN admitted' = DOMAIN admitted, IsFiniteSet(replay'.spent), ReplayRight'
  PROVE  RegisterInv'
<1>1. RegisterShapes /\ RowsRight /\ RevisionRight /\ FileRight /\ TicketsRight /\ receipts \subseteq Operations
  BY DEF RegisterInv
<1>2. RowsRight' BY RowsKept
<1>3. RevisionRight'
  <2>1. Snapshot' = Snapshot BY SnapshotStays
  <2>2. QED BY <1>1, <2>1 DEF RevisionRight
<1>4. TicketsRight' BY <1>1, OnwardSame, TicketsKept DEF RowsRight
<1>5. RegisterShapes' /\ FileRight' BY <1>1 DEF RegisterShapes, FileRight, Onward
<1>6. QED BY <1>1, <1>2, <1>3, <1>4, <1>5 DEF RegisterInv

LEMMA Authorizes ==
  ASSUME RegisterInv, NEW n \in 1..MaxTickets, Authorize(n)
  PROVE  RegisterInv' /\ admitted[n] = 0
<1>1. RegisterShapes /\ RowsRight /\ TicketsRight /\ ReplayRight /\ RevisionRight /\ FileRight
  BY DEF RegisterInv
<1>2. \A m \in 1..Len(tickets) : tickets[m].iat \in Nat
  BY <1>1, ControlBounds DEF TicketsRight, TicketRight, Ticket
<1>3. epoch \in Nat BY <1>1 DEF TicketsRight
<1>4. n \in 1..Len(tickets) BY <1>1 DEF Authorize, TicketsRight
<1>5. admitted[n] = 0
  <2>1. admitted[n] \in {0, 1} BY <1>1 DEF ReplayRight
  <2>2. CASE admitted[n] = 1
    <3>1. n \in replay.spent \/ epoch > tickets[n].iat + 1 \/ tickets[n].iat < replay.notBefore
      BY <1>1, <2>2 DEF ReplayRight
    <3>2. n \notin replay.spent /\ tickets[n].iat >= replay.notBefore /\ epoch \in {tickets[n].iat, tickets[n].iat + 1}
      BY DEF Authorize, Unspent, MaybeLive
    <3>3. replay.notBefore \in Nat BY <1>1, ControlBounds DEF ReplayRight
    <3>4. QED BY <1>2, <1>3, <1>4, <3>1, <3>2, <3>3
  <2>3. QED BY <2>1, <2>2
<1>6. PICK kept : kept = {m \in replay.spent : MaybeLive(m)}
  OBVIOUS
<1>7. replay' = [Seen EXCEPT !.spent = kept \cup {n}] /\ admitted' = [admitted EXCEPT ![n] = @ + 1] /\ Cardinality(kept) < MaxSpent
  BY <1>6 DEF Authorize
<1>8. /\ DOMAIN replay' = DOMAIN replay /\ replay'.revision = file.revision /\ replay'.devices = file.devices
      /\ replay'.notBefore = replay.notBefore /\ replay'.spent = kept \cup {n}
  BY <1>1, <1>7 DEF Seen, RegisterShapes
<1>9. IsFiniteSet(kept) /\ kept \subseteq replay.spent
  <2>1. kept \subseteq replay.spent /\ IsFiniteSet(replay.spent)
    BY <1>1, <1>6 DEF RegisterShapes
  <2>2. QED BY <2>1, FS_Subset
<1>10. IsFiniteSet(kept \cup {n}) /\ Cardinality(kept \cup {n}) <= MaxSpent
  <2>1. IsFiniteSet(kept \cup {n}) /\ Cardinality(kept \cup {n}) <= Cardinality(kept) + 1
    BY <1>9, OneMore
  <2>2. Cardinality(kept) \in Nat /\ Cardinality(kept \cup {n}) \in Nat
    BY <1>9, <2>1, FS_CardinalityType
  <2>3. MaxSpent \in Nat BY ControlBounds
  <2>4. QED BY <1>7, <2>1, <2>2, <2>3
<1>11. UNCHANGED <<db, revision, control, file, signing, tickets, receipts, epoch>>
  BY DEF Authorize
<1>12. ReplayRight'
  <2>1. NotRolledBack'
    BY <1>1, <1>8, <1>11, ControlBounds DEF NotRolledBack, RevisionRight, Revisions
  <2>2. /\ replay'.revision \in Revisions /\ replay'.devices \in DeviceMap
        /\ replay'.spent \subseteq 1..Len(tickets') /\ Cardinality(replay'.spent) <= MaxSpent
        /\ replay'.notBefore \in 0..(MaxEpoch + 1)
    BY <1>1, <1>4, <1>8, <1>9, <1>10, <1>11 DEF RevisionRight, FileRight, ReplayRight
  <2>3. ASSUME NEW m \in 1..MaxTickets
        PROVE  /\ admitted'[m] \in {0, 1}
               /\ admitted'[m] = 1 =>
                    /\ m \in 1..Len(tickets')
                    /\ m \in replay'.spent \/ epoch' > tickets'[m].iat + 1 \/ tickets'[m].iat < replay'.notBefore
    <3>1. CASE m = n BY <1>1, <1>4, <1>5, <1>7, <1>8, <1>11, <3>1 DEF RegisterShapes
    <3>2. CASE m # n
      <4>1. admitted'[m] = admitted[m] BY <1>1, <1>7, <3>2 DEF RegisterShapes
      <4>2. admitted[m] \in {0, 1} BY <1>1 DEF ReplayRight
      <4>3. CASE admitted[m] = 1
        <5>1. /\ m \in 1..Len(tickets)
              /\ m \in replay.spent \/ epoch > tickets[m].iat + 1 \/ tickets[m].iat < replay.notBefore
          BY <1>1, <4>3 DEF ReplayRight
        <5>2. CASE m \in replay.spent
          <6>1. m \in kept \/ ~MaybeLive(m) BY <1>6, <5>2
          <6>2. tickets[m].iat <= epoch BY <1>1, <5>1 DEF TicketsRight, TicketRight
          <6>3. m \in kept \/ epoch > tickets[m].iat + 1
            BY <1>2, <1>3, <5>1, <6>1, <6>2 DEF MaybeLive
          <6>4. QED BY <1>8, <1>11, <4>1, <4>2, <5>1, <6>3
        <5>3. CASE m \notin replay.spent BY <1>8, <1>11, <4>1, <4>2, <5>1, <5>3
        <5>4. QED BY <5>2, <5>3
      <4>4. QED BY <4>1, <4>2, <4>3
    <3>3. QED BY <3>1, <3>2
  <2>4. QED BY <2>1, <2>2, <2>3 DEF ReplayRight
<1>13. DOMAIN admitted' = DOMAIN admitted BY <1>7
<1>14. QED BY <1>5, <1>8, <1>10, <1>11, <1>12, <1>13, RelaySteps

LEMMA Reads ==
  ASSUME RegisterInv, ReadState \/ InitializeReplay
  PROVE  RegisterInv'
<1>1. RegisterShapes /\ RowsRight /\ TicketsRight /\ ReplayRight /\ RevisionRight /\ FileRight
  BY DEF RegisterInv
<1>2. UNCHANGED <<db, revision, control, file, signing, tickets, receipts, epoch, admitted>>
  BY DEF ReadState, InitializeReplay
<1>3. CASE ReadState
  <2>1. /\ DOMAIN replay' = DOMAIN replay /\ replay'.revision = file.revision /\ replay'.devices = file.devices
        /\ replay'.notBefore = replay.notBefore /\ replay'.spent = replay.spent
    BY <1>1, <1>3 DEF ReadState, Seen, RegisterShapes
  <2>2. NotRolledBack'
    BY <1>1, <1>2, <2>1, ControlBounds DEF NotRolledBack, RevisionRight, Revisions
  <2>3. ReplayRight' BY <1>1, <1>2, <2>1, <2>2 DEF ReplayRight, RevisionRight, FileRight
  <2>4. QED BY <1>1, <1>2, <2>1, <2>3, RelaySteps DEF RegisterShapes
<1>4. CASE InitializeReplay
  <2>1. /\ DOMAIN replay' = DOMAIN replay /\ replay'.revision = 0 /\ replay'.devices = EnrolledMap
        /\ replay'.notBefore = epoch + 1 /\ replay'.spent = {}
    BY <1>1, <1>4 DEF InitializeReplay, RegisterShapes, FirstTrusted
  <2>2. NotRolledBack'
    BY <1>1, <1>2, <2>1, ControlBounds DEF NotRolledBack, RevisionRight, Revisions, FileRight
  <2>3. EnrolledMap \in DeviceMap BY DEF EnrolledMap, DeviceMap, Row, Absent
  <2>4. IsFiniteSet({}) /\ Cardinality({}) = 0 BY FS_EmptySet
  <2>5. 0 \in Revisions /\ 0 <= MaxSpent /\ epoch + 1 \in 0..(MaxEpoch + 1)
    BY <1>1, ControlBounds DEF Revisions, TicketsRight
  <2>6. \A n \in 1..Len(tickets) : tickets[n].iat < epoch + 1
    BY <1>1, ControlBounds DEF TicketsRight, TicketRight, Ticket
  <2>7. ReplayRight' BY <1>1, <1>2, <2>1, <2>2, <2>3, <2>4, <2>5, <2>6 DEF ReplayRight
  <2>8. QED BY <1>2, <2>1, <2>4, <2>7, RelaySteps
<1>5. QED BY <1>3, <1>4

LEMMA ChangesAsked ==
  ASSUME RegisterInv, (\E o \in Operations : Submit(o)) \/ (\E d \in Principals : RevokePrincipal(d)) \/ RefreshState
  PROVE  RegisterInv'
<1>1. CASE \E o \in Operations : Submit(o)
  <2>1. PICK o \in Operations : Submit(o) BY <1>1
  <2>2. PICK c : c = [what |-> "operation", op |-> o]
    OBVIOUS
  <2>3. c \in Change /\ (c.what = "operation" => c.op \in db.reserved) /\ Reserve(c)
    BY <2>1, <2>2 DEF Submit, Change
  <2>4. QED BY <2>3, Reserves
<1>2. CASE \E d \in Principals : RevokePrincipal(d)
  <2>1. PICK d \in Principals : RevokePrincipal(d) BY <1>2
  <2>2. PICK c : c = [what |-> "revoke", principal |-> d]
    OBVIOUS
  <2>3. c \in Change /\ (c.what = "operation" => c.op \in db.reserved) /\ Reserve(c)
    BY <2>1, <2>2 DEF RevokePrincipal, Change
  <2>4. QED BY <2>3, Reserves
<1>3. CASE RefreshState
  <2>1. Refresh \in Change /\ Refresh.what = "refresh" /\ Reserve(Refresh)
    BY <1>3 DEF RefreshState, Change, Refresh
  <2>2. QED BY <2>1, Reserves
<1>4. QED BY <1>1, <1>2, <1>3

LEMMA RegisterStep == RegisterInv /\ [ControlNext]_controlVars => RegisterInv'
<1> SUFFICES ASSUME RegisterInv, [ControlNext]_controlVars PROVE RegisterInv'
  OBVIOUS
<1>1. CASE (\E o \in Operations : ChallengeOperation(o)) \/ (\E a \in Admissions : ChallengeAdmission(a))
  BY <1>1, Challenged
<1>2. CASE (\E o \in Operations : Submit(o)) \/ (\E d \in Principals : RevokePrincipal(d)) \/ RefreshState
  BY <1>2, ChangesAsked
<1>3. CASE \E a \in Admissions : Admit(a) BY <1>3, Admits
<1>4. CASE \E t \in signing : Signed(t) BY <1>4, Signs
<1>5. CASE \E n \in 1..MaxTickets : Authorize(n) BY <1>5, Authorizes
<1>6. CASE Publish \/ PublishFails \/ CommitFails BY <1>6, PublicationRight
<1>7. CASE Commit BY <1>7, CommitRight
<1>8. CASE Crash \/ Start BY <1>8, Restarts
<1>9. CASE ReadState \/ InitializeReplay BY <1>9, Reads
<1>10. CASE Tick BY <1>10, TimePasses
<1>11. CASE UNCHANGED controlVars
  <2>1. UNCHANGED <<db, revision, control, file, signing, tickets, receipts, epoch, replay, admitted>>
    BY <1>11 DEF controlVars
  <2>2. RegisterShapes /\ ReplayRight BY DEF RegisterInv
  <2>3. DOMAIN replay' = DOMAIN replay /\ DOMAIN admitted' = DOMAIN admitted /\ IsFiniteSet(replay'.spent)
    BY <2>1, <2>2 DEF RegisterShapes
  <2>4. ReplayRight' BY <2>1, ReplayKept
  <2>5. QED BY <2>1, <2>3, <2>4, RelaySteps
<1>12. QED
  BY <1>1, <1>2, <1>3, <1>4, <1>5, <1>6, <1>7, <1>8, <1>9, <1>10, <1>11 DEF ControlNext

LEMMA RegisterStarts == ControlInit => RegisterInv
<1> SUFFICES ASSUME ControlInit PROVE RegisterInv
  OBVIOUS
<1>1. /\ db.devices = EnrolledMap /\ db.reserved = {} /\ db.committed = {} /\ db.challenges = {}
      /\ revision = 0 /\ control.pc = "idle" /\ control.change = Refresh /\ control.healthy = TRUE /\ control.floor = 0
      /\ file.revision = 0 /\ file.devices = EnrolledMap /\ signing = {} /\ tickets = <<>> /\ receipts = {}
      /\ replay.revision = 0 /\ replay.devices = EnrolledMap /\ replay.spent = {} /\ replay.notBefore = 0
      /\ admitted = [n \in 1..MaxTickets |-> 0] /\ epoch = 0
  BY DEF ControlInit
<1>2. EnrolledMap \in DeviceMap BY DEF EnrolledMap, DeviceMap, Row, Absent
<1>3. /\ \A d \in Principals : EnrolledMap[d].gen = 0
      /\ \A d \in Principals \ Enrolled : EnrolledMap[d].status = "absent"
  BY DEF EnrolledMap, Absent
<1>4. IsFiniteSet({}) /\ Cardinality({}) = 0 BY FS_EmptySet
<1>5. RegisterShapes BY <1>1, <1>4 DEF RegisterShapes, ControlInit
<1>6. RowsRight
  <2>1. Recovered(EnrolledMap, {}) /\ Introduced(EnrolledMap, {})
    <3>1. \A d \in Principals : 1..EnrolledMap[d].gen = {} BY <1>3
    <3>2. QED BY <1>3, <3>1 DEF Recovered, Introduced
  <2>2. OperationsTakeEffectOnce BY <1>1, <2>1, EffectsOf
  <2>3. QED BY <1>1, <1>2, <1>3, <2>2 DEF RowsRight, Device
<1>7. RevisionRight
  <2>1. 0 \in Revisions /\ Refresh \in Change /\ Refresh.what = "refresh"
    BY ControlBounds DEF Revisions, Refresh, Change
  <2>2. revision \in Revisions /\ control.floor \in Revisions /\ file.revision \in Revisions
    BY <1>1, <2>1
  <2>3. control.change \in Change /\ control.change.what # "operation" /\ control.healthy \in BOOLEAN
    BY <1>1, <2>1
  <2>4. file.revision <= revision /\ file.devices = db.devices /\ file.revision = revision
    BY <1>1
  <2>5. QED BY <1>1, <2>2, <2>3, <2>4 DEF RevisionRight
<1>8. FileRight BY <1>1, <1>2, OnwardSame DEF FileRight
<1>9. TicketsRight
  <2>1. tickets \in Seq(Ticket) /\ Len(tickets) = 0 BY <1>1, EmptySeq
  <2>2. QED BY <1>1, <2>1, ControlBounds DEF TicketsRight
<1>10. ReplayRight
  BY <1>1, <1>2, <1>4, ControlBounds DEF ReplayRight, NotRolledBack, Revisions
<1>11. QED BY <1>1, <1>5, <1>6, <1>7, <1>8, <1>9, <1>10 DEF RegisterInv

LEMMA RegisterSaid == RegisterInv => ControlTypeOK /\ FileTellsCommitted /\ TicketAdmitsOnce /\ OperationsTakeEffectOnce
<1> SUFFICES ASSUME RegisterInv PROVE ControlTypeOK /\ FileTellsCommitted /\ TicketAdmitsOnce /\ OperationsTakeEffectOnce
  OBVIOUS
<1>1. RegisterShapes /\ RowsRight /\ TicketsRight /\ ReplayRight /\ RevisionRight /\ FileRight /\ receipts \subseteq Operations
  BY DEF RegisterInv
<1>2. ControlTypeOK
  <2>1. DOMAIN tickets = 1..Len(tickets) /\ \A n \in 1..Len(tickets) : tickets[n] \in Ticket
    BY <1>1, LenProperties DEF TicketsRight, TicketRight
  <2>2. QED
    BY <1>1, <2>1 DEF RowsRight, ReplayRight, RevisionRight, FileRight, ControlTypeOK
<1>3. FileTellsCommitted
  BY <1>1 DEF RevisionRight, FileRight, Onward, FileTellsCommitted, Device
<1>4. TicketAdmitsOnce BY <1>1 DEF ReplayRight, TicketAdmitsOnce
<1>5. QED BY <1>1, <1>2, <1>3, <1>4 DEF RowsRight

(* The rows only move onward.                                              *)
LEMMA RowsMoveOnward ==
  ASSUME RegisterInv, [ControlNext]_controlVars
  PROVE  Onward(db.devices, db'.devices)
<1>1. db.devices \in DeviceMap /\ DOMAIN db = {"devices", "reserved", "committed", "challenges"}
  BY DEF RegisterInv, RowsRight, RegisterShapes
<1>2. CASE Commit /\ Goes(control.change)
  <2>1. PICK c \in Change : c = control.change /\ (c.what = "operation" => c.op \in db.reserved)
    BY DEF RegisterInv, RevisionRight
  <2>2. ChangedRight(Changed(c)) BY <1>2, <2>1, GoesRight
  <2>3. QED BY <1>2, <2>1, <2>2 DEF Commit, ChangedRight
<1>3. CASE ~(Commit /\ Goes(control.change))
  <2>1. db'.devices = db.devices
    BY <1>1, <1>3 DEF ControlNext, controlVars, ChallengeOperation, ChallengeAdmission, Submit, Admit, RevokePrincipal,
      Signed, Authorize, RefreshState, Reserve, Publish, PublishFails, Commit, CommitFails, Crash, Start, ReadState,
      InitializeReplay, Tick
  <2>2. QED BY <1>1, <2>1, OnwardSame
<1>4. QED BY <1>2, <1>3

(* The file changes only for one of a revision never published before.     *)
LEMMA FilesMoveOnward ==
  ASSUME RegisterInv, [ControlNext]_controlVars
  PROVE  file' # file => file'.revision > file.revision
<1>1. control.pc = "reserved" => file.revision < revision
  BY DEF RegisterInv, RevisionRight
<1>2. CASE Publish \/ PublishFails BY <1>1, <1>2 DEF Publish, PublishFails, PutFile
<1>3. CASE ~(Publish \/ PublishFails)
  BY <1>3 DEF ControlNext, controlVars, ChallengeOperation, ChallengeAdmission, Submit, Admit, RevokePrincipal,
      Signed, Authorize, RefreshState, Reserve, Commit, CommitFails, Crash, Start, ReadState,
      InitializeReplay, Tick
<1>4. QED BY <1>2, <1>3

(* Whom the relay lets in is current.                                      *)
LEMMA CurrentAdmitted ==
  ASSUME RegisterInv, [ControlNext]_controlVars, NEW n \in 1..MaxTickets, admitted'[n] > admitted[n]
  PROVE  StillTrue(tickets[n])
<1>1. RegisterShapes /\ RowsRight /\ TicketsRight /\ ReplayRight /\ FileRight
  BY DEF RegisterInv
<1>2. admitted[n] \in Nat BY <1>1 DEF ReplayRight
<1>3. CASE \E m \in 1..MaxTickets : Authorize(m)
  <2>1. PICK m \in 1..MaxTickets : Authorize(m) BY <1>3
  <2>2. admitted' = [admitted EXCEPT ![m] = @ + 1] BY <2>1 DEF Authorize
  <2>3. m = n BY <1>1, <1>2, <2>2 DEF RegisterShapes
  <2>4. FileAllows(tickets[n]) /\ n \in 1..Len(tickets)
    BY <1>1, <2>1, <2>3 DEF Authorize, TicketsRight
  <2>5. PICK t : t = tickets[n]
    OBVIOUS
  <2>6. TicketRight(t) /\ FileAllows(t) BY <1>1, <2>4, <2>5 DEF TicketsRight
  <2>7. t.dev \in Principals /\ t.recv \in Principals /\ t.gen \in Nat
    BY <2>6 DEF TicketRight, Ticket
  <2>8. db.devices[t.dev].gen <= file.devices[t.dev].gen /\ t.gen <= db.devices[t.dev].gen
    BY <1>1, <2>6, <2>7 DEF FileRight, Onward, TicketRight, Device
  <2>9. db.devices[t.dev].gen = t.gen
    <3>1. db.devices[t.dev].gen \in Nat /\ file.devices[t.dev].gen = t.gen
      BY <1>1, <2>6, <2>7 DEF RowsRight, DeviceMap, Row, FileAllows
    <3>2. QED BY <2>7, <2>8, <3>1
  <2>10. db.devices[t.dev].status = "active" /\ db.devices[t.recv].status = "active"
    <3>1. /\ file.devices[t.dev].status = "active" /\ file.devices[t.recv].status = "active"
          /\ db.devices[t.dev].status # "absent" /\ db.devices[t.recv].status # "absent"
      BY <2>6 DEF FileAllows, TicketRight, Device
    <3>2. db.devices[t.dev].status # "revoked" /\ db.devices[t.recv].status # "revoked"
      BY <1>1, <2>7, <3>1 DEF FileRight, Onward
    <3>3. db.devices[t.dev].status \in {"absent", "active", "revoked"} /\ db.devices[t.recv].status \in {"absent", "active", "revoked"}
      BY <1>1, <2>7 DEF RowsRight, DeviceMap, Row
    <3>4. QED BY <3>1, <3>2, <3>3
  <2>11. QED BY <2>5, <2>9, <2>10 DEF StillTrue, IsActive, Device
<1>4. CASE ~ \E m \in 1..MaxTickets : Authorize(m)
  <2>1. admitted' = admitted
    BY <1>4 DEF ControlNext, controlVars, ChallengeOperation, ChallengeAdmission, Submit, Admit, RevokePrincipal,
      Signed, RefreshState, Reserve, Publish, PublishFails, Commit, CommitFails, Crash, Start, ReadState,
      InitializeReplay, Tick
  <2>2. QED BY <1>2, <2>1
<1>5. QED BY <1>3, <1>4

(* The register and the relay's view of it keep what they guarantee, for   *)
(* any devices, operations and bounds and whatever fails or crashes: a     *)
(* healthy file is what is committed, a ticket admits once, an operation   *)
(* takes effect once, revisions are not reused, the relay admits current   *)
(* keys only and a revocation is final.                                    *)
THEOREM RegisterKept == ControlSpec => RegisterSafe
<1>1. RegisterInv => /\ ControlTypeOK
                     /\ FileTellsCommitted
                     /\ TicketAdmitsOnce
                     /\ OperationsTakeEffectOnce
  BY RegisterSaid
<1>2. RegisterInv /\ RegisterInv' /\ [ControlNext]_controlVars =>
        [/\ file' # file => file'.revision > file.revision
         /\ NotRolledBack']_controlVars
  <2>1. RegisterInv' => NotRolledBack' BY DEF RegisterInv, ReplayRight
  <2>2. QED BY <2>1, FilesMoveOnward
<1>3. RegisterInv /\ [ControlNext]_controlVars =>
        [\A n \in 1..MaxTickets : admitted'[n] > admitted[n] => StillTrue(tickets[n])]_controlVars
  BY CurrentAdmitted
<1>4. RegisterInv /\ RegisterInv' /\ [ControlNext]_controlVars =>
        [\A d \in Principals : /\ Device(d).status = "revoked" => db'.devices[d].status = "revoked"
                               /\ db'.devices[d].gen >= Device(d).gen]_controlVars
  <2> SUFFICES ASSUME RegisterInv, RegisterInv', [ControlNext]_controlVars, NEW d \in Principals
               PROVE  /\ db.devices[d].status = "revoked" => db'.devices[d].status = "revoked"
                      /\ db'.devices[d].gen >= db.devices[d].gen
    BY DEF Device
  <2>1. Onward(db.devices, db'.devices) BY RowsMoveOnward
  <2>2. db.devices[d].gen \in Nat /\ db'.devices[d].gen \in Nat
    BY DEF RegisterInv, RowsRight, DeviceMap, Row
  <2>3. QED BY <2>1, <2>2 DEF Onward
<1>5. QED BY <1>1, <1>2, <1>3, <1>4, RegisterStarts, RegisterStep, PTL
  DEF ControlSpec, RegisterSafe, RevisionsStandForOne, AdmitsCurrentKeys, RevocationFinal

-----------------------------------------------------------------------------
(* One exchange over two routes, and the receiver's places.                *)

RouteShapes ==
  /\ DOMAIN client = {"pc", "pending", "winner", "sent"}
  /\ DOMAIN far = Raws /\ DOMAIN near = Own /\ DOMAIN task = Kinds
  /\ \A x \in DOMAIN places : IsFiniteSet(places[x])

(* Where a connection is counted follows from how far its handler is.      *)
InPlace(c) ==
  /\ c \in places.connections
  /\ \A k \in Kinds : c \in places[k] => k = c[1] /\ c \notin places.auth
  /\ c \in places[c[1]] \/ c \in places.auth
NoPlace(c) == \A x \in DOMAIN places : c \notin places[x]
RawRight(c) ==
  /\ far[c].pc \in {"none", "over"} => NoPlace(c) /\ far[c].open = FALSE
  /\ far[c].pc \in {"scheduled", "tls", "untrusted", "serving", "cleaning"} => InPlace(c)
  /\ far[c].pc \in {"scheduled", "tls", "untrusted"} => c \in places[c[1]]

Limits ==
  /\ \A k \in Kinds : Cardinality(places[k]) <= PreauthLimit[k]
  /\ Cardinality(places.auth) <= AuthLimit

(* Of the channels of a route only the current attempt's may be open, and  *)
(* an attempt that has not connected has not reached the receiver.         *)
Unused(c) == near[c] = "none" /\ far[c].pc = "none"
TaskRight(k) ==
  /\ task[k] \in Task /\ Current(k) \in Own
  /\ \A c \in Own : c[1] = k /\ c # Current(k) => Unused(c)
  /\ task[k].pc \in {"setup", "pause"} => Unused(Current(k))
  /\ task[k].pc = "pause" => k = "relay" /\ task[k].attempt = 1
  /\ task[k].pc \in {"failed", "cancelled"} => near[Current(k)] # "open"

Won ==
  /\ client.winner \in Own
  /\ \E w \in Kinds : client.winner = Current(w) /\ task[w].pc = "ready"
  /\ \A k \in Kinds : task[k].pc \in Finished
  /\ \A c \in Own \ {client.winner} : near[c] # "open" /\ client.sent[c] = 0
NoneWon == client.winner = <<>> /\ \A c \in Own : client.sent[c] = 0

ClientRight ==
  /\ client.pc \in {"racing", "sending", "waiting", "closing", "done"} /\ client.pending \subseteq Kinds
  /\ client.winner \in Own \cup {<<>>} /\ client.sent \in [Own -> 0..2]
  /\ client.pc = "racing" =>
       /\ NoneWon
       /\ \A k \in Kinds : task[k].pc # "cancelled" /\ (k \notin client.pending => task[k].pc = "failed")
  /\ client.pc \in {"sending", "waiting", "closing"} => Won
  /\ client.pc = "sending" => client.sent[client.winner] = 0
  /\ client.pc \in {"waiting", "closing"} => client.sent[client.winner] \in {0, 1}
  /\ client.pc = "done" =>
       \/ NoneWon /\ \A k \in Kinds : task[k].pc = "failed"
       \/ Won /\ client.sent[client.winner] \in {0, 1} /\ near[client.winner] # "open"

RouteInv ==
  /\ RouteTypeOK
  /\ RouteShapes
  /\ \A c \in Raws : RawRight(c)
  /\ Limits
  /\ \A k \in Kinds : TaskRight(k)
  /\ ClientRight

LEMMA Channels ==
  /\ Own = {<<"direct", 1>>, <<"relay", 1>>, <<"relay", 2>>}
  /\ Own \subseteq Raws /\ Strangers \subseteq Raws
  /\ \A c \in Raws : c[1] \in Kinds
  /\ \A c \in Strangers : c \notin Own
  /\ \A c \in Raws : c \notin Own => c \in Strangers
<1>1. Own = {<<"direct", 1>>, <<"relay", 1>>, <<"relay", 2>>} BY DEF Own, Channel
<1>2. \A c \in Own : c[1] \in Kinds /\ c[2] \in {1, 2} BY <1>1 DEF Kinds
<1>3. \A c \in Strangers : c[1] \in Kinds /\ c[2] > 2 BY StrangersAssumption
<1>4. QED BY <1>1, <1>2, <1>3 DEF Raws

LEMMA PlacesTyped ==
  ASSUME RouteInv
  PROVE  /\ DOMAIN places = {"direct", "relay", "auth", "connections"}
         /\ \A x \in DOMAIN places : places[x] \subseteq Raws /\ IsFiniteSet(places[x])
         /\ Kinds \subseteq DOMAIN places
         /\ \A k \in Kinds : PreauthLimit[k] \in Nat /\ AuthLimit \in Nat
         /\ far \in [Raws -> Far]
         /\ {listener, closing, withdrawn} \subseteq BOOLEAN
  BY PlacesAssumption DEF RouteInv, RouteTypeOK, RouteShapes, Kinds

(* A step that moves one connection between the receiver's places.         *)
Fits(set, new, c, limit) == new \subseteq set \/ (new = set \cup {c} /\ Cardinality(set) < limit)
LEMMA FitKept ==
  ASSUME NEW set, IsFiniteSet(set), NEW new, NEW c, NEW limit \in Nat, Cardinality(set) <= limit, Fits(set, new, c, limit)
  PROVE  IsFiniteSet(new) /\ Cardinality(new) <= limit
<1>1. Cardinality(set) \in Nat BY FS_CardinalityType
<1>2. CASE new \subseteq set
  <2>1. IsFiniteSet(new) /\ Cardinality(new) <= Cardinality(set) /\ Cardinality(new) \in Nat
    BY <1>2, FS_Subset, FS_CardinalityType
  <2>2. QED BY <1>1, <2>1
<1>3. CASE new = set \cup {c} /\ Cardinality(set) < limit
  <2>1. IsFiniteSet(set \cup {c}) /\ Cardinality(set \cup {c}) = IF c \in set THEN Cardinality(set) ELSE Cardinality(set) + 1
    BY FS_AddElement
  <2>2. QED BY <1>1, <1>3, <2>1
<1>4. QED BY <1>2, <1>3 DEF Fits

SeatsKept ==
  /\ far \in [Raws -> Far]
  /\ DOMAIN places = {"direct", "relay", "auth", "connections"}
  /\ \A x \in DOMAIN places : places[x] \subseteq Raws /\ IsFiniteSet(places[x])
  /\ Limits
  /\ \A c \in Raws : RawRight(c)
LEMMA Seated ==
  ASSUME RouteInv, NEW c \in Raws, NEW f \in Far, far' = [far EXCEPT ![c] = f], DOMAIN places' = DOMAIN places,
         \A x \in DOMAIN places : \A d \in Raws \ {c} : d \in places'[x] <=> d \in places[x],
         \A k \in Kinds : Fits(places[k], places'[k], c, PreauthLimit[k]),
         Fits(places.auth, places'.auth, c, AuthLimit),
         places'.connections \subseteq places.connections \cup {c},
         RawRight(c)'
  PROVE  SeatsKept'
<1>1. /\ DOMAIN places = {"direct", "relay", "auth", "connections"}
      /\ \A x \in DOMAIN places : places[x] \subseteq Raws /\ IsFiniteSet(places[x])
      /\ Kinds \subseteq DOMAIN places
      /\ \A k \in Kinds : PreauthLimit[k] \in Nat /\ AuthLimit \in Nat
      /\ far \in [Raws -> Far]
  BY PlacesTyped
<1>2. far' \in [Raws -> Far] /\ \A d \in Raws \ {c} : far'[d] = far[d] BY <1>1
<1>3. \A x \in DOMAIN places' : places'[x] \subseteq Raws
  <2>1. \A x \in Kinds \cup {"auth"} : places'[x] \subseteq places[x] \cup {c}
    BY DEF Fits
  <2>2. \A x \in DOMAIN places : places'[x] \subseteq places[x] \cup {c}
    BY <1>1, <2>1 DEF Kinds
  <2>3. QED BY <1>1, <2>2
<1>4. \A k \in Kinds : IsFiniteSet(places'[k]) /\ Cardinality(places'[k]) <= PreauthLimit[k]
  BY <1>1, FitKept DEF RouteInv, Limits
<1>5. IsFiniteSet(places'.auth) /\ Cardinality(places'.auth) <= AuthLimit
  <2>1. "direct" \in Kinds BY DEF Kinds
  <2>2. IsFiniteSet(places.auth) /\ Cardinality(places.auth) <= AuthLimit /\ AuthLimit \in Nat
    BY <1>1, <2>1 DEF RouteInv, Limits
  <2>3. QED BY <2>2, FitKept
<1>6. IsFiniteSet(places'.connections)
  <2>1. IsFiniteSet(places.connections) BY <1>1
  <2>2. IsFiniteSet(places.connections \cup {c}) BY <2>1, FS_AddElement
  <2>3. QED BY <2>2, FS_Subset
<1>7. \A d \in Raws \ {c} : RawRight(d)'
  <2> SUFFICES ASSUME NEW d \in Raws \ {c} PROVE RawRight(d)'
    OBVIOUS
  <2>1. RawRight(d) /\ far'[d] = far[d] /\ d[1] \in Kinds BY <1>2, Channels DEF RouteInv
  <2>2. \A x \in {"direct", "relay", "auth", "connections"} : d \in places'[x] <=> d \in places[x]
    BY <1>1
  <2>3. QED BY <1>1, <2>1, <2>2 DEF RawRight, InPlace, NoPlace, Kinds
<1>8. QED BY <1>1, <1>2, <1>3, <1>4, <1>5, <1>6, <1>7 DEF SeatsKept, Limits, Kinds

(* The places stay as they are.                                            *)
LEMMA SeatsStay ==
  ASSUME RouteInv, NEW c \in Raws, NEW f \in Far, far' = [far EXCEPT ![c] = f], places' = places, RawRight(c)'
  PROVE  SeatsKept'
<1>1. DOMAIN places' = DOMAIN places /\ (\A k \in Kinds : Fits(places[k], places'[k], c, PreauthLimit[k]))
      /\ Fits(places.auth, places'.auth, c, AuthLimit) /\ places'.connections \subseteq places.connections \cup {c}
  BY DEF Fits
<1>2. \A x \in DOMAIN places : \A d \in Raws \ {c} : d \in places'[x] <=> d \in places[x]
  OBVIOUS
<1>3. QED BY <1>1, <1>2, Seated

(* A step of the receiver leaves the client's side as it is.               *)
LEMMA ReceiverSteps ==
  ASSUME RouteInv, UNCHANGED <<client, task, near>>, SeatsKept', {listener', closing', withdrawn'} \subseteq BOOLEAN,
         \A c \in Own : far[c].pc = "none" => far'[c].pc = "none"
  PROVE  RouteInv'
<1>1. RouteTypeOK' /\ RouteShapes' /\ Limits' /\ \A c \in Raws : RawRight(c)'
  BY DEF RouteInv, SeatsKept, RouteTypeOK, RouteShapes
<1>2. \A k \in Kinds : TaskRight(k)'
  BY DEF RouteInv, TaskRight, Current, Channel, Unused
<1>3. ClientRight' BY DEF RouteInv, ClientRight, Won, NoneWon, Current, Channel
<1>4. QED BY <1>1, <1>2, <1>3 DEF RouteInv

(* Reserving a place for a connection, or turning it away.                 *)
LEMMA Spawns ==
  ASSUME RouteInv, NEW c \in Raws, far[c].pc = "none", Spawn(c)
  PROVE  SeatsKept' /\ \A d \in Raws \ {c} : far'[d] = far[d]
<1>1. /\ DOMAIN places = {"direct", "relay", "auth", "connections"} /\ far \in [Raws -> Far]
      /\ RawRight(c) /\ c[1] \in Kinds /\ NoPlace(c)
  BY PlacesTyped, Channels DEF RouteInv, RawRight
<1>2. PICK k \in Kinds : k = c[1] BY <1>1
<1>3. CASE ~closing /\ PlaceFree(c)
  <2>1. PICK f : f = [pc |-> "scheduled", open |-> TRUE]
    OBVIOUS
  <2>2. f \in Far /\ far' = [far EXCEPT ![c] = f] /\ far'[c] = f
    BY <1>1, <1>3, <2>1 DEF Spawn, Far
  <2>3. places' = [places EXCEPT ![k] = @ \cup {c}, !.connections = @ \cup {c}] /\ Cardinality(places[k]) < PreauthLimit[k]
    BY <1>2, <1>3 DEF Spawn, PlaceFree
  <2>4. /\ DOMAIN places' = DOMAIN places /\ places'[k] = places[k] \cup {c}
        /\ places'.connections = places.connections \cup {c} /\ places'.auth = places.auth
        /\ \A j \in Kinds \ {k} : places'[j] = places[j]
    BY <1>1, <2>3 DEF Kinds
  <2>5. \A j \in Kinds : Fits(places[j], places'[j], c, PreauthLimit[j])
    BY <2>3, <2>4 DEF Fits
  <2>6. RawRight(c)'
    BY <1>1, <1>2, <2>1, <2>2, <2>4 DEF RawRight, InPlace, NoPlace, Kinds
  <2>7. \A x \in DOMAIN places : \A d \in Raws \ {c} : d \in places'[x] <=> d \in places[x]
    BY <1>1, <2>4 DEF Kinds
  <2>8. Fits(places.auth, places'.auth, c, AuthLimit) BY <2>4 DEF Fits
  <2>9. QED BY <1>1, <2>2, <2>4, <2>5, <2>6, <2>7, <2>8, Seated
<1>4. CASE ~(~closing /\ PlaceFree(c))
  <2>1. PICK f : f = [pc |-> "over", open |-> FALSE]
    OBVIOUS
  <2>2. f \in Far /\ far' = [far EXCEPT ![c] = f] /\ far'[c] = f /\ places' = places
    BY <1>1, <1>4, <2>1 DEF Spawn, Far
  <2>3. RawRight(c)' BY <1>1, <2>1, <2>2 DEF RawRight, NoPlace
  <2>4. QED BY <1>1, <2>2, <2>3, SeatsStay
<1>5. QED BY <1>3, <1>4

(* A handler that goes on where it is.                                     *)
LEMMA HandlersGoOn ==
  ASSUME RouteInv, NEW c \in Raws, HandlerStarts(c) \/ HandlerEnds(c) \/ WatchPeer(c)
  PROVE  RouteInv'
<1>1. far \in [Raws -> Far] /\ RawRight(c) /\ {listener, closing, withdrawn} \subseteq BOOLEAN
  BY PlacesTyped DEF RouteInv
<1>2. PICK f : f = far'[c]
  OBVIOUS
<1>3. /\ f \in Far /\ far' = [far EXCEPT ![c] = f] /\ far[c].pc \in {"scheduled", "tls", "untrusted", "serving"}
      /\ \/ far[c].pc = "scheduled" /\ f.pc \in {"tls", "untrusted"}
         \/ f.pc = "cleaning"
         \/ f.pc = "serving" /\ far[c].pc = "serving"
  <2>1. CASE HandlerStarts(c) BY <1>1, <1>2, <2>1 DEF HandlerStarts, Far
  <2>2. CASE HandlerEnds(c) BY <1>1, <1>2, <2>2 DEF HandlerEnds, Far
  <2>3. CASE WatchPeer(c) BY <1>1, <1>2, <2>3 DEF WatchPeer, Far
  <2>4. QED BY <2>1, <2>2, <2>3
<1>4. UNCHANGED <<client, task, near, places, listener, closing, withdrawn>>
  BY DEF HandlerStarts, HandlerEnds, WatchPeer
<1>5. far'[c] = f BY <1>2
<1>6. RawRight(c)' BY <1>1, <1>3, <1>4, <1>5 DEF RawRight, InPlace
<1>7. SeatsKept' BY <1>3, <1>4, <1>6, SeatsStay
<1>8. \A d \in Own : far[d].pc = "none" => far'[d].pc = "none" BY <1>1, <1>3, Channels
<1>9. QED BY <1>1, <1>4, <1>7, <1>8, ReceiverSteps

LEMMA Serves ==
  ASSUME RouteInv, NEW c \in Raws, Served(c) \/ Cleanup(c)
  PROVE  RouteInv'
<1>1. /\ far \in [Raws -> Far] /\ RawRight(c) /\ {listener, closing, withdrawn} \subseteq BOOLEAN
      /\ DOMAIN places = {"direct", "relay", "auth", "connections"} /\ c[1] \in Kinds
  BY PlacesTyped, Channels DEF RouteInv
<1>2. UNCHANGED <<client, task, near, listener, closing, withdrawn>>
  BY DEF Served, Cleanup
<1>3. SeatsKept' /\ far[c].pc # "none" /\ \A d \in Raws \ {c} : far'[d] = far[d]
  <2>1. CASE Cleanup(c)
    <3>1. PICK f : f = [pc |-> "over", open |-> FALSE]
      OBVIOUS
    <3>2. f \in Far /\ far' = [far EXCEPT ![c] = f] /\ far'[c] = f /\ far[c].pc # "none"
          /\ places' = [x \in DOMAIN places |-> places[x] \ {c}]
      BY <1>1, <2>1, <3>1 DEF Cleanup, Far, Released
    <3>3. DOMAIN places' = DOMAIN places /\ \A x \in DOMAIN places : places'[x] = places[x] \ {c}
      BY <3>2
    <3>4. RawRight(c)' BY <3>1, <3>2, <3>3 DEF RawRight, NoPlace
    <3>5. (\A j \in Kinds : Fits(places[j], places'[j], c, PreauthLimit[j])) /\ Fits(places.auth, places'.auth, c, AuthLimit)
      BY <1>1, <3>3 DEF Fits, Kinds
    <3>6. places'.connections \subseteq places.connections \cup {c} BY <1>1, <3>3
    <3>7. \A x \in DOMAIN places : \A d \in Raws \ {c} : d \in places'[x] <=> d \in places[x]
      BY <3>3
    <3>8. QED BY <1>1, <3>2, <3>3, <3>4, <3>5, <3>6, <3>7, Seated
  <2>2. CASE Authenticates(c) /\ Cardinality(places.auth) < AuthLimit
    <3>1. PICK f : f = [far[c] EXCEPT !.pc = "serving"]
      OBVIOUS
    <3>2. f \in Far /\ far' = [far EXCEPT ![c] = f] /\ far'[c] = f /\ far[c].pc = "tls" /\ f.pc = "serving" /\ places' = Moved(c)
      BY <1>1, <2>2, <3>1 DEF Authenticates, Far
    <3>3. /\ DOMAIN places' = DOMAIN places /\ places'.auth = places.auth \cup {c} /\ places'.direct = places.direct \ {c}
          /\ places'.relay = places.relay \ {c} /\ places'.connections = places.connections
      BY <1>1, <3>2 DEF Moved
    <3>4. RawRight(c)' BY <1>1, <3>2, <3>3 DEF RawRight, InPlace, Kinds
    <3>5. (\A j \in Kinds : Fits(places[j], places'[j], c, PreauthLimit[j])) /\ Fits(places.auth, places'.auth, c, AuthLimit)
      BY <1>1, <2>2, <3>3 DEF Fits, Kinds
    <3>6. \A x \in DOMAIN places : \A d \in Raws \ {c} : d \in places'[x] <=> d \in places[x]
      BY <1>1, <3>3
    <3>7. QED BY <1>1, <3>2, <3>3, <3>4, <3>5, <3>6, Seated
  <2>3. CASE (Authenticates(c) /\ ~(Cardinality(places.auth) < AuthLimit)) \/ StaysCertless(c)
    <3>1. PICK f : f = far'[c]
      OBVIOUS
    <3>2. f \in Far /\ far' = [far EXCEPT ![c] = f] /\ far'[c] = f /\ far[c].pc = "tls" /\ f.pc \in {"serving", "cleaning"}
          /\ places' = places
      BY <1>1, <2>3, <3>1 DEF Authenticates, StaysCertless, Far
    <3>3. RawRight(c)' BY <1>1, <3>2 DEF RawRight, InPlace
    <3>4. QED BY <1>1, <3>2, <3>3, SeatsStay
  <2>4. QED BY <2>1, <2>2, <2>3 DEF Served
<1>4. \A d \in Own : far[d].pc = "none" => far'[d].pc = "none" BY <1>3, Channels
<1>5. QED BY <1>1, <1>2, <1>3, <1>4, ReceiverSteps

LEMMA StrangersCome ==
  ASSUME RouteInv, NEW c \in Raws, StrangerArrives(c)
  PROVE  RouteInv'
<1>1. far[c].pc = "none" /\ Spawn(c) /\ c \in Strangers /\ UNCHANGED <<client, task, near, closing, withdrawn>>
  BY DEF StrangerArrives
<1>2. SeatsKept' /\ \A d \in Raws \ {c} : far'[d] = far[d] BY <1>1, Spawns
<1>3. {listener', closing', withdrawn'} \subseteq BOOLEAN
  BY <1>1, PlacesTyped DEF StrangerArrives
<1>4. \A d \in Own : far[d].pc = "none" => far'[d].pc = "none" BY <1>1, <1>2, Channels
<1>5. QED BY <1>1, <1>2, <1>3, <1>4, ReceiverSteps

LEMMA ReceiverEnds ==
  ASSUME RouteInv, Close \/ Listen \/ Withdraw
  PROVE  RouteInv'
<1>1. /\ DOMAIN places = {"direct", "relay", "auth", "connections"} /\ far \in [Raws -> Far]
      /\ \A x \in DOMAIN places : places[x] \subseteq Raws /\ IsFiniteSet(places[x])
      /\ Kinds \subseteq DOMAIN places
      /\ \A k \in Kinds : PreauthLimit[k] \in Nat /\ AuthLimit \in Nat
      /\ {listener, closing, withdrawn} \subseteq BOOLEAN
  BY PlacesTyped
<1>2. UNCHANGED <<client, task, near>> /\ {listener', closing', withdrawn'} \subseteq BOOLEAN
  BY <1>1 DEF Close, Listen, Withdraw
<1>3. CASE Close
  <2>1. PICK out : out = Dropped
    OBVIOUS
  <2>2. \A c \in Raws : c \in out <=> far[c].pc = "scheduled" BY <2>1 DEF Dropped
  <2>3. /\ places' = [x \in DOMAIN places |-> places[x] \ out]
        /\ DOMAIN places' = DOMAIN places /\ \A x \in DOMAIN places : places'[x] = places[x] \ out
    BY <1>3, <2>1 DEF Close
  <2>4. \A c \in Raws :
          \/ c \in out /\ far'[c] = [pc |-> "over", open |-> FALSE]
          \/ c \notin out /\ far[c].pc \in {"tls", "untrusted", "serving"} /\ far'[c] = [far[c] EXCEPT !.pc = "cleaning"]
          \/ c \notin out /\ far[c].pc \in {"none", "cleaning", "over"} /\ far'[c] = far[c]
    <3>1. far' = [c \in Raws |-> CASE c \in out -> [pc |-> "over", open |-> FALSE]
                                    [] c \notin out /\ far[c].pc = "scheduled" -> [pc |-> "over", open |-> TRUE]
                                    [] far[c].pc \in {"tls", "untrusted", "serving"} -> [far[c] EXCEPT !.pc = "cleaning"]
                                    [] OTHER -> far[c]]
      BY <1>3, <2>1 DEF Close
    <3> SUFFICES ASSUME NEW c \in Raws
                 PROVE  \/ c \in out /\ far'[c] = [pc |-> "over", open |-> FALSE]
                        \/ c \notin out /\ far[c].pc \in {"tls", "untrusted", "serving"} /\ far'[c] = [far[c] EXCEPT !.pc = "cleaning"]
                        \/ c \notin out /\ far[c].pc \in {"none", "cleaning", "over"} /\ far'[c] = far[c]
      OBVIOUS
    <3>2. far[c].pc \in {"none", "scheduled", "tls", "untrusted", "serving", "cleaning", "over"}
      BY <1>1 DEF Far
    <3>3. CASE far[c].pc = "scheduled" BY <2>2, <3>1, <3>3
    <3>4. CASE far[c].pc \in {"tls", "untrusted", "serving"} BY <2>2, <3>1, <3>4
    <3>5. CASE far[c].pc \in {"none", "cleaning", "over"} BY <2>2, <3>1, <3>5
    <3>6. QED BY <3>2, <3>3, <3>4, <3>5
  <2>5. \A c \in Raws : far'[c] \in Far
    <3> SUFFICES ASSUME NEW c \in Raws PROVE far'[c] \in Far
      OBVIOUS
    <3>1. PICK f \in Far : f = far[c] BY <1>1
    <3>2. far'[c] = [pc |-> "over", open |-> FALSE] \/ far'[c] = [f EXCEPT !.pc = "cleaning"] \/ far'[c] = f
      BY <2>4, <3>1
    <3>3. CASE far'[c] = [f EXCEPT !.pc = "cleaning"] BY <3>1, <3>3 DEF Far
    <3>4. CASE far'[c] = [pc |-> "over", open |-> FALSE] BY <3>4 DEF Far
    <3>5. QED BY <3>1, <3>2, <3>3, <3>4
  <2>6. far' \in [Raws -> Far] BY <1>3, <2>5 DEF Close
  <2>7. \A x \in DOMAIN places : places'[x] \subseteq Raws /\ IsFiniteSet(places'[x])
    BY <1>1, <2>3, FS_Subset
  <2>8. Limits'
    <3>1. \A k \in Kinds : IsFiniteSet(places[k]) /\ Cardinality(places[k]) <= PreauthLimit[k] /\ Fits(places[k], places'[k], 0, PreauthLimit[k])
      BY <1>1, <2>3 DEF RouteInv, Limits, Fits
    <3>2. "direct" \in Kinds BY DEF Kinds
    <3>3. IsFiniteSet(places.auth) /\ Cardinality(places.auth) <= AuthLimit /\ Fits(places.auth, places'.auth, 0, AuthLimit) /\ AuthLimit \in Nat
      BY <1>1, <2>3, <3>2 DEF RouteInv, Limits, Fits
    <3>4. \A k \in Kinds : Cardinality(places'[k]) <= PreauthLimit[k]
      BY <1>1, <3>1, FitKept
    <3>5. Cardinality(places'.auth) <= AuthLimit BY <3>3, FitKept
    <3>6. QED BY <3>4, <3>5 DEF Limits
  <2>9. ASSUME NEW c \in Raws PROVE RawRight(c)'
    <3>1. RawRight(c) /\ c[1] \in Kinds BY Channels DEF RouteInv
    <3>2. CASE c \in out
      <4>1. far'[c] = [pc |-> "over", open |-> FALSE] BY <2>4, <3>2
      <4>2. far'[c].pc = "over" /\ far'[c].open = FALSE BY <4>1
      <4>3. NoPlace(c)' BY <2>3, <3>2 DEF NoPlace
      <4>4. QED BY <4>2, <4>3 DEF RawRight
    <3>3. CASE c \notin out
      <4>1. \A x \in {"direct", "relay", "auth", "connections"} : c \in places'[x] <=> c \in places[x]
        BY <1>1, <2>3, <3>3
      <4>2. \/ far[c].pc \in {"tls", "untrusted", "serving"} /\ far'[c].pc = "cleaning"
            \/ far[c].pc \in {"none", "cleaning", "over"} /\ far'[c] = far[c]
        BY <1>1, <2>4, <3>3 DEF Far
      <4>3. QED BY <1>1, <2>3, <3>1, <4>1, <4>2 DEF RawRight, InPlace, NoPlace, Kinds
    <3>4. QED BY <3>2, <3>3
  <2>10. SeatsKept' BY <1>1, <2>3, <2>6, <2>7, <2>8, <2>9 DEF SeatsKept
  <2>11. \A c \in Own : far[c].pc = "none" => far'[c].pc = "none"
    BY <2>2, <2>4, Channels
  <2>12. QED BY <1>2, <2>10, <2>11, ReceiverSteps
<1>4. CASE Listen \/ Withdraw
  <2>1. UNCHANGED <<far, places>> BY <1>4 DEF Listen, Withdraw
  <2>2. SeatsKept'
    BY <1>1, <2>1 DEF SeatsKept, RouteInv, Limits, RawRight, InPlace, NoPlace
  <2>3. QED BY <1>2, <2>1, <2>2, ReceiverSteps
<1>5. QED BY <1>3, <1>4

(* A step of the client's exchange leaves the receiver's side as it is.    *)
LEMMA ClientSteps ==
  ASSUME RouteInv, UNCHANGED <<far, places, listener, closing, withdrawn>>,
         DOMAIN client' = DOMAIN client, near' \in [Own -> {"none", "open", "closed"}], task' \in [Kinds -> Task],
         (\A k \in Kinds : TaskRight(k))', ClientRight'
  PROVE  RouteInv'
<1>1. RouteTypeOK' /\ RouteShapes'
  <2>1. /\ client'.pc \in ClientPCs /\ client'.pending \subseteq Kinds
        /\ client'.winner \in Own \cup {<<>>} /\ client'.sent \in [Own -> 0..2]
    BY DEF ClientRight, ClientPCs
  <2>2. RouteTypeOK /\ RouteShapes BY DEF RouteInv
  <2>3. RouteTypeOK' BY <2>1, <2>2 DEF RouteTypeOK
  <2>4. DOMAIN near' = Own /\ DOMAIN task' = Kinds
    OBVIOUS
  <2>5. RouteShapes' BY <2>2, <2>4 DEF RouteShapes
  <2>6. QED BY <2>3, <2>5
<1>2. Limits' /\ \A c \in Raws : RawRight(c)'
  BY DEF RouteInv, Limits, RawRight, InPlace, NoPlace
<1>3. QED BY <1>1, <1>2 DEF RouteInv

LEMMA ClientTyped ==
  ASSUME RouteInv
  PROVE  /\ DOMAIN client = {"pc", "pending", "winner", "sent"} /\ task \in [Kinds -> Task]
         /\ near \in [Own -> {"none", "open", "closed"}]
         /\ \A k \in Kinds : TaskRight(k) /\ Current(k) \in Own /\ Current(k)[1] = k
         /\ ClientRight
<1>1. \A k \in Kinds : Current(k)[1] = k BY DEF Current, Channel
<1>2. QED BY <1>1 DEF RouteInv, RouteTypeOK, RouteShapes, TaskRight

(* A step of one dialling task, which is under way, so that the race is.   *)
LEMMA Dials ==
  ASSUME RouteInv, NEW k \in Kinds, Live(k), client' = client,
         \A j \in Kinds \ {k} : task'[j] = task[j], task'[k].pc # "cancelled",
         \A c \in Own \ {Current(k)} : near'[c] = near[c] /\ far'[c] = far[c],
         TaskRight(k)'
  PROVE  (\A j \in Kinds : TaskRight(j))' /\ ClientRight'
<1>1. /\ task \in [Kinds -> Task] /\ near \in [Own -> {"none", "open", "closed"}]
      /\ \A j \in Kinds : TaskRight(j) /\ Current(j) \in Own /\ Current(j)[1] = j
      /\ ClientRight
  BY ClientTyped
<1>2. ASSUME NEW j \in Kinds \ {k} PROVE TaskRight(j)'
  <2>1. TaskRight(j) /\ task'[j] = task[j] /\ Current(j)' = Current(j)
    BY <1>1 DEF Current, Channel
  <2>2. \A c \in Own : c[1] = j => near'[c] = near[c] /\ far'[c] = far[c] BY <1>1
  <2>3. QED BY <1>1, <2>1, <2>2 DEF TaskRight, Unused
<1>3. client.pc = "racing" /\ k \in client.pending
  <2>1. task[k].pc \notin {"ready", "failed", "cancelled"} BY DEF Live, Finished
  <2>2. QED BY <1>1, <2>1 DEF ClientRight, Won, Finished
<1>4. ClientRight' BY <1>1, <1>3 DEF ClientRight, NoneWon
<1>5. QED BY <1>2, <1>4

LEMMA TasksGoOn ==
  ASSUME RouteInv, NEW k \in Kinds, TimesOut(k) \/ Fails(k) \/ TriesAgain(k) \/ Handshake(k) \/ Probed(k)
  PROVE  RouteInv'
<1>1. /\ task \in [Kinds -> Task] /\ near \in [Own -> {"none", "open", "closed"}]
      /\ TaskRight(k) /\ Current(k) \in Own /\ Current(k)[1] = k
      /\ ClientRight
  BY ClientTyped
<1>2. UNCHANGED <<client, far, places, listener, closing, withdrawn>>
  BY DEF TimesOut, Fails, TriesAgain, Handshake, Probed
<1>3. Live(k) BY DEF TimesOut, Fails, TriesAgain, Handshake, Probed, Live, Finished
<1>4. PICK t : t = task'[k]
  OBVIOUS
<1>5. PICK old \in Task : old = task[k] BY <1>1
<1>6. CASE TriesAgain(k)
  <2>1. task' = [task EXCEPT ![k] = [pc |-> "setup", attempt |-> @.attempt + 1]] /\ near' = near /\ old.pc = "pause"
    BY <1>5, <1>6 DEF TriesAgain
  <2>2. k = "relay" /\ old.attempt = 1 BY <1>1, <1>5, <2>1 DEF TaskRight
  <2>3. t = [pc |-> "setup", attempt |-> 2] /\ t \in Task
    BY <1>1, <1>4, <1>5, <2>1, <2>2 DEF Task
  <2>4. task' \in [Kinds -> Task] /\ \A j \in Kinds \ {k} : task'[j] = task[j]
    BY <1>1, <1>4, <2>1, <2>3
  <2>5. Current(k) = <<"relay", 1>> /\ Current(k)' = <<"relay", 2>> /\ <<"relay", 2>> \in Own
    BY <1>4, <1>5, <2>2, <2>3, Channels DEF Current, Channel
  <2>6. Unused(<<"relay", 2>>) /\ Unused(<<"relay", 1>>)
    <3>1. <<"relay", 2>>[1] = k /\ <<"relay", 2>> # Current(k) BY <2>2, <2>5
    <3>2. QED BY <1>1, <1>5, <2>1, <2>5, <3>1 DEF TaskRight
  <2>7. \A c \in Own : c[1] = k => Unused(c)'
    BY <1>2, <2>1, <2>2, <2>6, Channels DEF Unused
  <2>8. TaskRight(k)' BY <1>4, <2>2, <2>3, <2>5, <2>7 DEF TaskRight
  <2>9. (\A j \in Kinds : TaskRight(j))' /\ ClientRight'
    BY <1>2, <1>3, <1>4, <2>1, <2>3, <2>4, <2>8, Dials
  <2>10. QED BY <1>1, <1>2, <2>1, <2>4, <2>9, ClientSteps
<1>7. CASE ~TriesAgain(k)
  <2>1. PICK pc : /\ task' = [task EXCEPT ![k].pc = pc]
                  /\ \/ near' = near /\ pc \in {"probe", "ready"}
                     \/ /\ near' = [near EXCEPT ![Current(k)] = IF @ = "open" THEN "closed" ELSE @]
                        /\ pc = "failed" \/ (pc = "pause" /\ old.pc = "setup" /\ k = "relay" /\ old.attempt = 1)
    BY <1>5, <1>7 DEF TimesOut, Fails, Handshake, Probed, To, Again
  <2>2. pc \in {"probe", "ready", "failed", "pause"} BY <2>1
  <2>3. t = [old EXCEPT !.pc = pc] /\ t \in Task /\ t.pc = pc /\ t.attempt = old.attempt
    BY <1>1, <1>4, <1>5, <2>1, <2>2 DEF Task
  <2>4. task' \in [Kinds -> Task] /\ \A j \in Kinds \ {k} : task'[j] = task[j]
    BY <1>1, <1>4, <2>1, <2>3
  <2>5. PICK e \in Own : e = Current(k) BY <1>1
  <2>6. /\ near' \in [Own -> {"none", "open", "closed"}] /\ \A c \in Own \ {e} : near'[c] = near[c]
        /\ near[e] = "none" => near'[e] = "none"
        /\ pc \in {"failed", "pause"} => near'[e] # "open"
    <3>1. CASE near' = near /\ pc \in {"probe", "ready"} BY <1>1, <3>1
    <3>2. CASE near' = [near EXCEPT ![e] = IF @ = "open" THEN "closed" ELSE @]
      BY <1>1, <3>2
    <3>3. QED BY <2>1, <2>5, <3>1, <3>2
  <2>7. Current(k)' = e BY <1>4, <1>5, <2>3, <2>5 DEF Current, Channel
  <2>8. \A c \in Own : c[1] = k /\ c # e => Unused(c)'
    BY <1>1, <1>2, <2>5, <2>6 DEF TaskRight, Unused
  <2>9. pc = "pause" => Unused(e)'
    BY <1>1, <1>2, <1>5, <2>1, <2>5, <2>6 DEF TaskRight, Unused
  <2>10. TaskRight(k)'
    BY <1>4, <2>1, <2>2, <2>3, <2>5, <2>6, <2>7, <2>8, <2>9 DEF TaskRight
  <2>11. (\A j \in Kinds : TaskRight(j))' /\ ClientRight'
    BY <1>2, <1>3, <1>4, <2>2, <2>3, <2>4, <2>5, <2>6, <2>10, Dials
  <2>12. QED BY <1>1, <1>2, <2>4, <2>6, <2>11, ClientSteps
<1>8. QED BY <1>6, <1>7

LEMMA Attaches ==
  ASSUME RouteInv, NEW k \in Kinds, Connects(k)
  PROVE  RouteInv'
<1>1. /\ task \in [Kinds -> Task] /\ near \in [Own -> {"none", "open", "closed"}]
      /\ TaskRight(k) /\ Current(k) \in Own /\ Current(k)[1] = k
      /\ ClientRight
  BY ClientTyped
<1>2. PICK e \in Own : e = Current(k) BY <1>1
<1>3. client' = client /\ UNCHANGED <<closing, withdrawn>> /\ Spawn(e) /\ task[k].pc = "setup"
  BY <1>2 DEF Connects
<1>4. far[e].pc = "none" /\ near[e] = "none" BY <1>1, <1>2, <1>3 DEF TaskRight, Unused
<1>5. SeatsKept' /\ \A d \in Raws \ {e} : far'[d] = far[d]
  BY <1>3, <1>4, Channels, Spawns
<1>6. PICK pc, end : /\ task' = [task EXCEPT ![k].pc = pc] /\ near' = [near EXCEPT ![e] = end]
                     /\ (pc = "tls" /\ end = "open") \/ (pc = "failed" /\ end = "closed")
  BY <1>2 DEF Connects, To
<1>7. PICK old \in Task : old = task[k] BY <1>1
<1>8. PICK t : t = task'[k]
  OBVIOUS
<1>9. t \in Task /\ t.pc = pc /\ t.attempt = old.attempt
  <2>1. t = [old EXCEPT !.pc = pc] /\ pc \in {"tls", "failed"} BY <1>1, <1>6, <1>7, <1>8
  <2>2. QED BY <2>1 DEF Task
<1>10. /\ task' \in [Kinds -> Task] /\ \A j \in Kinds \ {k} : task'[j] = task[j]
       /\ near' \in [Own -> {"none", "open", "closed"}] /\ \A c \in Own \ {e} : near'[c] = near[c]
       /\ near'[e] = end
  BY <1>1, <1>6, <1>8, <1>9
<1>11. Current(k)' = e BY <1>2, <1>7, <1>8, <1>9 DEF Current, Channel
<1>12. \A c \in Own : c[1] = k /\ c # e => Unused(c)'
  BY <1>1, <1>2, <1>5, <1>10, Channels DEF TaskRight, Unused
<1>13. TaskRight(k)' BY <1>6, <1>8, <1>9, <1>10, <1>11, <1>12 DEF TaskRight
<1>14. Live(k) /\ task'[k].pc # "cancelled" BY <1>3, <1>6, <1>8, <1>9 DEF Live, Finished
<1>15. (\A j \in Kinds : TaskRight(j))' /\ ClientRight'
  BY <1>2, <1>3, <1>5, <1>10, <1>13, <1>14, Channels, Dials
<1>16. {listener', closing', withdrawn'} \subseteq BOOLEAN
  BY <1>3, PlacesTyped DEF Connects
<1>17. RouteTypeOK' /\ RouteShapes' /\ Limits' /\ \A c \in Raws : RawRight(c)'
  BY <1>3, <1>5, <1>10, <1>15, <1>16 DEF RouteInv, RouteTypeOK, RouteShapes, SeatsKept, ClientRight
<1>18. QED BY <1>15, <1>17 DEF RouteInv

LEMMA Prefers ==
  ASSUME NEW ks \in SUBSET Kinds, ks # {}
  PROVE  Preferred(ks) \in ks
  BY DEF Preferred, Kinds

LEMMA Selects ==
  ASSUME RouteInv, Select
  PROVE  RouteInv'
<1>1. /\ task \in [Kinds -> Task] /\ near \in [Own -> {"none", "open", "closed"}]
      /\ \A k \in Kinds : TaskRight(k) /\ Current(k) \in Own /\ Current(k)[1] = k
      /\ ClientRight /\ DOMAIN client = {"pc", "pending", "winner", "sent"}
  BY ClientTyped
<1>2. UNCHANGED <<far, places, listener, closing, withdrawn>> /\ client.pc = "racing"
  BY DEF Select
<1>3. NoneWon /\ \A k \in Kinds : task[k].pc # "cancelled" /\ (k \notin client.pending => task[k].pc = "failed")
  BY <1>1, <1>2 DEF ClientRight
<1>4. PICK done : done = {k \in client.pending : ~Live(k)}
  OBVIOUS
<1>5. done \subseteq Kinds /\ Ready(done) \subseteq done /\ \A k \in Ready(done) : task[k].pc = "ready"
  BY <1>1, <1>4 DEF ClientRight, Ready
<1>6. CASE Ready(done) # {}
  <2>1. PICK w \in Kinds : w = Preferred(Ready(done)) /\ task[w].pc = "ready"
    BY <1>5, <1>6, Prefers
  <2>2. PICK e \in Own : e = Current(w) BY <1>1
  <2>3. /\ client' = [client EXCEPT !.pc = "sending", !.pending = {}, !.winner = e]
        /\ task' = Cancelled(Kinds \ {w}) /\ near' = ClosedBy(Losers(w))
    BY <1>4, <1>6, <2>1, <2>2 DEF Select
  <2>4. DOMAIN client' = DOMAIN client /\ client'.pc = "sending" /\ client'.pending = {} /\ client'.winner = e /\ client'.sent = client.sent
    BY <1>1, <2>3
  <2>5. \A k \in Kinds : \/ task'[k] = task[k] /\ task[k].pc \in Finished
                         \/ k # w /\ task'[k] = [task[k] EXCEPT !.pc = "cancelled"]
    BY <1>1, <2>1, <2>3 DEF Cancelled, Live, Finished
  <2>6. \A k \in Kinds : /\ task'[k] \in Task /\ task'[k].attempt = task[k].attempt /\ task'[k].pc \in Finished
                         /\ task'[k] # task[k] => k # w
                         /\ task'[k].pc \in {"failed", "cancelled"} => k # w
    <3> SUFFICES ASSUME NEW k \in Kinds
                 PROVE  /\ task'[k] \in Task /\ task'[k].attempt = task[k].attempt /\ task'[k].pc \in Finished
                        /\ task'[k] # task[k] => k # w
                        /\ task'[k].pc \in {"failed", "cancelled"} => k # w
      OBVIOUS
    <3>1. PICK old \in Task : old = task[k] BY <1>1
    <3>2. CASE task'[k] = task[k] /\ task[k].pc \in Finished BY <2>1, <3>1, <3>2
    <3>3. CASE k # w /\ task'[k] = [old EXCEPT !.pc = "cancelled"]
      BY <3>1, <3>3 DEF Task, Finished
    <3>4. QED BY <2>5, <3>1, <3>2, <3>3
  <2>7. task' \in [Kinds -> Task] BY <2>3, <2>6 DEF Cancelled
  <2>8. \A k \in Kinds : Current(k)' = Current(k) BY <2>6 DEF Current, Channel
  <2>9. /\ near' \in [Own -> {"none", "open", "closed"}]
        /\ \A c \in Own : near[c] = "none" => near'[c] = "none"
        /\ \A c \in Own : near'[c] = "open" => near[c] = "open" /\ c \notin Losers(w)
    BY <1>1, <2>3 DEF ClosedBy
  <2>10. \A k \in Kinds : k # w => Current(k) \in Losers(w) BY DEF Losers
  <2>11. ASSUME NEW k \in Kinds PROVE TaskRight(k)'
    <3>1. \A c \in Own : Unused(c) => Unused(c)' BY <1>2, <2>9 DEF Unused
    <3>2. TaskRight(k) /\ task'[k].pc \in Finished /\ Current(k)' = Current(k)
      BY <1>1, <2>6, <2>8
    <3>3. task'[k].pc \in {"failed", "cancelled"} => near'[Current(k)] # "open"
      BY <1>1, <2>6, <2>9, <2>10
    <3>4. QED BY <2>6, <3>1, <3>2, <3>3 DEF TaskRight, Finished
  <2>12. \A c \in Own \ {e} : near'[c] # "open"
    <3> SUFFICES ASSUME NEW c \in Own \ {e} PROVE near'[c] # "open"
      OBVIOUS
    <3>1. PICK k \in Kinds : k = c[1] BY Channels
    <3>2. CASE c = Current(k) BY <2>2, <2>9, <2>10, <3>2
    <3>3. CASE c # Current(k) BY <1>1, <2>9, <3>1, <3>3 DEF TaskRight, Unused
    <3>4. QED BY <3>2, <3>3
  <2>13. Won'
    <3>1. \A c \in Own : client.sent[c] = 0 BY <1>3 DEF NoneWon
    <3>2. client'.winner = Current(w)' /\ task'[w].pc = "ready"
      BY <2>1, <2>2, <2>4, <2>6, <2>8
    <3>3. QED BY <2>4, <2>6, <2>12, <3>1, <3>2 DEF Won
  <2>14. ClientRight'
    <3>1. client'.sent[client'.winner] = 0 BY <1>3, <2>4 DEF NoneWon
    <3>2. QED BY <1>1, <2>4, <2>13, <3>1 DEF ClientRight
  <2>15. QED BY <1>2, <2>4, <2>7, <2>9, <2>11, <2>14, ClientSteps
<1>7. CASE Ready(done) = {}
  <2>1. /\ client' = [client EXCEPT !.pending = @ \ done, !.pc = IF client.pending = done THEN "done" ELSE @]
        /\ UNCHANGED <<task, near>>
    BY <1>4, <1>7 DEF Select
  <2>2. DOMAIN client' = DOMAIN client /\ client'.winner = client.winner /\ client'.sent = client.sent
        /\ client'.pending = client.pending \ done
        /\ client'.pc = IF client.pending = done THEN "done" ELSE "racing"
    BY <1>1, <1>2, <2>1
  <2>3. \A k \in done : task[k].pc = "failed"
    BY <1>3, <1>4, <1>5, <1>7 DEF Ready, Live, Finished
  <2>4. \A k \in Kinds \ client'.pending : task'[k].pc = "failed"
    BY <1>3, <2>1, <2>2, <2>3
  <2>5. NoneWon' BY <1>3, <2>2 DEF NoneWon
  <2>6. \A k \in Kinds : task'[k].pc # "cancelled" BY <1>3, <2>1
  <2>7. ClientRight' BY <1>1, <2>2, <2>4, <2>5, <2>6 DEF ClientRight
  <2>8. \A k \in Kinds : TaskRight(k)'
    BY <1>1, <1>2, <2>1 DEF TaskRight, Unused, Current, Channel
  <2>9. QED BY <1>1, <1>2, <2>1, <2>2, <2>7, <2>8, ClientSteps
<1>8. QED BY <1>6, <1>7

LEMMA Submits ==
  ASSUME RouteInv, Send \/ AnswerArrives \/ NoAnswer \/ CloseChannel
  PROVE  RouteInv'
<1>1. /\ task \in [Kinds -> Task] /\ near \in [Own -> {"none", "open", "closed"}]
      /\ \A k \in Kinds : TaskRight(k) /\ Current(k) \in Own
      /\ ClientRight /\ DOMAIN client = {"pc", "pending", "winner", "sent"}
  BY ClientTyped
<1>2. UNCHANGED <<task, far, places, listener, closing, withdrawn>> /\ client.pc \in {"sending", "waiting", "closing"}
  BY DEF Send, AnswerArrives, NoAnswer, CloseChannel
<1>3. Won /\ \A k \in Kinds : Current(k)' = Current(k)
  BY <1>1, <1>2 DEF ClientRight, Current, Channel
<1>4. PICK e \in Own : e = client.winner BY <1>3 DEF Won
<1>5. /\ client.sent \in [Own -> 0..2] /\ client.sent[e] \in {0, 1}
      /\ client.pc = "sending" => client.sent[e] = 0
  BY <1>1, <1>2, <1>4 DEF ClientRight
<1>6. \A c \in Own \ {e} : near[c] # "open" /\ client.sent[c] = 0 BY <1>3, <1>4 DEF Won
<1>7. /\ DOMAIN client' = DOMAIN client /\ client'.winner = e /\ client'.pending = client.pending
      /\ client'.sent \in [Own -> 0..2] /\ \A c \in Own \ {e} : client'.sent[c] = 0
      /\ client'.sent[e] \in {0, 1} /\ client'.pc \in {"waiting", "closing", "done"}
      /\ client'.pc = "done" <=> client.pc = "closing"
  <2>1. CASE Send
    <3>1. client' = [client EXCEPT !.pc = "waiting", !.sent[e] = @ + 1] /\ client.pc = "sending"
      BY <1>4, <2>1 DEF Send
    <3>2. PICK sent : sent = [client.sent EXCEPT ![e] = @ + 1]
      OBVIOUS
    <3>3. sent \in [Own -> 0..2] /\ sent[e] = 1 /\ \A c \in Own \ {e} : sent[c] = 0
      BY <1>5, <1>6, <3>1, <3>2
    <3>4. DOMAIN client' = DOMAIN client /\ client'.winner = e /\ client'.pending = client.pending /\ client'.sent = sent
          /\ client'.pc = "waiting"
      BY <1>1, <1>4, <3>1, <3>2
    <3>5. QED BY <3>1, <3>3, <3>4
  <2>2. CASE AnswerArrives \/ NoAnswer \/ CloseChannel
    BY <1>1, <1>4, <1>5, <1>6, <2>2 DEF AnswerArrives, NoAnswer, CloseChannel, AfterNoAnswer
  <2>3. QED BY <2>1, <2>2
<1>8. /\ near' \in [Own -> {"none", "open", "closed"}]
      /\ \A c \in Own : near[c] = "none" => near'[c] = "none"
      /\ \A c \in Own : near'[c] = "open" => near[c] = "open"
      /\ client.pc = "closing" => near'[e] # "open"
  <2>1. CASE CloseChannel BY <1>1, <1>4, <2>1 DEF CloseChannel, ClosedBy
  <2>2. CASE ~CloseChannel BY <1>1, <2>2 DEF Send, AnswerArrives, NoAnswer
  <2>3. QED BY <2>1, <2>2
<1>9. \A k \in Kinds : TaskRight(k)'
  <2>1. \A c \in Own : Unused(c) => Unused(c)' BY <1>2, <1>8 DEF Unused
  <2>2. QED BY <1>1, <1>2, <1>3, <1>8, <2>1 DEF TaskRight
<1>10. Won'
  <2>1. \E w \in Kinds : client'.winner = Current(w)' /\ task'[w].pc = "ready"
    BY <1>2, <1>3, <1>4, <1>7 DEF Won
  <2>2. QED BY <1>2, <1>3, <1>6, <1>7, <1>8, <2>1 DEF Won
<1>11. ClientRight' BY <1>1, <1>7, <1>8, <1>10 DEF ClientRight
<1>12. QED BY <1>1, <1>2, <1>7, <1>8, <1>9, <1>11, ClientSteps

LEMMA RouteStep == RouteInv /\ [RouteNext]_routeVars => RouteInv'
<1> SUFFICES ASSUME RouteInv, [RouteNext]_routeVars PROVE RouteInv'
  OBVIOUS
<1>1. CASE \E c \in Raws : HandlerStarts(c) \/ Served(c) \/ HandlerEnds(c) \/ Cleanup(c) \/ WatchPeer(c) \/ StrangerArrives(c)
  BY <1>1, HandlersGoOn, Serves, StrangersCome
<1>2. CASE \E k \in Kinds : Connects(k) \/ TimesOut(k) \/ Fails(k) \/ TriesAgain(k) \/ Handshake(k) \/ Probed(k)
  BY <1>2, Attaches, TasksGoOn
<1>3. CASE Select BY <1>3, Selects
<1>4. CASE Send \/ AnswerArrives \/ NoAnswer \/ CloseChannel BY <1>4, Submits
<1>5. CASE Close \/ Listen \/ Withdraw BY <1>5, ReceiverEnds
<1>6. CASE UNCHANGED routeVars
  <2>1. UNCHANGED <<client, task, near, far, places, listener, closing, withdrawn>>
    BY <1>6 DEF routeVars
  <2>2. SeatsKept' /\ {listener', closing', withdrawn'} \subseteq BOOLEAN
    BY <2>1, PlacesTyped DEF SeatsKept, RouteInv, Limits, RawRight, InPlace, NoPlace
  <2>3. QED BY <2>1, <2>2, ReceiverSteps
<1>7. QED BY <1>1, <1>2, <1>3, <1>4, <1>5, <1>6 DEF RouteNext

LEMMA RouteStarts == RouteInit => RouteInv
<1> SUFFICES ASSUME RouteInit PROVE RouteInv
  OBVIOUS
<1>1. /\ client = [pc |-> "racing", pending |-> Kinds, winner |-> <<>>, sent |-> [c \in Own |-> 0]]
      /\ task = [k \in Kinds |-> [pc |-> "setup", attempt |-> 1]]
      /\ near = [c \in Own |-> "none"]
      /\ far = [c \in Raws |-> [pc |-> "none", open |-> FALSE]]
      /\ places = [x \in {"direct", "relay", "auth", "connections"} |-> {}]
      /\ listener \in BOOLEAN /\ closing = FALSE /\ withdrawn = FALSE
  BY DEF RouteInit
<1>2. IsFiniteSet({}) /\ Cardinality({}) = 0 BY FS_EmptySet
<1>3. RouteTypeOK
  <2>1. /\ client.pc \in ClientPCs /\ client.pending \subseteq Kinds
        /\ client.winner \in Own \cup {<<>>} /\ client.sent \in [Own -> 0..2]
    BY <1>1 DEF ClientPCs
  <2>2. task \in [Kinds -> Task] /\ far \in [Raws -> Far] /\ near \in [Own -> {"none", "open", "closed"}]
    BY <1>1 DEF Task, Far
  <2>3. QED BY <1>1, <2>1, <2>2 DEF RouteTypeOK
<1>4. RouteShapes BY <1>1, <1>2 DEF RouteShapes
<1>5. \A c \in Raws : RawRight(c) BY <1>1 DEF RawRight, NoPlace
<1>6. Limits BY <1>1, <1>2, PlacesAssumption DEF Limits, Kinds
<1>7. ASSUME NEW k \in Kinds PROVE TaskRight(k)
  <2>1. task[k] = [pc |-> "setup", attempt |-> 1] /\ Current(k) = <<k, 1>>
    BY <1>1 DEF Current, Channel
  <2>2. Current(k) \in Own BY <2>1, Channels DEF Kinds
  <2>3. \A c \in Own : Unused(c) BY <1>1, Channels DEF Unused
  <2>4. QED BY <2>1, <2>2, <2>3 DEF TaskRight, Task
<1>8. ClientRight BY <1>1 DEF ClientRight, NoneWon
<1>9. QED BY <1>3, <1>4, <1>5, <1>6, <1>7, <1>8 DEF RouteInv

LEMMA RouteSaid == RouteInv => ExchangeSafe
<1> SUFFICES ASSUME RouteInv PROVE ExchangeSafe
  OBVIOUS
<1>1. /\ task \in [Kinds -> Task] /\ near \in [Own -> {"none", "open", "closed"}]
      /\ \A k \in Kinds : TaskRight(k) /\ Current(k) \in Own /\ Current(k)[1] = k
      /\ ClientRight
  BY ClientTyped
<1>2. \A c \in Own : near[c] = "open" => c = Current(c[1])
  BY <1>1, Channels DEF TaskRight, Unused
<1>3. NoChannelLeft
  <2>1. client.pc \in {"sending", "waiting", "closing"} => \A c \in Own : near[c] = "open" => c = client.winner
    BY <1>1 DEF ClientRight, Won
  <2>2. client.pc = "done" => \A c \in Own : near[c] # "open"
    <3>1. CASE NoneWon /\ \A k \in Kinds : task[k].pc = "failed"
      BY <1>1, <1>2, <3>1, Channels DEF TaskRight
    <3>2. CASE Won /\ near[client.winner] # "open" BY <3>2 DEF Won
    <3>3. QED BY <1>1, <3>1, <3>2 DEF ClientRight
  <2>3. QED BY <2>1, <2>2 DEF NoChannelLeft
<1>4. SubmittedOnce
  <2> SUFFICES ASSUME NEW c \in Own, client.sent[c] > 0
               PROVE  /\ client.sent[c] = 1
                      /\ c = client.winner /\ task[c[1]].pc = "ready" /\ task[c[1]].attempt = c[2]
                      /\ \A o \in Own \ {c} : client.sent[o] = 0
    BY DEF SubmittedOnce
  <2>1. Won /\ client.sent[client.winner] \in {0, 1} BY <1>1 DEF ClientRight, NoneWon
  <2>2. c = client.winner BY <2>1 DEF Won
  <2>3. PICK w \in Kinds : c = Current(w) /\ task[w].pc = "ready" BY <2>1, <2>2 DEF Won
  <2>4. c[1] = w /\ c[2] = task[w].attempt BY <2>3 DEF Current, Channel
  <2>5. QED BY <2>1, <2>2, <2>3, <2>4 DEF Won
<1>5. NoRetryAfterAttach
  <2>1. task["relay"].attempt = 2 => Current("relay") = <<"relay", 2>>
    BY DEF Current, Channel
  <2>2. <<"relay", 1>> \in Own /\ <<"relay", 1>> # <<"relay", 2>> /\ <<"relay", 1>>[1] = "relay" /\ "relay" \in Kinds
    BY Channels DEF Kinds
  <2>3. QED BY <1>1, <2>1, <2>2 DEF TaskRight, Unused, NoRetryAfterAttach, Channel
<1>6. PlacesBound
  <2>1. Limits /\ DOMAIN places = {"direct", "relay", "auth", "connections"} /\ far \in [Raws -> Far]
    BY PlacesTyped DEF RouteInv
  <2>2. ASSUME NEW c \in Raws, far[c].open
        PROVE  c \in places.connections /\ Cardinality({x \in Kinds \cup {"auth"} : c \in places[x]}) = 1
    <3>1. RawRight(c) /\ c[1] \in Kinds /\ far[c].pc \in {"none", "scheduled", "tls", "untrusted", "serving", "cleaning", "over"}
      BY <2>1, Channels DEF RouteInv, Far
    <3>2. InPlace(c) BY <2>2, <3>1 DEF RawRight
    <3>3. PICK x : {y \in Kinds \cup {"auth"} : c \in places[y]} = {x}
      <4>1. CASE c \in places.auth BY <3>2, <4>1 DEF InPlace, Kinds
      <4>2. CASE c \notin places.auth BY <3>1, <3>2, <4>2 DEF InPlace, Kinds
      <4>3. QED BY <4>1, <4>2
    <3>4. QED BY <3>2, <3>3, FS_Singleton DEF InPlace
  <2>3. \A x \in DOMAIN places : \A c \in places[x] : far[c].pc \notin {"none", "over"}
    BY PlacesTyped DEF RouteInv, RawRight, NoPlace
  <2>4. QED BY <2>1, <2>2, <2>3 DEF Limits, PlacesBound
<1>7. QED BY <1>3, <1>4, <1>5, <1>6 DEF ExchangeSafe, RouteInv

(* However routes, handlers, timeouts, strangers and the receiver's end    *)
(* interleave: one submission over one channel, no second attempt after an *)
(* arrival, and no connection kept that nobody serves.                     *)
THEOREM ExchangeKept == RouteSpec => []ExchangeSafe
  BY RouteStarts, RouteStep, RouteSaid, PTL DEF RouteSpec

-----------------------------------------------------------------------------
(* The recovery of an identity.                                            *)

RecoveryShapes ==
  /\ DOMAIN plan = Fresh
  /\ \A f \in Fresh : DOMAIN plan[f] = {"id", "status", "control", "items", "effects", "operations"}
  /\ DOMAIN pinned = Fresh /\ (\A f \in Fresh : DOMAIN pinned[f] = Peers)
  /\ \A f \in Fresh : \A p \in Peers : DOMAIN pinned[f][p] = {"status", "cert", "generation"}
  /\ DOMAIN approvals = Peers

(* What the archive and an approval say of a generation is true.           *)
ArchiveTrue == \A p \in Peers : archive.generation[p] \in {archive.cert[p], NoGen} /\ archive.cert[p] \in Gens

(* What the request asked for is done when there is an approval, and stays *)
(* done: an approval may be kept and used at any time.                     *)
Replacing(p, f) == trust[p][Old] = "revoked" /\ trust[p][f] # "none"
ApprovalTrue(a) ==
  /\ a \in Approval /\ a.generation \in {a.cert, NoGen}
  /\ Replacing(a.peer, a.new)
FilesTrue == \A a \in files : a.kind = "approval" => ApprovalTrue(a)
StoredTrue ==
  \A p \in Peers : \A a \in approvals[p] :
    a.request \in Request /\ ApprovalTrue(a.response)

(* A plan and its gates.                                                   *)
PlanTrue(f) ==
  /\ \A p \in Peers : plan[f].items[p] = "committed" => Replacing(p, f) /\ pinned[f][p].status # "none"
  /\ Managed /\ plan[f].control = "committed" => fenced = f
  /\ gate[f] = "clean" <=> plan[f].id = None
  /\ plan[f].id = None => plan[f].status = None
  /\ plan[f].id \in PlanIds \cup {None}
  /\ gate[f] = "activated" =>
       /\ \A p \in Peers : plan[f].items[p] = "committed"
       /\ Managed => plan[f].control = "committed"

PinsTrue(f) ==
  \A p \in Peers : plan[f].id # None /\ plan[f].items[p] = "pending" => pinned[f][p].status = "none"

RecoveryInv ==
  /\ RecoveryTypeOK
  /\ RecoveryShapes
  /\ ArchiveTrue
  /\ FilesTrue
  /\ StoredTrue
  /\ \A f \in Fresh : PlanTrue(f)
  /\ \A f \in Fresh : PinsTrue(f)
  /\ GenerationsTrue
  /\ NeverHalfRestored

(* What a step may not take back.                                          *)
Forward ==
  /\ \A p \in Peers : \A d \in Fresh \cup {Old} :
       /\ trust[p][d] = "revoked" => trust'[p][d] = "revoked"
       /\ trust[p][d] # "none" => trust'[p][d] # "none"
  /\ \A f \in Fresh : \A p \in Peers :
       /\ pinned[f][p].status = "revoked" => pinned'[f][p].status = "revoked"
       /\ pinned[f][p].status # "none" => pinned'[f][p].status # "none"

LEMMA ReplacingStays ==
  ASSUME Forward, NEW p \in Peers, NEW f \in Fresh, Replacing(p, f)
  PROVE  Replacing(p, f)'
  BY DEF Forward, Replacing

LEMMA ApprovalStays ==
  ASSUME Forward, NEW a, ApprovalTrue(a)
  PROVE  ApprovalTrue(a)'
<1>1. a.peer \in Peers /\ a.new \in Fresh BY DEF ApprovalTrue, Approval
<1>2. Replacing(a.peer, a.new)' BY <1>1, ReplacingStays DEF ApprovalTrue
<1>3. QED BY <1>2 DEF ApprovalTrue

LEMMA PlanStays ==
  ASSUME RecoveryInv, Forward, NEW f \in Fresh, plan'[f] = plan[f], gate'[f] = gate[f],
         fenced' = fenced
  PROVE  PlanTrue(f)'
<1>1. PlanTrue(f) BY DEF RecoveryInv
<1>2. \A p \in Peers : Replacing(p, f) => Replacing(p, f)' BY ReplacingStays
<1>3. \A p \in Peers : pinned[f][p].status # "none" => pinned'[f][p].status # "none"
  BY DEF Forward
<1>4. QED BY <1>1, <1>2, <1>3 DEF PlanTrue

(* What is left to show of a step once it goes forward.                    *)
LEMMA RecoveryGoesOn ==
  ASSUME RecoveryInv, Forward, RecoveryTypeOK', RecoveryShapes', archive' = archive,
         \A a \in files' : a \in files \/ (a.kind = "approval" => ApprovalTrue(a)'),
         \A p \in Peers : \A a \in approvals'[p] : a \in approvals[p] \/ (a.request \in Request /\ ApprovalTrue(a.response)'),
         \A f \in Fresh : PlanTrue(f)', \A f \in Fresh : PinsTrue(f)', GenerationsTrue', NeverHalfRestored'
  PROVE  RecoveryInv'
<1>1. ArchiveTrue' BY DEF RecoveryInv, ArchiveTrue
<1>2. FilesTrue' BY ApprovalStays DEF RecoveryInv, FilesTrue
<1>3. StoredTrue' BY ApprovalStays DEF RecoveryInv, StoredTrue
<1>4. QED BY <1>1, <1>2, <1>3 DEF RecoveryInv

Restores == Stage \/ PublishRestored \/ RestoreFails \/ RestoreKilled \/ \E x \in Pieces : Removes(x)

LEMMA StagingKept ==
  ASSUME RecoveryInv, Restores
  PROVE  staging' \in Stagings /\ restored' \in Dirs /\ NeverHalfRestored'
<1>1. staging \in Stagings /\ restored \in Dirs /\ NeverHalfRestored
  BY DEF RecoveryInv, RecoveryTypeOK
<1>2. staging.now \in Staged /\ staging.left \subseteq Staged /\ staging.now.has \in Dirs /\ staging.now.removing \in BOOLEAN
  BY <1>1 DEF Stagings, Staged
<1>3. NoStaging \in Staged /\ ~Openable(NoStaging.has)
  BY DEF NoStaging, Staged, Dirs, Openable
<1>4. ASSUME NEW d \in Staged, staging' = [staging EXCEPT !.now = d], restored' \in Dirs,
             Openable(restored') => "tombstone" \in restored',
             Openable(d.has) /\ ~d.removing => "tombstone" \in d.has
      PROVE  staging' \in Stagings /\ restored' \in Dirs /\ NeverHalfRestored'
  <2>1. staging'.now = d /\ staging'.left = staging.left /\ staging' \in Stagings
    BY <1>1, <1>4 DEF Stagings
  <2> QED BY <1>1, <1>4, <2>1 DEF NeverHalfRestored, Openable
<1>5. CASE Stage
  <2> DEFINE h == NextStage(staging.now.has)
             d == [has |-> h, removing |-> FALSE]
  <2>1. h \in Dirs /\ (Openable(h) => "tombstone" \in h)
    BY DEF NextStage, Dirs, Pieces, Openable
  <2>2. d \in Staged /\ d.has = h /\ staging' = [staging EXCEPT !.now = d]
    BY <1>5, <2>1 DEF Stage, Staged
  <2> HIDE DEF d, h
  <2>3. restored' = restored BY <1>5 DEF Stage
  <2> QED BY <1>1, <1>4, <2>1, <2>2, <2>3 DEF NeverHalfRestored
<1>6. CASE PublishRestored
  <2>1. restored' = Unmarked /\ staging' = [staging EXCEPT !.now = NoStaging]
    BY <1>6 DEF PublishRestored
  <2> QED BY <1>3, <1>4, <2>1 DEF Unmarked, Dirs, Pieces
<1>7. ASSUME NEW h \in Dirs, NEW t \in BOOLEAN, t \/ h = {}, restored' = restored,
             staging' = [staging EXCEPT !.now = [has |-> h, removing |-> t]]
      PROVE  staging' \in Stagings /\ restored' \in Dirs /\ NeverHalfRestored'
  <2> DEFINE d == [has |-> h, removing |-> t]
  <2>1. d \in Staged /\ d.has = h /\ d.removing = t /\ staging' = [staging EXCEPT !.now = d]
    BY <1>7 DEF Staged
  <2> HIDE DEF d
  <2> QED BY <1>1, <1>4, <1>7, <2>1 DEF NeverHalfRestored, Openable
<1>8. CASE RestoreFails BY <1>2, <1>7, <1>8 DEF RestoreFails
<1>9. CASE \E x \in Pieces : Removes(x)
  <2>1. PICK x \in Pieces : Removes(x) BY <1>9
  <2> DEFINE rest == staging.now.has \ {x}
  <2>2. rest \in Dirs /\ restored' = restored /\ staging' = [staging EXCEPT !.now = [has |-> rest, removing |-> rest # {}]]
    BY <1>2, <2>1 DEF Removes, Dirs
  <2> HIDE DEF rest
  <2> QED BY <1>7, <2>2
<1>10. CASE RestoreKilled
  <2>1. /\ staging'.now = NoStaging /\ staging'.left = staging.left \cup {staging.now} /\ restored' = restored
        /\ staging' \in Stagings
    BY <1>2, <1>3, <1>10 DEF RestoreKilled, Stagings
  <2> QED BY <1>1, <1>3, <2>1 DEF NeverHalfRestored, Openable
<1> QED BY <1>5, <1>6, <1>8, <1>9, <1>10 DEF Restores

LEMMA RestoreSteps ==
  ASSUME RecoveryInv, Restores \/ \E p \in Peers : PeerRotates(p)
  PROVE  RecoveryInv' /\ Forward
<1>1. UNCHANGED <<archive, plan, gate, pinned, trust, approvals, files, fenced>>
  BY DEF Restores, Stage, PublishRestored, RestoreFails, RestoreKilled, Removes, AfterRestoring, PeerRotates
<1>2. Forward BY <1>1 DEF Forward
<1>3. generation \in [Peers -> Gens] BY DEF RecoveryInv, RecoveryTypeOK
<1>4. staging' \in Stagings /\ restored' \in Dirs /\ NeverHalfRestored'
  <2>1. CASE \E p \in Peers : PeerRotates(p)
    BY <2>1 DEF PeerRotates, RecoveryInv, RecoveryTypeOK, NeverHalfRestored, Openable
  <2> QED BY <2>1, StagingKept
<1>5. generation' \in [Peers -> Gens]
  <2>1. CASE \E p \in Peers : PeerRotates(p)
    <3>1. PICK p \in Peers : PeerRotates(p) BY <2>1
    <3>2. generation[p] + 1 \in Gens
      BY <1>3, <3>1, RecoveryAssumption DEF PeerRotates, Gens
    <3>3. QED BY <1>3, <3>1, <3>2 DEF PeerRotates
  <2>2. CASE ~ \E p \in Peers : PeerRotates(p)
    BY <1>3, <2>2 DEF Restores, Stage, PublishRestored, RestoreFails, RestoreKilled, Removes, AfterRestoring
  <2>3. QED BY <2>1, <2>2
<1>6. RecoveryTypeOK' BY <1>1, <1>4, <1>5 DEF RecoveryInv, RecoveryTypeOK
<1>7. RecoveryShapes' /\ GenerationsTrue'
  BY <1>1 DEF RecoveryInv, RecoveryShapes, GenerationsTrue
<1>8. \A f \in Fresh : PlanTrue(f)' BY <1>1, <1>2, PlanStays
<1>9. \A f \in Fresh : PinsTrue(f)' BY <1>1 DEF RecoveryInv, PinsTrue
<1>10. QED BY <1>1, <1>2, <1>4, <1>6, <1>7, <1>8, <1>9, RecoveryGoesOn

(* A step of a fresh state that changes no trust and no pin.               *)
PlanTyped(r) ==
  /\ DOMAIN r = {"id", "status", "control", "items", "effects", "operations"}
  /\ r.status \in {None, "pending", "active"} /\ r.items \in [Peers -> {"pending", "committed"}]
  /\ r.effects \in [Effects -> Classes]
LEMMA PlanSteps ==
  ASSUME RecoveryInv, NEW f \in Fresh, UNCHANGED <<staging, restored, archive, generation, pinned, trust, approvals>>,
         DOMAIN plan' = Fresh, gate' \in [Fresh -> {"clean", "origin", "activated"}],
         \A h \in Fresh \ {f} : plan'[h] = plan[h] /\ gate'[h] = gate[h],
         PlanTyped(plan'[f]), plan'[f].id = None <=> gate'[f] = "clean",
         files' \ files \subseteq Request, fenced' \in Fresh \cup {None},
         fenced' = fenced \/ (fenced' = f /\ fenced \in {None, f}),
         PlanTrue(f)', PinsTrue(f)'
  PROVE  RecoveryInv' /\ Forward
<1>1. Forward BY DEF Forward
<1>9. /\ staging' = staging /\ restored' = restored /\ archive' = archive /\ generation' = generation /\ pinned' = pinned
      /\ trust' = trust /\ approvals' = approvals
  OBVIOUS
<1>2. DOMAIN plan = Fresh /\ gate \in [Fresh -> {"clean", "origin", "activated"}] /\ RecoveryTypeOK /\ RecoveryShapes
  BY DEF RecoveryInv, RecoveryShapes, RecoveryTypeOK
<1>3. /\ DOMAIN plan' = Fresh
      /\ \A h \in Fresh \ {f} : plan'[h] = plan[h] /\ gate'[h] = gate[h]
      /\ gate' \in [Fresh -> {"clean", "origin", "activated"}]
  BY <1>2
<1>4. RecoveryTypeOK'
  <2>1. \A h \in Fresh : /\ plan'[h].status \in {None, "pending", "active"}
                         /\ plan'[h].items \in [Peers -> {"pending", "committed"}]
                         /\ plan'[h].effects \in [Effects -> Classes]
                         /\ plan'[h].id = None <=> gate'[h] = "clean"
    <3> SUFFICES ASSUME NEW h \in Fresh
                 PROVE  /\ plan'[h].status \in {None, "pending", "active"}
                        /\ plan'[h].items \in [Peers -> {"pending", "committed"}]
                        /\ plan'[h].effects \in [Effects -> Classes]
                        /\ plan'[h].id = None <=> gate'[h] = "clean"
      OBVIOUS
    <3>1. CASE h = f BY <3>1 DEF PlanTyped
    <3>2. CASE h # f BY <1>2, <1>3, <3>2 DEF RecoveryTypeOK
    <3>3. QED BY <3>1, <3>2
  <2>2. files' \subseteq Request \cup Approval BY <1>2 DEF RecoveryTypeOK
  <2>3. QED
    <3>1. /\ staging' \in Stagings /\ restored' \in Dirs /\ generation' \in [Peers -> Gens]
          /\ archive'.generation \in [Peers -> Gens \cup {NoGen}] /\ archive'.cert \in [Peers -> Gens]
          /\ archive'.effects \in [Effects -> Classes]
      BY <1>2, <1>9 DEF RecoveryTypeOK
    <3>2. /\ trust' \in [Peers -> [Fresh \cup {Old} -> {"none", "paired", "revoked"}]]
          /\ \A p \in Peers : \A a, b \in approvals'[p] : a.request.id = b.request.id => a = b
      BY <1>2, <1>9 DEF RecoveryTypeOK
    <3>3. QED BY <1>3, <2>1, <2>2, <3>1, <3>2 DEF RecoveryTypeOK
<1>5. RecoveryShapes' /\ GenerationsTrue' /\ NeverHalfRestored'
  <2>1. \A h \in Fresh : DOMAIN plan'[h] = {"id", "status", "control", "items", "effects", "operations"}
    BY <1>2, <1>3 DEF RecoveryShapes, PlanTyped
  <2>2. RecoveryShapes'
    <3>1. /\ DOMAIN pinned' = Fresh
          /\ \A h \in Fresh : DOMAIN pinned'[h] = Peers
          /\ \A h \in Fresh : \A p \in Peers : DOMAIN pinned'[h][p] = {"status", "cert", "generation"}
          /\ DOMAIN approvals' = Peers
      <4>1. /\ DOMAIN pinned = Fresh
            /\ \A h \in Fresh : DOMAIN pinned[h] = Peers
            /\ \A h \in Fresh : \A p \in Peers : DOMAIN pinned[h][p] = {"status", "cert", "generation"}
            /\ DOMAIN approvals = Peers
        BY <1>2 DEF RecoveryShapes
      <4>2. QED BY ONLY <4>1, <1>9
    <3>2. DOMAIN plan' = Fresh BY <1>3
    <3>3. QED BY ONLY <2>1, <3>1, <3>2 DEF RecoveryShapes
  <2>3. GenerationsTrue' /\ NeverHalfRestored'
    BY DEF RecoveryInv, GenerationsTrue, NeverHalfRestored, Openable
  <2>4. QED BY <2>2, <2>3
<1>6. ASSUME NEW h \in Fresh PROVE PlanTrue(h)'
  <2>1. CASE h = f BY <2>1
  <2>2. CASE h # f
    <3>1. PlanTrue(h) /\ plan'[h] = plan[h] /\ gate'[h] = gate[h]
      BY <1>3, <2>2 DEF RecoveryInv
    <3>2. Managed /\ plan[h].control = "committed" => fenced' = h
      BY <2>2, <3>1, NoneIsNothing DEF PlanTrue
    <3>3. \A p \in Peers : Replacing(p, h) => Replacing(p, h)' BY DEF Replacing
    <3>4. QED BY <3>1, <3>2, <3>3 DEF PlanTrue
  <2>3. QED BY <2>1, <2>2
<1>7. \A a \in files' : a \in files \/ (a.kind = "approval" => ApprovalTrue(a)')
  BY DEF Request
<1>8. ASSUME NEW h \in Fresh PROVE PinsTrue(h)'
  <2>1. CASE h = f BY <2>1
  <2>2. CASE h # f BY <1>3, <1>9, <2>2 DEF RecoveryInv, PinsTrue
  <2>3. QED BY <2>1, <2>2
<1>10. QED BY <1>1, <1>4, <1>5, <1>6, <1>7, <1>8, RecoveryGoesOn

(* What is known of a plan.                                                *)
LEMMA PlanKnown ==
  ASSUME RecoveryInv, NEW f \in Fresh
  PROVE  /\ PlanTyped(plan[f]) /\ PlanTrue(f) /\ PinsTrue(f)
         /\ DOMAIN plan = Fresh /\ gate \in [Fresh -> {"clean", "origin", "activated"}]
         /\ plan[f].id = None <=> gate[f] = "clean"
         /\ archive.effects \in [Effects -> Classes] /\ fenced \in Fresh \cup {None}
  BY DEF RecoveryInv, RecoveryTypeOK, RecoveryShapes, PlanTyped

LEMMA BeginSteps ==
  ASSUME RecoveryInv, NEW f \in Fresh, NEW id \in PlanIds, BeginRecovery(f, id)
  PROVE  RecoveryInv' /\ Forward
<1>1. /\ UNCHANGED <<pinned, trust, approvals, files, staging, restored, archive, generation, fenced>>
      /\ gate' = [gate EXCEPT ![f] = "origin"]
      /\ plan' = [plan EXCEPT ![f] = [id |-> id, status |-> "pending", control |-> "pending",
                                      items |-> [p \in Peers |-> "pending"],
                                      effects |-> archive.effects, operations |-> {}]]
  BY DEF BeginRecovery, Rest
<1>2. /\ DOMAIN plan' = Fresh /\ gate' \in [Fresh -> {"clean", "origin", "activated"}]
      /\ \A h \in Fresh \ {f} : plan'[h] = plan[h] /\ gate'[h] = gate[h]
      /\ gate'[f] = "origin"
  BY <1>1, PlanKnown
<1>3. plan'[f] = [id |-> id, status |-> "pending", control |-> "pending",
                  items |-> [p \in Peers |-> "pending"], effects |-> archive.effects, operations |-> {}]
  BY <1>1, PlanKnown
<1>4. PlanTyped(plan'[f]) /\ plan'[f].id = id /\ plan'[f].control = "pending" /\ (\A p \in Peers : plan'[f].items[p] = "pending")
  BY <1>3, PlanKnown DEF PlanTyped
<1>5. id # None BY NoneIsNothing
<1>6. PlanTrue(f)' BY <1>2, <1>4, <1>5 DEF PlanTrue
<1>7. plan'[f].id = None <=> gate'[f] = "clean" BY <1>2, <1>4, <1>5
<1>8. files' \ files \subseteq Request /\ fenced' \in Fresh \cup {None} /\ fenced' = fenced
  BY <1>1, PlanKnown
<1>9. PinsTrue(f)' BY <1>1 DEF PinsTrue, BeginRecovery
<1>10. QED BY <1>1, <1>2, <1>4, <1>6, <1>7, <1>8, <1>9, PlanSteps

LEMMA ReconcileSteps ==
  ASSUME RecoveryInv, NEW f \in Fresh, NEW op \in ReconIds, NEW e \in Effects, NEW c \in Classes, Reconcile(f, op, e, c)
  PROVE  RecoveryInv' /\ Forward
<1>1. /\ UNCHANGED <<pinned, trust, approvals, files, staging, restored, archive, generation, fenced>>
      /\ gate' = gate
      /\ plan' = [plan EXCEPT ![f].effects[e] = c, ![f].operations = @ \cup {[op |-> op, effect |-> e, class |-> c]}]
  BY DEF Reconcile, Rest
<1>2. /\ DOMAIN plan' = Fresh /\ gate' \in [Fresh -> {"clean", "origin", "activated"}]
      /\ \A h \in Fresh \ {f} : plan'[h] = plan[h] /\ gate'[h] = gate[h]
      /\ gate'[f] = gate[f]
  BY <1>1, PlanKnown
<1>3. plan'[f] = [plan[f] EXCEPT !.effects[e] = c, !.operations = plan[f].operations \cup {[op |-> op, effect |-> e, class |-> c]}]
  BY <1>1, PlanKnown
<1>4. /\ PlanTyped(plan'[f]) /\ plan'[f].id = plan[f].id /\ plan'[f].control = plan[f].control
      /\ plan'[f].items = plan[f].items
  BY <1>3, PlanKnown DEF PlanTyped
<1>6. PlanTrue(f)'
  <2>1. PlanTrue(f) BY PlanKnown
  <2>2. \A p \in Peers : Replacing(p, f) => Replacing(p, f)' BY <1>1 DEF Replacing
  <2>3. QED BY <1>1, <1>2, <1>4, <2>1, <2>2 DEF PlanTrue
<1>7. plan'[f].id = None <=> gate'[f] = "clean" BY <1>2, <1>4, PlanKnown
<1>8. files' \ files \subseteq Request /\ fenced' \in Fresh \cup {None} /\ fenced' = fenced
  BY <1>1, PlanKnown
<1>9. PinsTrue(f)' BY <1>1, <1>4, PlanKnown DEF PinsTrue
<1>10. QED BY <1>1, <1>2, <1>4, <1>6, <1>7, <1>8, <1>9, PlanSteps

LEMMA RequestSteps ==
  ASSUME RecoveryInv, NEW f \in Fresh, NEW p \in Peers, NEW r \in Routes, MakeRequest(f, p, r)
  PROVE  RecoveryInv' /\ Forward
<1>1. /\ UNCHANGED <<plan, gate, pinned, trust, approvals, staging, restored, archive, generation, fenced>>
      /\ files' = files \cup {[kind |-> "request", id |-> plan[f].id, new |-> f, peer |-> p, routes |-> r]}
      /\ plan[f].id # None
  BY DEF MakeRequest, Rest
<1>2. /\ DOMAIN plan' = Fresh /\ gate' \in [Fresh -> {"clean", "origin", "activated"}]
      /\ \A h \in Fresh \ {f} : plan'[h] = plan[h] /\ gate'[h] = gate[h]
      /\ PlanTyped(plan'[f]) /\ (plan'[f].id = None <=> gate'[f] = "clean")
  BY <1>1, PlanKnown
<1>3. plan[f].id \in PlanIds BY <1>1, PlanKnown DEF PlanTrue
<1>4. files' \ files \subseteq Request BY <1>1, <1>3 DEF Request
<1>5. PlanTrue(f)'
  <2>1. Forward BY <1>1 DEF Forward
  <2>2. QED BY <1>1, <2>1, PlanStays
<1>6. fenced' \in Fresh \cup {None} /\ fenced' = fenced BY <1>1, PlanKnown
<1>7. PinsTrue(f)' BY <1>1 DEF RecoveryInv, PinsTrue
<1>8. QED BY <1>1, <1>2, <1>4, <1>5, <1>6, <1>7, PlanSteps

LEMMA FenceSteps ==
  ASSUME RecoveryInv, NEW f \in Fresh, Fence(f)
  PROVE  RecoveryInv' /\ Forward
<1>1. /\ UNCHANGED <<staging, restored, archive, gate, pinned, trust, generation, approvals, files>>
      /\ fenced \in {None, f} /\ fenced' = f
      /\ plan' = plan \/ plan' = [plan EXCEPT ![f].control = "committed"]
      /\ plan[f].id # None
  BY DEF Fence
<1>2. /\ DOMAIN plan' = Fresh /\ gate' \in [Fresh -> {"clean", "origin", "activated"}]
      /\ \A h \in Fresh \ {f} : plan'[h] = plan[h] /\ gate'[h] = gate[h]
      /\ gate'[f] = gate[f]
  BY <1>1, PlanKnown
<1>3. /\ PlanTyped(plan'[f]) /\ plan'[f].id = plan[f].id /\ plan'[f].items = plan[f].items
      /\ plan'[f].control = plan[f].control \/ plan'[f].control = "committed"
  BY <1>1, PlanKnown DEF PlanTyped
<1>4. PlanTrue(f)'
  <2>1. PlanTrue(f) BY PlanKnown
  <2>2. \A p \in Peers : Replacing(p, f) => Replacing(p, f)' BY <1>1 DEF Replacing
  <2>3. QED BY <1>1, <1>2, <1>3, <2>1, <2>2 DEF PlanTrue
<1>5. plan'[f].id = None <=> gate'[f] = "clean" BY <1>2, <1>3, PlanKnown
<1>6. /\ files' \ files \subseteq Request /\ fenced' \in Fresh \cup {None}
      /\ fenced' = f /\ fenced \in {None, f}
  BY <1>1
<1>7. PinsTrue(f)' BY <1>1, <1>3, PlanKnown DEF PinsTrue
<1>8. QED BY <1>1, <1>2, <1>3, <1>4, <1>5, <1>6, <1>7, PlanSteps

LEMMA ActivateSteps ==
  ASSUME RecoveryInv, NEW f \in Fresh, Activate(f)
  PROVE  RecoveryInv' /\ Forward
<1>1. /\ UNCHANGED <<pinned, trust, approvals, files, staging, restored, archive, generation, fenced>>
      /\ gate' = [gate EXCEPT ![f] = "activated"]
      /\ plan' = [plan EXCEPT ![f].status = "active"]
      /\ plan[f].status = "pending" /\ Gates(f) = {}
  BY DEF Activate, Rest
<1>2. /\ DOMAIN plan' = Fresh /\ gate' \in [Fresh -> {"clean", "origin", "activated"}]
      /\ \A h \in Fresh \ {f} : plan'[h] = plan[h] /\ gate'[h] = gate[h]
      /\ gate'[f] = "activated"
  BY <1>1, PlanKnown
<1>3. /\ PlanTyped(plan'[f]) /\ plan'[f].id = plan[f].id /\ plan'[f].items = plan[f].items
      /\ plan'[f].control = plan[f].control
  BY <1>1, PlanKnown DEF PlanTyped
<1>4. /\ \A p \in Peers : plan[f].items[p] = "committed"
      /\ Managed => plan[f].control = "committed"
  BY <1>1 DEF Gates
<1>5. plan[f].id # None
  <2>1. plan[f].id = None => plan[f].status = None BY DEF RecoveryInv, PlanTrue
  <2>2. QED BY <1>1, <2>1 DEF None
<1>6. PlanTrue(f)'
  <2>1. PlanTrue(f) BY PlanKnown
  <2>2. \A p \in Peers : Replacing(p, f) => Replacing(p, f)' BY <1>1 DEF Replacing
  <2>3. QED BY <1>1, <1>2, <1>3, <1>4, <1>5, <2>1, <2>2 DEF PlanTrue
<1>7. plan'[f].id = None <=> gate'[f] = "clean" BY <1>2, <1>3, <1>5
<1>8. files' \ files \subseteq Request /\ fenced' \in Fresh \cup {None} /\ fenced' = fenced
  BY <1>1, PlanKnown
<1>9. PinsTrue(f)' BY <1>1, <1>3, PlanKnown DEF PinsTrue
<1>10. QED BY <1>1, <1>2, <1>3, <1>6, <1>7, <1>8, <1>9, PlanSteps

(* A pin that is written, and a trust that is.                             *)
PinsOnward ==
  \A f \in Fresh : \A p \in Peers :
    /\ pinned[f][p].status = "revoked" => pinned'[f][p].status = "revoked"
    /\ pinned[f][p].status # "none" => pinned'[f][p].status # "none"
TrustOnward ==
  \A p \in Peers : \A d \in Fresh \cup {Old} :
    /\ trust[p][d] = "revoked" => trust'[p][d] = "revoked"
    /\ trust[p][d] # "none" => trust'[p][d] # "none"

LEMMA PinWritten ==
  ASSUME RecoveryInv, NEW f \in Fresh, NEW p \in Peers, NEW r, pinned' = [pinned EXCEPT ![f][p] = r],
         DOMAIN r = {"status", "cert", "generation"}, r.generation = r.cert, r.status # "none",
         pinned[f][p].status = "revoked" => r.status = "revoked"
  PROVE  /\ DOMAIN pinned' = Fresh /\ (\A h \in Fresh : DOMAIN pinned'[h] = Peers)
         /\ \A h \in Fresh : \A x \in Peers : DOMAIN pinned'[h][x] = {"status", "cert", "generation"}
         /\ GenerationsTrue' /\ PinsOnward /\ pinned'[f][p] = r
<1>1. /\ DOMAIN pinned = Fresh /\ (\A h \in Fresh : DOMAIN pinned[h] = Peers)
      /\ \A h \in Fresh : \A x \in Peers : DOMAIN pinned[h][x] = {"status", "cert", "generation"}
      /\ GenerationsTrue
  BY DEF RecoveryInv, RecoveryShapes
<1>2. /\ DOMAIN pinned' = Fresh /\ (\A h \in Fresh : DOMAIN pinned'[h] = Peers)
      /\ \A h \in Fresh : \A x \in Peers : pinned'[h][x] = IF h = f /\ x = p THEN r ELSE pinned[h][x]
  BY <1>1
<1>3. GenerationsTrue' /\ PinsOnward BY <1>1, <1>2 DEF GenerationsTrue, PinsOnward
<1>4. QED BY <1>1, <1>2, <1>3

LEMMA TrustWritten ==
  ASSUME RecoveryInv, NEW p \in Peers, NEW t \in [Fresh \cup {Old} -> {"none", "paired", "revoked"}],
         trust' = [trust EXCEPT ![p] = t],
         \A d \in Fresh \cup {Old} : /\ trust[p][d] = "revoked" => t[d] = "revoked"
                                     /\ trust[p][d] # "none" => t[d] # "none"
  PROVE  /\ trust' \in [Peers -> [Fresh \cup {Old} -> {"none", "paired", "revoked"}]]
         /\ TrustOnward /\ trust'[p] = t
<1>1. trust \in [Peers -> [Fresh \cup {Old} -> {"none", "paired", "revoked"}]]
  BY DEF RecoveryInv, RecoveryTypeOK
<1>2. QED BY <1>1 DEF TrustOnward

(* What is left of the types when no plan, gate, directory or fence moves. *)
LEMMA TypesKept ==
  ASSUME RecoveryInv, UNCHANGED <<staging, restored, archive, generation, fenced, gate>>,
         trust' \in [Peers -> [Fresh \cup {Old} -> {"none", "paired", "revoked"}]],
         files' \subseteq Request \cup Approval,
         \A p \in Peers : \A a, b \in approvals'[p] : a.request.id = b.request.id => a = b,
         DOMAIN approvals' = Peers,
         DOMAIN pinned' = Fresh, \A h \in Fresh : DOMAIN pinned'[h] = Peers,
         \A h \in Fresh : \A x \in Peers : DOMAIN pinned'[h][x] = {"status", "cert", "generation"},
         DOMAIN plan' = Fresh, \A h \in Fresh : PlanTyped(plan'[h]) /\ plan'[h].id = plan[h].id
  PROVE  RecoveryTypeOK' /\ RecoveryShapes' /\ NeverHalfRestored'
<1>1. /\ staging' = staging /\ restored' = restored /\ archive' = archive /\ generation' = generation
      /\ fenced' = fenced /\ gate' = gate
  OBVIOUS
<1>2. RecoveryTypeOK /\ NeverHalfRestored BY DEF RecoveryInv
<1>3. NeverHalfRestored' BY <1>1, <1>2 DEF NeverHalfRestored, Openable
<1>4. \A f \in Fresh : DOMAIN plan'[f] = {"id", "status", "control", "items", "effects", "operations"}
  BY DEF PlanTyped
<1>5. RecoveryShapes' BY <1>4 DEF RecoveryShapes
<1>6. \A f \in Fresh : /\ plan'[f].status \in {None, "pending", "active"}
                       /\ plan'[f].items \in [Peers -> {"pending", "committed"}]
                       /\ plan'[f].effects \in [Effects -> Classes]
                       /\ plan'[f].id = None <=> gate'[f] = "clean"
  BY <1>1, <1>2 DEF PlanTyped, RecoveryTypeOK
<1>7. /\ staging' \in Stagings /\ restored' \in Dirs /\ generation' \in [Peers -> Gens]
      /\ archive'.generation \in [Peers -> Gens \cup {NoGen}] /\ archive'.cert \in [Peers -> Gens]
      /\ archive'.effects \in [Effects -> Classes]
      /\ gate' \in [Fresh -> {"clean", "origin", "activated"}] /\ fenced' \in Fresh \cup {None}
  BY <1>1, <1>2 DEF RecoveryTypeOK
<1>8. RecoveryTypeOK' BY <1>6, <1>7 DEF RecoveryTypeOK
<1>9. QED BY <1>3, <1>5, <1>8

(* The trust, the stored approvals and the files as they are.              *)
LEMMA TablesKnown ==
  ASSUME RecoveryInv
  PROVE  /\ trust \in [Peers -> [Fresh \cup {Old} -> {"none", "paired", "revoked"}]]
         /\ files \subseteq Request \cup Approval
         /\ \A p \in Peers : \A a, b \in approvals[p] : a.request.id = b.request.id => a = b
         /\ DOMAIN approvals = Peers /\ DOMAIN plan = Fresh
         /\ DOMAIN pinned = Fresh /\ (\A h \in Fresh : DOMAIN pinned[h] = Peers)
         /\ \A h \in Fresh : \A x \in Peers : DOMAIN pinned[h][x] = {"status", "cert", "generation"}
         /\ generation \in [Peers -> Gens]
  BY DEF RecoveryInv, RecoveryTypeOK, RecoveryShapes

LEMMA PairSteps ==
  ASSUME RecoveryInv, NEW f \in Fresh, NEW p \in Peers, Pair(f, p)
  PROVE  RecoveryInv' /\ Forward
<1>1. /\ UNCHANGED <<plan, gate, approvals, files, staging, restored, archive, generation, fenced>>
      /\ pinned[f][p].status = "none" /\ trust[p][f] = "none"
      /\ pinned' = [pinned EXCEPT ![f][p] = [status |-> "paired", cert |-> generation[p], generation |-> generation[p]]]
      /\ trust' = [trust EXCEPT ![p][f] = "paired"]
  BY DEF Pair, Rest
<1>2. PICK r : r = [status |-> "paired", cert |-> generation[p], generation |-> generation[p]]
  OBVIOUS
<1>3. /\ DOMAIN pinned' = Fresh /\ (\A h \in Fresh : DOMAIN pinned'[h] = Peers)
      /\ \A h \in Fresh : \A x \in Peers : DOMAIN pinned'[h][x] = {"status", "cert", "generation"}
      /\ GenerationsTrue' /\ PinsOnward
  <2>1. DOMAIN r = {"status", "cert", "generation"} /\ r.generation = r.cert /\ r.status # "none"
    BY <1>2
  <2>2. pinned' = [pinned EXCEPT ![f][p] = r] /\ (pinned[f][p].status = "revoked" => r.status = "revoked")
    BY <1>1, <1>2
  <2>3. QED BY <2>1, <2>2, PinWritten
<1>4. PICK t : t = [trust[p] EXCEPT ![f] = "paired"]
  OBVIOUS
<1>5. trust' \in [Peers -> [Fresh \cup {Old} -> {"none", "paired", "revoked"}]] /\ TrustOnward
  <2>1. t \in [Fresh \cup {Old} -> {"none", "paired", "revoked"}] /\ trust' = [trust EXCEPT ![p] = t]
    BY <1>1, <1>4, TablesKnown
  <2>2. \A d \in Fresh \cup {Old} : /\ trust[p][d] = "revoked" => t[d] = "revoked"
                                    /\ trust[p][d] # "none" => t[d] # "none"
    BY <1>1, <1>4, TablesKnown
  <2>3. QED BY <2>1, <2>2, TrustWritten
<1>6. Forward BY <1>3, <1>5 DEF Forward, PinsOnward, TrustOnward
<1>7. RecoveryTypeOK' /\ RecoveryShapes' /\ NeverHalfRestored'
  <2>1. \A h \in Fresh : PlanTyped(plan'[h]) /\ plan'[h].id = plan[h].id
    BY <1>1, PlanKnown
  <2>2. /\ DOMAIN plan' = Fresh /\ DOMAIN approvals' = Peers /\ files' \subseteq Request \cup Approval
        /\ \A x \in Peers : \A a, b \in approvals'[x] : a.request.id = b.request.id => a = b
    BY <1>1, TablesKnown, PlanKnown
  <2>3. QED BY <1>1, <1>3, <1>5, <2>1, <2>2, TypesKept
<1>8. \A h \in Fresh : PlanTrue(h)' BY <1>1, <1>6, PlanStays
<1>9. ASSUME NEW h \in Fresh PROVE PinsTrue(h)'
  <2>1. CASE h = f
    <3>1. PlanTrue(f) /\ gate \in [Fresh -> {"clean", "origin", "activated"}]
      BY PlanKnown
    <3>2. plan[f].id = None \/ \A x \in Peers : plan[f].items[x] = "committed"
      BY <3>1 DEF Pair, Gated, PlanTrue
    <3>3. QED BY <1>1, <2>1, <3>2 DEF PinsTrue
  <2>2. CASE h # f
    <3>1. pinned'[h] = pinned[h] /\ PinsTrue(h) BY <1>1, <2>2, TablesKnown, PlanKnown
    <3>2. QED BY <1>1, <3>1 DEF PinsTrue
  <2>3. QED BY <2>1, <2>2
<1>10. QED BY <1>1, <1>3, <1>6, <1>7, <1>8, <1>9, RecoveryGoesOn

LEMMA RevokePeerSteps ==
  ASSUME RecoveryInv, NEW f \in Fresh, NEW p \in Peers, RevokePeer(f, p)
  PROVE  RecoveryInv' /\ Forward
<1>1. /\ UNCHANGED <<plan, gate, trust, approvals, files, staging, restored, archive, generation, fenced>>
      /\ pinned[f][p].status = "paired"
      /\ pinned' = [pinned EXCEPT ![f][p].status = "revoked"]
  BY DEF RevokePeer, Rest
<1>2. PICK r : r = [pinned[f][p] EXCEPT !.status = "revoked"]
  OBVIOUS
<1>3. /\ DOMAIN pinned' = Fresh /\ (\A h \in Fresh : DOMAIN pinned'[h] = Peers)
      /\ \A h \in Fresh : \A x \in Peers : DOMAIN pinned'[h][x] = {"status", "cert", "generation"}
      /\ GenerationsTrue' /\ PinsOnward
  <2>0. pinned[f][p].generation = pinned[f][p].cert
    BY <1>1 DEF RecoveryInv, GenerationsTrue
  <2>1. DOMAIN r = {"status", "cert", "generation"} /\ r.generation = r.cert /\ r.status = "revoked"
    BY <1>2, <2>0, TablesKnown
  <2>2. pinned' = [pinned EXCEPT ![f][p] = r] BY <1>1, <1>2
  <2>3. QED BY <2>1, <2>2, PinWritten
<1>6. Forward BY <1>1, <1>3 DEF Forward, PinsOnward
<1>7. RecoveryTypeOK' /\ RecoveryShapes' /\ NeverHalfRestored'
  <2>1. \A h \in Fresh : PlanTyped(plan'[h]) /\ plan'[h].id = plan[h].id
    BY <1>1, PlanKnown
  <2>2. /\ DOMAIN plan' = Fresh /\ DOMAIN approvals' = Peers /\ files' \subseteq Request \cup Approval
        /\ \A x \in Peers : \A a, b \in approvals'[x] : a.request.id = b.request.id => a = b
        /\ trust' \in [Peers -> [Fresh \cup {Old} -> {"none", "paired", "revoked"}]]
    BY <1>1, TablesKnown, PlanKnown
  <2>3. QED BY <1>1, <1>3, <2>1, <2>2, TypesKept
<1>8. \A h \in Fresh : PlanTrue(h)' BY <1>1, <1>6, PlanStays
<1>9. ASSUME NEW h \in Fresh PROVE PinsTrue(h)'
  <2>1. \A x \in Peers : pinned[h][x].status = "none" => pinned'[h][x].status = "none"
    BY <1>1, TablesKnown
  <2>2. PinsTrue(h) BY PlanKnown
  <2>3. QED BY <1>1, <2>1, <2>2 DEF PinsTrue
<1>10. QED BY <1>1, <1>3, <1>6, <1>7, <1>8, <1>9, RecoveryGoesOn

LEMMA RevokeSteps ==
  ASSUME RecoveryInv, NEW p \in Peers, NEW d \in Fresh \cup {Old}, Revoke(p, d)
  PROVE  RecoveryInv' /\ Forward
<1>1. /\ UNCHANGED <<plan, gate, pinned, approvals, files, staging, restored, archive, generation, fenced>>
      /\ trust[p][d] = "paired"
      /\ trust' = [trust EXCEPT ![p][d] = "revoked"]
  BY DEF Revoke, Rest
<1>2. PICK t : t = [trust[p] EXCEPT ![d] = "revoked"]
  OBVIOUS
<1>3. trust' \in [Peers -> [Fresh \cup {Old} -> {"none", "paired", "revoked"}]] /\ TrustOnward
  <2>1. t \in [Fresh \cup {Old} -> {"none", "paired", "revoked"}] /\ trust' = [trust EXCEPT ![p] = t]
    BY <1>1, <1>2, TablesKnown
  <2>2. \A x \in Fresh \cup {Old} : /\ trust[p][x] = "revoked" => t[x] = "revoked"
                                    /\ trust[p][x] # "none" => t[x] # "none"
    BY <1>1, <1>2, TablesKnown
  <2>3. QED BY <2>1, <2>2, TrustWritten
<1>6. Forward BY <1>1, <1>3 DEF Forward, TrustOnward
<1>7. RecoveryTypeOK' /\ RecoveryShapes' /\ NeverHalfRestored'
  <2>1. \A h \in Fresh : PlanTyped(plan'[h]) /\ plan'[h].id = plan[h].id
    BY <1>1, PlanKnown
  <2>2. DOMAIN plan' = Fresh /\ DOMAIN approvals' = Peers BY <1>1, TablesKnown
  <2>6. files' \subseteq Request \cup Approval BY <1>1, TablesKnown
  <2>5. \A x \in Peers : \A a, b \in approvals'[x] : a.request.id = b.request.id => a = b
    BY <1>1, TablesKnown
  <2>4. /\ DOMAIN pinned' = Fresh /\ (\A h \in Fresh : DOMAIN pinned'[h] = Peers)
        /\ \A h \in Fresh : \A x \in Peers : DOMAIN pinned'[h][x] = {"status", "cert", "generation"}
    BY <1>1, TablesKnown
  <2>3. QED BY <1>1, <1>3, <2>1, <2>2, <2>4, <2>5, <2>6, TypesKept
<1>8. \A h \in Fresh : PlanTrue(h)' BY <1>1, <1>6, PlanStays
<1>9. GenerationsTrue' BY <1>1 DEF RecoveryInv, GenerationsTrue
<1>10. \A h \in Fresh : PinsTrue(h)' BY <1>1 DEF RecoveryInv, PinsTrue
<1>11. QED BY <1>1, <1>6, <1>7, <1>8, <1>9, <1>10, RecoveryGoesOn

(* The generation that is found is the certificate's.                      *)
LEMMA GenerationKnown ==
  ASSUME RecoveryInv, NEW f \in Fresh, NEW a \in files, a.kind = "approval", Acceptable(f, a)
  PROVE  (CHOOSE g \in GenerationOf(a) : TRUE) = a.cert
<1>1. ApprovalTrue(a) /\ ArchiveTrue BY DEF RecoveryInv, FilesTrue
<1>2. a.peer \in Peers /\ a.cert = archive.cert[a.peer]
  BY <1>1 DEF ApprovalTrue, Approval, Acceptable
<1>3. GenerationOf(a) \subseteq {a.cert}
  BY <1>1, <1>2 DEF GenerationOf, KnownGenerations, ApprovalTrue, ArchiveTrue
<1>4. GenerationOf(a) # {}
  <2>1. Cardinality(GenerationOf(a)) = 1 BY DEF Acceptable
  <2>2. QED BY <2>1, FS_EmptySet
<1>5. QED BY <1>3, <1>4

LEMMA CommitSteps ==
  ASSUME RecoveryInv, NEW f \in Fresh, NEW a \in files, CommitApproval(f, a)
  PROVE  RecoveryInv' /\ Forward
<1>1. /\ UNCHANGED <<gate, trust, approvals, files, staging, restored, archive, generation, fenced>>
      /\ a.kind = "approval" /\ Acceptable(f, a)
      /\ plan[f].items[a.peer] = "pending"
      /\ pinned' = [pinned EXCEPT ![f][a.peer] = [status |-> "paired", cert |-> a.cert, generation |-> CHOOSE g \in GenerationOf(a) : TRUE]]
      /\ plan' = [plan EXCEPT ![f].items[a.peer] = "committed"]
  BY DEF CommitApproval, Rest, Recommit
<1>2. PICK r : r = [status |-> "paired", cert |-> a.cert, generation |-> CHOOSE g \in GenerationOf(a) : TRUE]
  OBVIOUS
<1>3. ApprovalTrue(a) /\ a.peer \in Peers /\ a.new = f /\ a.id \in PlanIds /\ a.id = plan[f].id
  BY <1>1 DEF RecoveryInv, FilesTrue, ApprovalTrue, Approval, Acceptable
<1>4. PICK p \in Peers : p = a.peer BY <1>3
<1>5. Replacing(p, f) BY <1>3, <1>4 DEF ApprovalTrue
<1>6. pinned[f][p].status = "none"
  BY <1>1, <1>3, <1>4, PlanKnown, NoneIsNothing DEF PinsTrue
<1>7. DOMAIN r = {"status", "cert", "generation"} /\ r.generation = r.cert /\ r.status = "paired"
  BY <1>1, <1>2, GenerationKnown
<1>8. pinned' = [pinned EXCEPT ![f][p] = r] BY <1>1, <1>2, <1>4
<1>9. /\ DOMAIN pinned' = Fresh /\ (\A h \in Fresh : DOMAIN pinned'[h] = Peers)
      /\ \A h \in Fresh : \A x \in Peers : DOMAIN pinned'[h][x] = {"status", "cert", "generation"}
      /\ GenerationsTrue' /\ PinsOnward /\ pinned'[f][p] = r
  BY <1>6, <1>7, <1>8, PinWritten
<1>10. Forward BY <1>1, <1>9 DEF Forward, PinsOnward
<1>11. /\ DOMAIN plan' = Fresh /\ (\A h \in Fresh \ {f} : plan'[h] = plan[h])
       /\ plan'[f] = [plan[f] EXCEPT !.items[p] = "committed"]
  BY <1>1, <1>4, PlanKnown
<1>12. /\ PlanTyped(plan'[f]) /\ plan'[f].id = plan[f].id /\ plan'[f].control = plan[f].control
       /\ plan'[f].status = plan[f].status
       /\ plan'[f].items = [plan[f].items EXCEPT ![p] = "committed"]
  BY <1>11, PlanKnown DEF PlanTyped
<1>13. \A x \in Peers : plan'[f].items[x] = IF x = p THEN "committed" ELSE plan[f].items[x]
  BY <1>12, PlanKnown DEF PlanTyped
<1>14. \A h \in Fresh : PlanTyped(plan'[h]) /\ plan'[h].id = plan[h].id
  BY <1>11, <1>12, PlanKnown
<1>15. RecoveryTypeOK' /\ RecoveryShapes' /\ NeverHalfRestored'
  <2>1. DOMAIN approvals' = Peers BY <1>1, TablesKnown
  <2>2. files' \subseteq Request \cup Approval BY <1>1, TablesKnown
  <2>3. \A x \in Peers : \A u, v \in approvals'[x] : u.request.id = v.request.id => u = v
    BY <1>1, TablesKnown
  <2>4. trust' \in [Peers -> [Fresh \cup {Old} -> {"none", "paired", "revoked"}]]
    BY <1>1, TablesKnown
  <2>5. QED BY <1>1, <1>9, <1>11, <1>14, <2>1, <2>2, <2>3, <2>4, TypesKept
<1>16. ASSUME NEW h \in Fresh PROVE PlanTrue(h)' /\ PinsTrue(h)'
  <2>1. CASE h = f
    <3>1. PlanTrue(f) /\ PinsTrue(f) BY PlanKnown
    <3>2. \A x \in Peers : Replacing(x, f) => Replacing(x, f)' BY <1>1 DEF Replacing
    <3>3. \A x \in Peers : pinned[f][x].status # "none" => pinned'[f][x].status # "none"
      BY <1>9 DEF PinsOnward
    <3>4. \A x \in Peers : plan'[f].items[x] = "committed" => Replacing(x, f)' /\ pinned'[f][x].status # "none"
      BY <1>5, <1>7, <1>9, <1>13, <3>1, <3>2, <3>3 DEF PlanTrue
    <3>5. PlanTrue(f)' BY <1>1, <1>12, <1>13, <3>1, <3>4 DEF PlanTrue
    <3>6. \A x \in Peers \ {p} : pinned'[f][x] = pinned[f][x] BY <1>8, TablesKnown
    <3>7. PinsTrue(f)' BY <1>12, <1>13, <3>1, <3>6 DEF PinsTrue
    <3>8. QED BY <2>1, <3>5, <3>7
  <2>2. CASE h # f
    <3>1. plan'[h] = plan[h] /\ gate'[h] = gate[h] /\ fenced' = fenced /\ pinned'[h] = pinned[h]
      BY <1>1, <1>8, <1>11, <2>2, TablesKnown
    <3>2. PinsTrue(h)' BY <3>1, PlanKnown DEF PinsTrue
    <3>3. QED BY <1>10, <3>1, <3>2, PlanStays
  <2>3. QED BY <2>1, <2>2
<1>17. QED BY <1>1, <1>9, <1>10, <1>15, <1>16, RecoveryGoesOn

LEMMA ApproveSteps ==
  ASSUME RecoveryInv, NEW p \in Peers, NEW q \in files, NEW version \in {1, 2}, Approve(p, q, version)
  PROVE  RecoveryInv' /\ Forward
<1>1. /\ UNCHANGED <<plan, gate, pinned, staging, restored, archive, generation, fenced>>
      /\ q.kind = "request" /\ q.peer = p
  BY DEF Approve, Rest
<1>2. q \in Request
  <2>1. q \in Request \cup Approval BY TablesKnown
  <2>2. QED BY <1>1, <2>1 DEF Approval
<1>3. q.new \in Fresh /\ q.id \in PlanIds /\ Old \notin Fresh
  BY <1>2, RecoveryAssumption DEF Request
<1>4. /\ trust' \in [Peers -> [Fresh \cup {Old} -> {"none", "paired", "revoked"}]] /\ TrustOnward
      /\ DOMAIN approvals' = Peers
      /\ \A x \in Peers : \A u, v \in approvals'[x] : u.request.id = v.request.id => u = v
      /\ \A x \in Peers : \A u \in approvals'[x] : u \in approvals[x] \/ (u.request \in Request /\ ApprovalTrue(u.response)')
      /\ \A u \in files' : u \in files \/ ApprovalTrue(u)'
  <2>1. ASSUME NEW a \in Prior(p, q), a.request = q, Saved(a.response), UNCHANGED <<approvals, trust>>
        PROVE  /\ trust' \in [Peers -> [Fresh \cup {Old} -> {"none", "paired", "revoked"}]] /\ TrustOnward
               /\ DOMAIN approvals' = Peers
               /\ \A x \in Peers : \A u, v \in approvals'[x] : u.request.id = v.request.id => u = v
               /\ \A x \in Peers : \A u \in approvals'[x] : u \in approvals[x] \/ (u.request \in Request /\ ApprovalTrue(u.response)')
               /\ \A u \in files' : u \in files \/ ApprovalTrue(u)'
    <3>1. /\ trust' \in [Peers -> [Fresh \cup {Old} -> {"none", "paired", "revoked"}]] /\ TrustOnward
          /\ DOMAIN approvals' = Peers
      BY <2>1, TablesKnown DEF TrustOnward
    <3>2. \A x \in Peers : \A u, v \in approvals'[x] : u.request.id = v.request.id => u = v
      BY <2>1, TablesKnown
    <3>3. \A u \in files' : u \in files \/ u = a.response BY <2>1 DEF Saved
    <3>4. a \in approvals[p] BY DEF Prior
    <3>5. ApprovalTrue(a.response) BY <3>4 DEF RecoveryInv, StoredTrue
    <3>6. ApprovalTrue(a.response)' BY <2>1, <3>5 DEF ApprovalTrue, Replacing
    <3>7. QED BY <2>1, <3>1, <3>2, <3>3, <3>6
  <2>2. ASSUME Prior(p, q) = {}, OldKnown(p), Unknown(p, q), trust' = [trust EXCEPT ![p] = AfterApproval(p, q)],
               approvals' = [approvals EXCEPT ![p] = @ \cup {[request |-> q, response |-> ApprovalOf(p, q, version)]}],
               Saved(ApprovalOf(p, q, version))
        PROVE  /\ trust' \in [Peers -> [Fresh \cup {Old} -> {"none", "paired", "revoked"}]] /\ TrustOnward
               /\ DOMAIN approvals' = Peers
               /\ \A x \in Peers : \A u, v \in approvals'[x] : u.request.id = v.request.id => u = v
               /\ \A x \in Peers : \A u \in approvals'[x] : u \in approvals[x] \/ (u.request \in Request /\ ApprovalTrue(u.response)')
               /\ \A u \in files' : u \in files \/ ApprovalTrue(u)'
    <3>1. PICK t : t = [trust[p] EXCEPT ![Old] = "revoked", ![q.new] = "paired"]
      OBVIOUS
    <3>2. t \in [Fresh \cup {Old} -> {"none", "paired", "revoked"}] /\ t[Old] = "revoked" /\ t[q.new] = "paired"
      BY <1>3, <3>1, TablesKnown
    <3>3. \A d \in Fresh \cup {Old} : /\ trust[p][d] = "revoked" => t[d] = "revoked"
                                      /\ trust[p][d] # "none" => t[d] # "none"
      BY <1>3, <2>2, <3>1, TablesKnown DEF Unknown
    <3>4. trust' = [trust EXCEPT ![p] = t] BY <2>2, <3>1 DEF AfterApproval
    <3>5. trust' \in [Peers -> [Fresh \cup {Old} -> {"none", "paired", "revoked"}]] /\ TrustOnward /\ trust'[p] = t
      BY <3>2, <3>3, <3>4, TrustWritten
    <3>6. PICK b : b = ApprovalOf(p, q, version)
      OBVIOUS
    <3>7. /\ b = [kind |-> "approval", id |-> q.id, new |-> q.new, peer |-> p, cert |-> generation[p],
                  generation |-> IF version = 2 THEN generation[p] ELSE NoGen]
          /\ generation[p] \in Gens
      BY <3>6, TablesKnown DEF ApprovalOf
    <3>8. b \in Approval /\ b.generation \in {b.cert, NoGen} /\ b.peer = p /\ b.new = q.new
      BY <1>3, <3>7 DEF Approval
    <3>9. ApprovalTrue(b)' BY <3>2, <3>5, <3>8 DEF ApprovalTrue, Replacing
    <3>10. PICK n : n = [request |-> q, response |-> b]
      OBVIOUS
    <3>11. n.request = q /\ n.response = b BY <3>10
    <3>12. /\ DOMAIN approvals' = Peers /\ approvals'[p] = approvals[p] \cup {n}
           /\ \A x \in Peers \ {p} : approvals'[x] = approvals[x]
      BY <2>2, <3>6, <3>10, TablesKnown
    <3>13. \A u \in approvals[p] : u.request.id # q.id BY <2>2 DEF Prior
    <3>14. \A x \in Peers : \A u, v \in approvals'[x] : u.request.id = v.request.id => u = v
      BY <3>11, <3>12, <3>13, TablesKnown
    <3>15. \A x \in Peers : \A u \in approvals'[x] : u \in approvals[x] \/ (u.request \in Request /\ ApprovalTrue(u.response)')
      <4> SUFFICES ASSUME NEW x \in Peers, NEW u \in approvals'[x], u \notin approvals[x]
                   PROVE  u.request \in Request /\ ApprovalTrue(u.response)'
        OBVIOUS
      <4>1. u = n BY <3>12
      <4>2. u.request = q /\ u.response = b BY <3>11, <4>1
      <4>3. QED BY <1>2, <3>9, <4>2
    <3>16. \A u \in files' : u \in files \/ ApprovalTrue(u)'
      <4> SUFFICES ASSUME NEW u \in files', u \notin files PROVE ApprovalTrue(u)'
        OBVIOUS
      <4>1. u = b BY <2>2, <3>6 DEF Saved
      <4>2. QED BY <3>9, <4>1
    <3>17. QED BY <3>5, <3>12, <3>14, <3>15, <3>16
  <2>3. \/ \E a \in Prior(p, q) : a.request = q /\ Saved(a.response) /\ UNCHANGED <<approvals, trust>>
        \/ /\ Prior(p, q) = {} /\ OldKnown(p) /\ Unknown(p, q)
           /\ trust' = [trust EXCEPT ![p] = AfterApproval(p, q)]
           /\ approvals' = [approvals EXCEPT ![p] = @ \cup {[request |-> q, response |-> ApprovalOf(p, q, version)]}]
           /\ Saved(ApprovalOf(p, q, version))
    BY DEF Approve
  <2>4. CASE \E a \in Prior(p, q) : a.request = q /\ Saved(a.response) /\ UNCHANGED <<approvals, trust>>
    BY <2>1, <2>4
  <2>5. CASE /\ Prior(p, q) = {} /\ OldKnown(p) /\ Unknown(p, q)
             /\ trust' = [trust EXCEPT ![p] = AfterApproval(p, q)]
             /\ approvals' = [approvals EXCEPT ![p] = @ \cup {[request |-> q, response |-> ApprovalOf(p, q, version)]}]
             /\ Saved(ApprovalOf(p, q, version))
    BY <2>2, <2>5
  <2>6. QED BY <2>3, <2>4, <2>5
<1>5. files' \subseteq Request \cup Approval BY <1>4, TablesKnown DEF ApprovalTrue
<1>6. Forward BY <1>1, <1>4 DEF Forward, TrustOnward
<1>7. RecoveryTypeOK' /\ RecoveryShapes' /\ NeverHalfRestored'
  <2>1. \A h \in Fresh : PlanTyped(plan'[h]) /\ plan'[h].id = plan[h].id
    BY <1>1, PlanKnown
  <2>2. DOMAIN plan' = Fresh BY <1>1, TablesKnown
  <2>3. /\ DOMAIN pinned' = Fresh /\ (\A h \in Fresh : DOMAIN pinned'[h] = Peers)
        /\ \A h \in Fresh : \A x \in Peers : DOMAIN pinned'[h][x] = {"status", "cert", "generation"}
    BY <1>1, TablesKnown
  <2>4. QED BY <1>1, <1>4, <1>5, <2>1, <2>2, <2>3, TypesKept
<1>8. \A h \in Fresh : PlanTrue(h)' BY <1>1, <1>6, PlanStays
<1>9. (\A h \in Fresh : PinsTrue(h)') /\ GenerationsTrue'
  BY <1>1 DEF RecoveryInv, PinsTrue, GenerationsTrue
<1>10. QED BY <1>1, <1>4, <1>6, <1>7, <1>8, <1>9, RecoveryGoesOn

LEMMA RecoveryStarts == RecoveryInit => RecoveryInv
<1> SUFFICES ASSUME RecoveryInit PROVE RecoveryInv
  OBVIOUS
<1>1. /\ staging = [now |-> NoStaging, left |-> {}] /\ restored = {} /\ files = {} /\ fenced = None /\ generation \in [Peers -> Gens]
      /\ plan = [f \in Fresh |-> NoPlan] /\ gate = [f \in Fresh |-> "clean"]
      /\ pinned = [f \in Fresh |-> [p \in Peers |-> Unpinned]]
      /\ trust = [p \in Peers |-> [d \in Fresh \cup {Old} |-> IF d = Old THEN "paired" ELSE "none"]]
      /\ approvals = [p \in Peers |-> {}]
  BY DEF RecoveryInit
<1>2. /\ archive.cert = generation /\ archive.generation \in [Peers -> Gens \cup {NoGen}]
      /\ (\A p \in Peers : archive.generation[p] \in {archive.cert[p], NoGen})
      /\ archive.effects \in [Effects -> Classes]
  <2>1. PICK known \in BOOLEAN, unknown \in SUBSET Effects :
          archive = [cert |-> generation,
                  generation |-> [p \in Peers |-> IF known THEN generation[p] ELSE NoGen],
                  effects |-> [e \in Effects |-> IF e \in unknown THEN "unknown" ELSE "already_processed"]]
    BY DEF RecoveryInit
  <2>2. /\ archive.cert = generation
        /\ archive.generation = [p \in Peers |-> IF known THEN generation[p] ELSE NoGen]
        /\ archive.effects = [e \in Effects |-> IF e \in unknown THEN "unknown" ELSE "already_processed"]
    BY <2>1
  <2>3. archive.effects \in [Effects -> Classes] BY <2>2 DEF Classes
  <2>4. archive.generation \in [Peers -> Gens \cup {NoGen}] BY <1>1, <2>2
  <2>5. QED BY <2>2, <2>3, <2>4
<1>3. \A f \in Fresh : /\ plan[f] = NoPlan /\ plan[f].id = None /\ plan[f].status = None /\ plan[f].control = None
                       /\ plan[f].items = [p \in Peers |-> "pending"]
                       /\ plan[f].effects = [e \in Effects |-> "unknown"]
                       /\ DOMAIN plan[f] = {"id", "status", "control", "items", "effects", "operations"}
  BY <1>1 DEF NoPlan
<1>4. \A f \in Fresh : plan[f].items \in [Peers -> {"pending", "committed"}] /\ plan[f].effects \in [Effects -> Classes]
  BY <1>3 DEF Classes
<1>5. \A f \in Fresh : \A p \in Peers : pinned[f][p] = Unpinned BY <1>1
<1>6. RecoveryTypeOK
  <2>1. staging \in Stagings /\ restored \in Dirs /\ gate \in [Fresh -> {"clean", "origin", "activated"}]
    BY <1>1 DEF Stagings, NoStaging, Staged, Dirs
  <2>2. trust \in [Peers -> [Fresh \cup {Old} -> {"none", "paired", "revoked"}]] BY <1>1
  <2>3. \A f \in Fresh : /\ plan[f].status \in {None, "pending", "active"}
                         /\ plan[f].id = None <=> gate[f] = "clean"
    BY <1>1, <1>3
  <2>4. \A p \in Peers : \A a, b \in approvals[p] : a.request.id = b.request.id => a = b
    BY <1>1
  <2>5. QED BY <1>1, <1>2, <1>4, <2>1, <2>2, <2>3, <2>4 DEF RecoveryTypeOK
<1>7. RecoveryShapes BY <1>1, <1>3, <1>5 DEF RecoveryShapes, Unpinned
<1>8. ArchiveTrue /\ FilesTrue /\ StoredTrue /\ NeverHalfRestored
  <2>1. staging.now = NoStaging /\ staging.left = {} BY <1>1
  <2>2. NeverHalfRestored BY <1>1, <2>1 DEF NeverHalfRestored, NoStaging, Openable
  <2> QED BY <1>1, <1>2, <2>2 DEF ArchiveTrue, FilesTrue, StoredTrue
<1>9. GenerationsTrue /\ \A f \in Fresh : PinsTrue(f)
  BY <1>3, <1>5 DEF GenerationsTrue, PinsTrue, Unpinned
<1>10. ASSUME NEW f \in Fresh PROVE PlanTrue(f) BY <1>1, <1>3 DEF PlanTrue, None
<1>11. QED BY <1>6, <1>7, <1>8, <1>9, <1>10 DEF RecoveryInv

LEMMA RecoveryRests ==
  ASSUME RecoveryInv, UNCHANGED recoveryVars
  PROVE  RecoveryInv' /\ Forward
<1>1. UNCHANGED <<staging, restored, archive, plan, gate, pinned, trust, generation, approvals, files, fenced>>
  BY DEF recoveryVars
<1>2. Forward BY <1>1 DEF Forward
<1>3. RecoveryTypeOK' BY <1>1 DEF RecoveryInv, RecoveryTypeOK
<1>4. RecoveryShapes' BY <1>1 DEF RecoveryInv, RecoveryShapes
<1>5. \A f \in Fresh : PlanTrue(f)' BY <1>1, <1>2, PlanStays
<1>6. (\A f \in Fresh : PinsTrue(f)') /\ GenerationsTrue'
  BY <1>1 DEF RecoveryInv, PinsTrue, GenerationsTrue
<1>7. NeverHalfRestored' BY <1>1 DEF RecoveryInv, NeverHalfRestored, Openable
<1>8. QED BY <1>1, <1>2, <1>3, <1>4, <1>5, <1>6, <1>7, RecoveryGoesOn

LEMMA RecoverySteps ==
  ASSUME RecoveryInv, [RecoveryNext]_recoveryVars
  PROVE  RecoveryInv' /\ Forward
<1>1. CASE Restores \/ \E p \in Peers : PeerRotates(p) BY <1>1, RestoreSteps
<1>2. ASSUME NEW f \in Fresh, \E id \in PlanIds : BeginRecovery(f, id) PROVE RecoveryInv' /\ Forward
  BY <1>2, BeginSteps
<1>3. ASSUME NEW f \in Fresh, \E op \in ReconIds, e \in Effects, c \in Classes : Reconcile(f, op, e, c) PROVE RecoveryInv' /\ Forward
  BY <1>3, ReconcileSteps
<1>4. ASSUME NEW f \in Fresh, NEW p \in Peers, Pair(f, p) \/ RevokePeer(f, p) \/ \E r \in Routes : MakeRequest(f, p, r)
      PROVE  RecoveryInv' /\ Forward
  BY <1>4, PairSteps, RevokePeerSteps, RequestSteps
<1>5. ASSUME NEW f \in Fresh, (\E a \in files : CommitApproval(f, a)) \/ Fence(f) \/ Activate(f) PROVE RecoveryInv' /\ Forward
  BY <1>5, CommitSteps, FenceSteps, ActivateSteps
<1>6. ASSUME NEW p \in Peers, \E d \in Fresh \cup {Old} : Revoke(p, d) PROVE RecoveryInv' /\ Forward
  BY <1>6, RevokeSteps
<1>7. ASSUME NEW p \in Peers, \E q \in files, version \in {1, 2} : Approve(p, q, version) PROVE RecoveryInv' /\ Forward
  BY <1>7, ApproveSteps
<1>8. CASE UNCHANGED recoveryVars BY <1>8, RecoveryRests
<1>9. QED BY <1>1, <1>2, <1>3, <1>4, <1>5, <1>6, <1>7, <1>8 DEF RecoveryNext, Restores

(* What the invariant says of an active identity.                          *)
LEMMA RecoverySaid ==
  ASSUME RecoveryInv
  PROVE  RecoveryTypeOK /\ ActiveMeansFenced /\ ReplacedOnce /\ GenerationsTrue /\ NeverHalfRestored
<1>1. ActiveMeansFenced BY DEF RecoveryInv, PlanTrue, Replacing, ActiveMeansFenced
<1>2. ReplacedOnce BY DEF RecoveryInv, PlanTrue, ReplacedOnce
<1>3. QED BY <1>1, <1>2 DEF RecoveryInv

(* However the commands of a recovery are ordered and repeated, and its    *)
(* files lost, kept and used again, an active identity has replaced the    *)
(* old one at every peer and at the control service, alone; it pins true   *)
(* generations; what a restore publishes is in quarantine, as is what a    *)
(* kill leaves of one before an error has begun its removal; and nobody    *)
(* who was revoked comes back.                                             *)
THEOREM RecoveryKept == RecoverySpec => RecoverySafe
<1>1. RecoveryInit => RecoveryInv BY RecoveryStarts
<1>2. RecoveryInv /\ [RecoveryNext]_recoveryVars => RecoveryInv' BY RecoverySteps
<1>3. RecoveryInv => RecoveryTypeOK /\ ActiveMeansFenced /\ ReplacedOnce /\ GenerationsTrue /\ NeverHalfRestored
  BY RecoverySaid
<1>4. RecoveryInv /\ [RecoveryNext]_recoveryVars
        => [/\ \A p \in Peers : \A d \in Fresh \cup {Old} : trust[p][d] = "revoked" => trust'[p][d] = "revoked"
            /\ \A f \in Fresh : \A p \in Peers :
                 pinned[f][p].status = "revoked" => pinned'[f][p].status = "revoked"]_recoveryVars
  BY RecoverySteps DEF Forward
<1>5. QED
  BY <1>1, <1>2, <1>3, <1>4, PTL DEF RecoverySpec, RecoverySafe, RevocationSticks

-----------------------------------------------------------------------------
(* The rotation of keys.                                                   *)

(* A saved rotation is of the next key until it is active, and goes to     *)
(* everyone the device still has paired.                                   *)
SavedRight(d) ==
  /\ d \notin saved[d].receivers
  /\ saved[d].status = "none" => keyGen[d] = 0 /\ saved[d].gen = 0 /\ saved[d].receivers = {}
  /\ saved[d].status = "prepared" => saved[d].gen = keyGen[d] + 1 /\ saved[d].receivers # {}
  /\ saved[d].status = "active" => saved[d].gen = keyGen[d]
  /\ saved[d].status # "none" => \A e \in Devices \ {d} : peer[d][e].status = "paired" => e \in saved[d].receivers

(* What a store has about a device: the pinned key alone is active, and    *)
(* the next one alone may be prepared.                                     *)
ViewRight(v) ==
  /\ \A g \in KeyGens : v.ops[g] = "prepared" => v.keys[g] \in {"pending", "revoked"}
  /\ v.status = "paired" =>
       /\ \A k \in KeyGens : v.keys[k] = "active" <=> k = v.pin
       /\ \A g \in KeyGens : v.ops[g] = "prepared" => g = v.pin + 1
       /\ \A g \in KeyGens : v.ops[g] = "committed" => g <= v.pin
       /\ v.pin > 0 => v.ops[v.pin] = "committed"

(* Who follows a device's rotations pins a key the device has.             *)
Followers(d) ==
  {e \in Devices \ {d} : peer[e][d].status = "paired" /\ (saved[d].status = "none" \/ e \in saved[d].receivers)}
FollowRight(d) == \A e \in Followers(d) : peer[e][d].pin \in Held(d)

(* A receiver has committed the saved rotation, or revoked the device; the *)
(* receivers commit in the order of their ids.                             *)
Through(d, e) == peer[e][d].status = "paired" => peer[e][d].pin = saved[d].gen
InOrder(d) ==
  saved[d].status = "prepared" =>
    \A e \in saved[d].receivers : peer[e][d].status = "paired" /\ peer[e][d].pin = saved[d].gen =>
      \A f \in saved[d].receivers : f < e => Through(d, f)

RunRight(d) ==
  /\ run[d].pc # "idle" => saved[d].status = "prepared" /\ ~serving[d]
  /\ run[d].todo \subseteq saved[d].receivers
  /\ run[d].pc \in {"commit", "committing"} => \A e \in saved[d].receivers \ run[d].todo : Through(d, e)
  /\ run[d].pc = "activate" => \A e \in saved[d].receivers : Through(d, e)

(* A request meets what its sender relied on: while it is on its way its   *)
(* receiver serves, does not rotate itself and has nothing under way to    *)
(* the sender; so the sender's pin stays what it was.                      *)
RequestRight(q) ==
  /\ serving[q.to] /\ q.to # q.from /\ q.gen <= saved[q.from].gen
  /\ peer[q.from][q.to].status = "paired" => peer[q.from][q.to].pin = keyGen[q.to]
  /\ q.op = "commit" /\ q.gen = saved[q.from].gen =>
       \A f \in saved[q.from].receivers : f < q.to => Through(q.from, f)
  /\ ~q.late =>
       /\ run[q.from].pc = IF q.op = "commit" THEN "committing" ELSE "preparing"
       /\ q.gen = saved[q.from].gen
       /\ q.to \in run[q.from].todo /\ \A f \in run[q.from].todo : q.to <= f
RequestsRight ==
  /\ \A q \in requests : RequestRight(q)
  /\ \A q, r \in requests : ~(q.from = r.to /\ q.to = r.from)
  /\ \A q, r \in requests : ~q.late /\ ~r.late /\ q.from = r.from => q = r

(* No two devices have committed each other's rotation.                    *)
Uncrossed ==
  \A d, e \in Devices :
    d # e /\ Both(d, e) /\ saved[d].status = "prepared" /\ saved[e].status = "prepared" =>
      ~(peer[e][d].pin = saved[d].gen /\ peer[d][e].pin = saved[e].gen)

RotationInv ==
  /\ RotationTypeOK
  /\ \A d \in Devices : SavedRight(d)
  /\ \A e, d \in Devices : ViewRight(peer[e][d])
  /\ \A d \in Devices : FollowRight(d)
  /\ \A d \in Devices : InOrder(d)
  /\ \A d \in Devices : RunRight(d)
  /\ RequestsRight
  /\ Uncrossed
(* The least and the greatest of a set of numbers.                         *)
LEMMA LeastOf ==
  ASSUME NEW T \in SUBSET Nat, T # {}
  PROVE  \E m \in T : \A n \in T : m <= n
<1> DEFINE R == {ss \in Nat \X Nat : ss[1] < ss[2]}
<1>1. R = OpToRel(<, Nat) BY DEF OpToRel
<1>2. IsWellFoundedOn(R, Nat) BY <1>1, NatLessThanWellFounded
<1>3. ASSUME NEW x \in Nat, NEW y \in Nat, y < x PROVE <<y, x>> \in R
  <2>1. PICK p : p = <<y, x>>
    OBVIOUS
  <2>2. p \in Nat \X Nat BY <2>1
  <2>3. p[1] = y /\ p[2] = x BY <2>1
  <2>4. p[1] < p[2] BY <1>3, <2>3
  <2>5. p \in R BY <2>2, <2>4
  <2>6. QED BY <2>1, <2>5
<1> HIDE DEF R
<1>4. PICK x \in T : \A y \in T : ~(<<y, x>> \in R) BY <1>2, WFMin
<1>5. \A y \in T : ~(y < x) BY <1>3, <1>4
<1>6. QED BY <1>5

LEMMA GreatestOf ==
  ASSUME NEW S \in SUBSET Nat, IsFiniteSet(S), S # {}
  PROVE  \E m \in S : \A n \in S : n <= m
<1> DEFINE Bad(T) == T \in SUBSET Nat /\ IsFiniteSet(T) /\ T # {} /\ \A m \in T : \E n \in T : ~(n <= m)
<1> DEFINE Sizes == {k \in Nat : \E T \in SUBSET Nat : Bad(T) /\ Cardinality(T) = k}
<1>1. SUFFICES ASSUME Bad(S) PROVE FALSE
  OBVIOUS
<1>2. Cardinality(S) \in Sizes BY <1>1, FS_CardinalityType
<1>3. PICK k \in Sizes : \A n \in Sizes : k <= n
  <2>1. Sizes \in SUBSET Nat /\ Sizes # {} BY <1>2
  <2>2. QED BY <2>1, LeastOf
<1>4. PICK T \in SUBSET Nat : Bad(T) /\ Cardinality(T) = k BY <1>3
<1>5. PICK x \in T : TRUE BY <1>4
<1>6. IsFiniteSet(T \ {x}) /\ Cardinality(T \ {x}) = k - 1 /\ k \in Nat
  BY <1>4, <1>5, FS_RemoveElement, FS_CardinalityType
<1>7. ~Bad(T \ {x})
  <2>1. ASSUME Bad(T \ {x}) PROVE FALSE
    <3>1. Cardinality(T \ {x}) \in Sizes BY <2>1, FS_CardinalityType
    <3>2. k <= k - 1 BY <1>3, <1>6, <3>1
    <3>3. QED BY <1>6, <3>2
  <2>2. QED BY <2>1
<1>8. T \ {x} # {} BY <1>4, <1>5
<1>9. PICK m \in T \ {x} : \A n \in T \ {x} : n <= m BY <1>6, <1>7, <1>8
<1>10. \A n \in T : n <= m \/ n <= x BY <1>9
<1>11. m \in Nat /\ x \in Nat BY <1>4, <1>5
<1>12. \E y \in T : \A n \in T : n <= y
  <2>1. CASE m <= x
    <3>1. \A n \in T : n <= x BY <1>9, <1>11, <2>1
    <3>2. QED BY <1>5, <3>1
  <2>2. CASE ~(m <= x)
    <3>1. \A n \in T : n <= m BY <1>9, <1>11, <2>2
    <3>2. QED BY <1>9, <3>1
  <2>3. QED BY <2>1, <2>2
<1>13. QED BY <1>4, <1>12

LEMMA CurrentLeast ==
  ASSUME RotationInv, NEW d \in Devices, run[d].todo # {}
  PROVE  CurrentPeer(d) \in run[d].todo /\ \A f \in run[d].todo : CurrentPeer(d) <= f
<1>1. run[d].todo \in SUBSET Nat
  BY DevicesAssumption DEF RotationInv, RotationTypeOK, Run
<1>2. \E e \in run[d].todo : \A f \in run[d].todo : e <= f BY <1>1, LeastOf
<1>3. QED BY <1>2 DEF CurrentPeer

(* What is known of a device, a view and a request.                        *)
LEMMA DeviceKnown ==
  ASSUME RotationInv, NEW d \in Devices
  PROVE  /\ keyGen[d] \in KeyGens /\ saved[d] \in SavedRotation /\ run[d] \in Run /\ serving[d] \in BOOLEAN
         /\ saved[d].gen \in KeyGens /\ saved[d].receivers \subseteq Devices /\ run[d].todo \subseteq Devices
         /\ saved[d].status \in {"none", "prepared", "active"}
         /\ run[d].pc \in {"idle", "prepare", "preparing", "ask", "commit", "committing", "activate"}
         /\ SavedRight(d) /\ FollowRight(d) /\ InOrder(d) /\ RunRight(d)
         /\ run[d].pc \notin {"idle", "activate"} => run[d].todo # {}
<1>1. keyGen[d] \in KeyGens /\ saved[d] \in SavedRotation /\ run[d] \in Run /\ serving[d] \in BOOLEAN
  BY DEF RotationInv, RotationTypeOK
<1>2. /\ saved[d].gen \in KeyGens /\ saved[d].receivers \subseteq Devices
      /\ saved[d].status \in {"none", "prepared", "active"}
  BY <1>1 DEF SavedRotation
<1>3. /\ run[d].todo \subseteq Devices
      /\ run[d].pc \in {"idle", "prepare", "preparing", "ask", "commit", "committing", "activate"}
  BY <1>1 DEF Run
<1>4. SavedRight(d) /\ FollowRight(d) /\ InOrder(d) /\ RunRight(d) /\ (run[d].pc \notin {"idle", "activate"} => run[d].todo # {})
  BY DEF RotationInv, RotationTypeOK
<1>5. QED BY <1>1, <1>2, <1>3, <1>4

LEMMA ViewKnown ==
  ASSUME RotationInv, NEW e \in Devices, NEW d \in Devices
  PROVE  /\ peer[e][d] \in Peer /\ ViewRight(peer[e][d])
         /\ peer[e][d].pin \in KeyGens /\ peer[e][d].status \in {"paired", "revoked"}
         /\ peer[e][d].keys \in [KeyGens -> KeyStates] /\ peer[e][d].ops \in [KeyGens -> {"none", "prepared", "committed"}]
<1>1. peer[e][d] \in Peer /\ ViewRight(peer[e][d]) BY DEF RotationInv, RotationTypeOK
<1>2. QED BY <1>1 DEF Peer

LEMMA RequestKnown ==
  ASSUME RotationInv, NEW q \in requests
  PROVE  /\ q \in RotationRequest /\ RequestRight(q)
         /\ q.from \in Devices /\ q.to \in Devices /\ q.key \in KeyGens /\ q.gen \in KeyGens
         /\ q.op \in {"prepare", "commit"} /\ q.late \in BOOLEAN /\ q.admitted \in BOOLEAN
<1>1. q \in RotationRequest /\ RequestRight(q)
  BY DEF RotationInv, RotationTypeOK, RequestsRight
<1>2. QED BY <1>1 DEF RotationRequest

(* The steps of a command, and of a receiver, that touch no store.         *)
LEMMA StoresSame ==
  ASSUME RotationInv, UNCHANGED <<keyGen, saved, peer>>
  PROVE  /\ \A d \in Devices : SavedRight(d)' /\ FollowRight(d)' /\ InOrder(d)'
         /\ \A e, d \in Devices : ViewRight(peer[e][d])'
         /\ Uncrossed'
         /\ \A d, e : Through(d, e)' <=> Through(d, e)
<1>1. keyGen' = keyGen /\ saved' = saved /\ peer' = peer
  OBVIOUS
<1>2. \A d \in Devices : SavedRight(d)' BY <1>1 DEF RotationInv, SavedRight
<1>3. \A d \in Devices : FollowRight(d)'
  BY <1>1 DEF RotationInv, FollowRight, Followers, Held
<1>4. \A d, e : Through(d, e)' <=> Through(d, e) BY <1>1 DEF Through
<1>5. \A d \in Devices : InOrder(d)' BY <1>1 DEF RotationInv, InOrder, Through
<1>6. \A e, d \in Devices : ViewRight(peer[e][d])' BY <1>1 DEF RotationInv
<1>7. Uncrossed' BY <1>1 DEF RotationInv, Uncrossed, Both
<1>8. QED BY <1>2, <1>3, <1>4, <1>5, <1>6, <1>7

(* A command goes on: its request, if any, is the one it waits for.        *)
Moves(d, todo) ==
  /\ run' \in [Devices -> Run] /\ \A x \in Devices \ {d} : run'[x] = run[x]
  /\ run'[d].todo = todo
  /\ run'[d].pc \notin {"idle", "activate"} => run'[d].todo # {}
LEMMA CommandSteps ==
  ASSUME RotationInv, NEW d \in Devices, UNCHANGED <<keyGen, saved, serving, peer>>,
         NEW todo, Moves(d, todo), RunRight(d)', RequestsRight', requests' \subseteq RotationRequest
  PROVE  RotationInv'
<1>1. RotationTypeOK'
  <2>1. \A x \in Devices : run'[x].pc \notin {"idle", "activate"} => run'[x].todo # {}
    BY DEF RotationInv, RotationTypeOK, Moves
  <2>2. /\ keyGen' \in [Devices -> KeyGens] /\ saved' \in [Devices -> SavedRotation] /\ run' \in [Devices -> Run]
        /\ serving' \in [Devices -> BOOLEAN] /\ peer' \in [Devices -> [Devices -> Peer]]
    BY DEF RotationInv, RotationTypeOK, Moves
  <2>3. QED BY <2>1, <2>2 DEF RotationTypeOK
<1>2. ASSUME NEW x \in Devices PROVE RunRight(x)'
  <2>1. CASE x = d BY <2>1
  <2>2. CASE x # d
    <3>1. run'[x] = run[x] /\ RunRight(x) BY <2>2 DEF RotationInv, Moves
    <3>2. QED BY <3>1, StoresSame DEF RunRight
  <2>3. QED BY <2>1, <2>2
<1>3. QED BY <1>1, <1>2, StoresSame DEF RotationInv

(* A command's next stage is right.                                        *)
LEMMA MoveTyped ==
  ASSUME RotationInv, NEW d \in Devices, NEW todo \in SUBSET Devices,
         NEW pc \in {"idle", "prepare", "preparing", "ask", "commit", "committing", "activate"},
         Move(d, pc, todo), pc \notin {"idle", "activate"} => todo # {}
  PROVE  Moves(d, todo) /\ run'[d].pc = pc /\ run'[d].todo = todo
<1>1. run \in [Devices -> Run] /\ [pc |-> pc, todo |-> todo] \in Run
  BY DEF RotationInv, RotationTypeOK, Run
<1>2. run' = [run EXCEPT ![d] = [pc |-> pc, todo |-> todo]] BY DEF Move
<1>3. /\ run' \in [Devices -> Run] /\ run'[d] = [pc |-> pc, todo |-> todo]
      /\ \A x \in Devices \ {d} : run'[x] = run[x]
  BY <1>1, <1>2
<1>4. QED BY <1>3 DEF Moves

LEMMA PeerDoneRight ==
  ASSUME RotationInv, NEW d \in Devices, run[d].pc \in {"ask", "preparing", "committing"}, PeerDone(d),
         saved' = saved, serving' = serving,
         \A e \in saved[d].receivers : Through(d, e) => Through(d, e)',
         run[d].pc = "committing" => \A e \in saved[d].receivers : e = CurrentPeer(d) => Through(d, e)'
  PROVE  RunRight(d)' /\ \E todo : Moves(d, todo)
<1>1. /\ run[d].todo # {} /\ run[d].todo \subseteq saved[d].receivers /\ run[d].todo \subseteq Devices
      /\ saved[d].status = "prepared" /\ saved[d].receivers # {} /\ saved[d].receivers \subseteq Devices /\ ~serving[d]
      /\ run[d].pc = "committing" => \A e \in saved[d].receivers \ run[d].todo : Through(d, e)
  BY DeviceKnown DEF RunRight, SavedRight
<1>2. PICK rest \in SUBSET Devices : rest = run[d].todo \ {CurrentPeer(d)} BY <1>1
<1>3. run[d].pc = "committing" => \A e \in saved[d].receivers \ rest : Through(d, e)'
  BY <1>1, <1>2
<1>4. CASE rest # {} /\ run[d].pc = "committing"
  <2>1. Move(d, "commit", rest) BY <1>2, <1>4 DEF PeerDone
  <2>2. Moves(d, rest) /\ run'[d].pc = "commit" /\ run'[d].todo = rest
    BY <1>4, <2>1, MoveTyped
  <2>3. RunRight(d)' BY <1>1, <1>2, <1>3, <1>4, <2>2 DEF RunRight
  <2>4. QED BY <2>2, <2>3
<1>5. CASE rest # {} /\ run[d].pc # "committing"
  <2>1. Move(d, "prepare", rest) BY <1>2, <1>5 DEF PeerDone
  <2>2. Moves(d, rest) /\ run'[d].pc = "prepare" /\ run'[d].todo = rest
    BY <1>5, <2>1, MoveTyped
  <2>3. RunRight(d)' BY <1>1, <1>2, <2>2 DEF RunRight
  <2>4. QED BY <2>2, <2>3
<1>6. CASE rest = {} /\ run[d].pc = "committing"
  <2>1. Move(d, "activate", rest) BY <1>2, <1>6 DEF PeerDone
  <2>2. Moves(d, rest) /\ run'[d].pc = "activate" /\ run'[d].todo = rest
    BY <2>1, MoveTyped
  <2>3. RunRight(d)' BY <1>1, <1>2, <1>3, <1>6, <2>2 DEF RunRight
  <2>4. QED BY <2>2, <2>3
<1>7. CASE rest = {} /\ run[d].pc # "committing"
  <2>0. PICK all \in SUBSET Devices : all = saved[d].receivers BY <1>1
  <2>1. Move(d, "commit", all) BY <1>2, <1>7, <2>0 DEF PeerDone
  <2>2. Moves(d, all) /\ run'[d].pc = "commit" /\ run'[d].todo = all
    BY <1>1, <2>0, <2>1, MoveTyped
  <2>3. RunRight(d)' BY <1>1, <2>0, <2>2 DEF RunRight
  <2>4. QED BY <2>2, <2>3
<1>8. QED BY <1>4, <1>5, <1>6, <1>7

LEMMA StopRight ==
  ASSUME RotationInv, NEW d \in Devices, Stop(d)
  PROVE  RunRight(d)' /\ \E todo : Moves(d, todo)
<1>1. PICK none \in SUBSET Devices : none = {}
  OBVIOUS
<1>2. Moves(d, none) /\ run'[d].pc = "idle" /\ run'[d].todo = none
  BY <1>1, MoveTyped DEF Stop
<1>3. RunRight(d)' BY <1>1, <1>2 DEF RunRight
<1>4. QED BY <1>2, <1>3

LEMMA AskRight ==
  ASSUME RotationInv, NEW d \in Devices, run[d].pc \in {"prepare", "preparing"}, Move(d, "ask", run[d].todo),
         saved' = saved, serving' = serving
  PROVE  RunRight(d)' /\ \E todo : Moves(d, todo)
<1>1. /\ run[d].todo # {} /\ run[d].todo \subseteq saved[d].receivers /\ run[d].todo \subseteq Devices
      /\ saved[d].status = "prepared" /\ ~serving[d]
  BY DeviceKnown DEF RunRight
<1>2. PICK todo \in SUBSET Devices : todo = run[d].todo BY <1>1
<1>3. Moves(d, todo) /\ run'[d].pc = "ask" /\ run'[d].todo = todo
  BY <1>1, <1>2, MoveTyped
<1>4. RunRight(d)' BY <1>1, <1>2, <1>3 DEF RunRight
<1>5. QED BY <1>3, <1>4

LEMMA FailedRight ==
  ASSUME RotationInv, NEW d \in Devices, run[d].pc \in {"preparing", "committing"}, Failed(d),
         saved' = saved, serving' = serving
  PROVE  RunRight(d)' /\ \E todo : Moves(d, todo)
<1>1. CASE run[d].pc = "preparing" BY <1>1, AskRight DEF Failed
<1>2. CASE run[d].pc # "preparing" BY <1>2, StopRight DEF Failed
<1>3. QED BY <1>1, <1>2

(* Requests that are still the ones they were, but that their sender may   *)
(* not wait any more.                                                      *)
SameRequest(q, r) == q.op = r.op /\ q.from = r.from /\ q.to = r.to /\ q.gen = r.gen
OnlyOthersWait(d) ==
  \A q \in requests' : /\ q \in RotationRequest
                       /\ \E r \in requests : SameRequest(q, r) /\ (~q.late => q = r /\ q.from # d)
LEMMA QuietSteps ==
  ASSUME RotationInv, NEW d \in Devices, UNCHANGED <<keyGen, saved, serving, peer>>,
         \E todo : Moves(d, todo), RunRight(d)', OnlyOthersWait(d)
  PROVE  RotationInv'
<1>1. PICK todo : Moves(d, todo)
  OBVIOUS
<1>2. ASSUME NEW q \in requests' PROVE RequestRight(q)'
  <2>1. PICK r \in requests : SameRequest(q, r) /\ (~q.late => q = r /\ q.from # d)
    BY DEF OnlyOthersWait
  <2>2. RequestRight(r) /\ r.from \in Devices /\ q.from = r.from /\ q.to = r.to /\ q.gen = r.gen /\ q.op = r.op
    BY <2>1, RequestKnown DEF SameRequest
  <2>3. \A f : Through(q.from, f)' <=> Through(q.from, f) BY StoresSame
  <2>4. q.op = "commit" /\ q.gen = saved'[q.from].gen => \A f \in saved'[q.from].receivers : f < q.to => Through(q.from, f)'
    BY <2>2, <2>3 DEF RequestRight
  <2>5. ~q.late =>
          /\ run'[q.from].pc = IF q.op = "commit" THEN "committing" ELSE "preparing"
          /\ q.gen = saved'[q.from].gen
          /\ q.to \in run'[q.from].todo /\ \A f \in run'[q.from].todo : q.to <= f
    <3>1. SUFFICES ASSUME ~q.late
                   PROVE  /\ run'[q.from].pc = IF q.op = "commit" THEN "committing" ELSE "preparing"
                          /\ q.gen = saved'[q.from].gen
                          /\ q.to \in run'[q.from].todo /\ \A f \in run'[q.from].todo : q.to <= f
      OBVIOUS
    <3>2. q = r /\ q.from # d BY <2>1, <3>1
    <3>3. run'[q.from] = run[q.from] BY <1>1, <2>2, <3>2 DEF Moves
    <3>4. QED BY <2>2, <3>1, <3>2, <3>3 DEF RequestRight
  <2>6. /\ serving'[q.to] /\ q.to # q.from /\ q.gen <= saved'[q.from].gen
        /\ peer'[q.from][q.to].status = "paired" => peer'[q.from][q.to].pin = keyGen'[q.to]
    BY <2>2 DEF RequestRight
  <2>7. QED BY <2>4, <2>5, <2>6 DEF RequestRight
<1>3. \A q, r \in requests' : ~(q.from = r.to /\ q.to = r.from)
  BY DEF RotationInv, RequestsRight, OnlyOthersWait, SameRequest
<1>4. \A q, r \in requests' : ~q.late /\ ~r.late /\ q.from = r.from => q = r
  BY DEF RotationInv, RequestsRight, OnlyOthersWait
<1>5. RequestsRight' BY <1>2, <1>3, <1>4 DEF RequestsRight
<1>6. requests' \subseteq RotationRequest BY DEF OnlyOthersWait
<1>7. QED BY <1>1, <1>5, <1>6, CommandSteps

LEMMA NoneWaits ==
  ASSUME RotationInv, NEW d \in Devices, run[d].pc \notin {"preparing", "committing"}, requests' = requests
  PROVE  OnlyOthersWait(d)
  BY RequestKnown DEF RequestRight, OnlyOthersWait, SameRequest

LEMMA AbandonQuiet ==
  ASSUME RotationInv, NEW d \in Devices, Abandon(d)
  PROVE  OnlyOthersWait(d)
<1>1. ASSUME NEW q \in requests' PROVE q \in RotationRequest /\ \E r \in requests : SameRequest(q, r) /\ (~q.late => q = r /\ q.from # d)
  <2>1. PICK r \in requests : q = [r EXCEPT !.late = r.late \/ r.from = d]
    BY DEF Abandon
  <2>2. r \in RotationRequest BY RequestKnown
  <2>3. (r.late \/ r.from = d) \in BOOLEAN
    OBVIOUS
  <2>4. /\ q \in RotationRequest /\ q.op = r.op /\ q.from = r.from /\ q.to = r.to /\ q.gen = r.gen
        /\ q.key = r.key /\ q.admitted = r.admitted /\ (q.late <=> (r.late \/ r.from = d))
    BY <2>1, <2>2, <2>3 DEF RotationRequest
  <2>5. ~q.late => q = r /\ q.from # d BY <2>2, <2>4 DEF RotationRequest
  <2>6. QED BY <2>4, <2>5 DEF SameRequest
<1>2. QED BY <1>1 DEF OnlyOthersWait

(* A request is sent.                                                      *)
LEMMA AskSteps ==
  ASSUME RotationInv, NEW d \in Devices, NEW op \in {"prepare", "commit"}, NEW key \in KeyGens,
         run[d].pc = op, Reaches(d, CurrentPeer(d), key), Ask(d, op, key),
         Move(d, IF op = "commit" THEN "committing" ELSE "preparing", run[d].todo),
         UNCHANGED <<keyGen, saved, serving, peer>>
  PROVE  RotationInv'
<1>1. /\ run[d].todo # {} /\ run[d].todo \subseteq saved[d].receivers /\ run[d].todo \subseteq Devices
      /\ saved[d].status = "prepared" /\ saved[d].receivers \subseteq Devices /\ ~serving[d]
      /\ run[d].pc = "commit" => \A e \in saved[d].receivers \ run[d].todo : Through(d, e)
      /\ d \notin saved[d].receivers /\ saved[d].gen \in KeyGens
  BY DeviceKnown DEF RunRight, SavedRight
<1>2. PICK e \in Devices : e = CurrentPeer(d) BY <1>1, CurrentLeast
<1>3. e \in run[d].todo /\ (\A f \in run[d].todo : e <= f) /\ e # d
  BY <1>1, <1>2, CurrentLeast
<1>4. serving[e] /\ (peer[d][e].status = "paired" => peer[d][e].pin = keyGen[e])
  BY <1>2 DEF Reaches, Meets
<1>5. PICK new : new = [op |-> op, from |-> d, to |-> e, key |-> key, gen |-> saved[d].gen,
                        late |-> FALSE, admitted |-> FALSE]
  OBVIOUS
<1>6. /\ requests' = requests \cup {new} /\ new.op = op /\ new.from = d /\ new.to = e /\ new.gen = saved[d].gen
      /\ ~new.late /\ new \in RotationRequest
  BY <1>1, <1>2, <1>5 DEF Ask, RotationRequest
<1>7. PICK todo \in SUBSET Devices : todo = run[d].todo BY <1>1
<1>8. PICK pc \in {"preparing", "committing"} : pc = IF op = "commit" THEN "committing" ELSE "preparing"
  OBVIOUS
<1>9. Moves(d, todo) /\ run'[d].pc = pc /\ run'[d].todo = todo
  BY <1>1, <1>7, <1>8, MoveTyped
<1>10. RunRight(d)'
  <2>1. \A x : Through(d, x)' <=> Through(d, x) BY StoresSame
  <2>2. QED BY <1>1, <1>7, <1>8, <1>9, <2>1 DEF RunRight
<1>11. ASSUME NEW q \in requests PROVE /\ RequestRight(q)' /\ q.to # d
                                       /\ q.late \/ q.from # d
  <2>1. RequestRight(q) /\ q.from \in Devices BY RequestKnown
  <2>2. q.to # d /\ (q.late \/ q.from # d) BY <1>1, <2>1 DEF RequestRight
  <2>3. \A f : Through(q.from, f)' <=> Through(q.from, f) BY StoresSame
  <2>4. q.op = "commit" /\ q.gen = saved'[q.from].gen => \A f \in saved'[q.from].receivers : f < q.to => Through(q.from, f)'
    BY <2>1, <2>3 DEF RequestRight
  <2>5. /\ serving'[q.to] /\ q.to # q.from /\ q.gen <= saved'[q.from].gen
        /\ peer'[q.from][q.to].status = "paired" => peer'[q.from][q.to].pin = keyGen'[q.to]
    BY <2>1 DEF RequestRight
  <2>6. ~q.late =>
          /\ run'[q.from].pc = IF q.op = "commit" THEN "committing" ELSE "preparing"
          /\ q.gen = saved'[q.from].gen
          /\ q.to \in run'[q.from].todo /\ \A f \in run'[q.from].todo : q.to <= f
    <3>1. ~q.late => run'[q.from] = run[q.from] BY <1>9, <2>1, <2>2 DEF Moves
    <3>2. QED BY <2>1, <3>1 DEF RequestRight
  <2>7. QED BY <2>2, <2>4, <2>5, <2>6 DEF RequestRight
<1>12. RequestRight(new)'
  <2>1. \A f : Through(d, f)' <=> Through(d, f) BY StoresSame
  <2>2. op = "commit" => \A f \in saved[d].receivers : f < e => Through(d, f)
    <3>1. ASSUME op = "commit", NEW f \in saved[d].receivers, f < e PROVE Through(d, f)
      <4>1. e \in Nat /\ f \in Nat BY <1>1, <3>1, DevicesAssumption
      <4>2. f \notin run[d].todo BY <1>3, <3>1, <4>1
      <4>3. QED BY <1>1, <3>1, <4>2
    <3>2. QED BY <3>1
  <2>3. new.op = "commit" /\ new.gen = saved'[new.from].gen => \A f \in saved'[new.from].receivers : f < new.to => Through(new.from, f)'
    BY <1>6, <2>1, <2>2
  <2>4. /\ serving'[new.to] /\ new.to # new.from
        /\ peer'[new.from][new.to].status = "paired" => peer'[new.from][new.to].pin = keyGen'[new.to]
    BY <1>3, <1>4, <1>6
  <2>5. new.gen <= saved'[new.from].gen BY <1>1, <1>6, MaxGenAssumption DEF KeyGens
  <2>6. /\ run'[new.from].pc = IF new.op = "commit" THEN "committing" ELSE "preparing"
        /\ new.gen = saved'[new.from].gen
        /\ new.to \in run'[new.from].todo /\ \A f \in run'[new.from].todo : new.to <= f
    BY <1>3, <1>6, <1>7, <1>8, <1>9
  <2>7. QED BY <2>3, <2>4, <2>5, <2>6 DEF RequestRight
<1>13. RequestsRight'
  <2>1. \A q \in requests' : RequestRight(q)' BY <1>6, <1>11, <1>12
  <2>2. \A q, r \in requests' : ~(q.from = r.to /\ q.to = r.from)
    BY <1>3, <1>6, <1>11 DEF RotationInv, RequestsRight
  <2>3. \A q, r \in requests' : ~q.late /\ ~r.late /\ q.from = r.from => q = r
    BY <1>6, <1>11 DEF RotationInv, RequestsRight
  <2>4. QED BY <2>1, <2>2, <2>3 DEF RequestsRight
<1>14. requests' \subseteq RotationRequest BY <1>6, RequestKnown
<1>15. QED BY <1>9, <1>10, <1>13, <1>14, CommandSteps

LEMMA SendSteps ==
  ASSUME RotationInv, NEW d \in Devices, SendPrepare(d) \/ SendCommit(d)
  PROVE  RotationInv'
<1>1. UNCHANGED <<keyGen, saved, serving, peer>> BY DEF SendPrepare, SendCommit
<1>2. keyGen[d] \in KeyGens /\ saved[d].gen \in KeyGens BY DeviceKnown
<1>3. CASE SendPrepare(d)
  <2>1. CASE Reaches(d, CurrentPeer(d), keyGen[d]) /\ Ask(d, "prepare", keyGen[d]) /\ Move(d, "preparing", run[d].todo)
    BY <1>1, <1>2, <1>3, <2>1, AskSteps DEF SendPrepare
  <2>2. CASE UNCHANGED requests /\ Move(d, "ask", run[d].todo)
    BY <1>1, <1>3, <2>2, AskRight, NoneWaits, QuietSteps DEF SendPrepare
  <2>3. QED BY <1>3, <2>1, <2>2 DEF SendPrepare
<1>4. CASE SendCommit(d)
  <2>1. CASE /\ Reaches(d, CurrentPeer(d), saved[d].gen)
             /\ Ask(d, "commit", saved[d].gen) /\ Move(d, "committing", run[d].todo)
    BY <1>1, <1>2, <1>4, <2>1, AskSteps DEF SendCommit
  <2>2. CASE UNCHANGED requests /\ Stop(d)
    BY <1>1, <1>4, <2>2, StopRight, NoneWaits, QuietSteps DEF SendCommit
  <2>3. QED BY <1>4, <2>1, <2>2 DEF SendCommit
<1>5. QED BY <1>3, <1>4

LEMMA CommandGoesOn ==
  ASSUME RotationInv, NEW d \in Devices, AskStatus(d) \/ GivesUp(d) \/ RotationCrash(d)
  PROVE  RotationInv'
<1>1. UNCHANGED <<keyGen, saved, serving, peer>>
  BY DEF AskStatus, GivesUp, RotationCrash
<1>2. CASE AskStatus(d)
  <2>1. OnlyOthersWait(d) BY <1>2, NoneWaits DEF AskStatus
  <2>2. CASE PeerDone(d)
    <3>1. \A e \in saved[d].receivers : Through(d, e) => Through(d, e)'
      BY <1>1, StoresSame
    <3>2. RunRight(d)' /\ \E todo : Moves(d, todo)
      BY <1>1, <1>2, <2>2, <3>1, PeerDoneRight DEF AskStatus
    <3>3. QED BY <1>1, <2>1, <3>2, QuietSteps
  <2>3. CASE Stop(d) BY <1>1, <2>1, <2>3, StopRight, QuietSteps
  <2>4. QED BY <1>2, <2>2, <2>3 DEF AskStatus
<1>3. CASE GivesUp(d) BY <1>1, <1>3, FailedRight, AbandonQuiet, QuietSteps DEF GivesUp
<1>4. CASE RotationCrash(d)
  BY <1>1, <1>4, StopRight, AbandonQuiet, QuietSteps DEF RotationCrash
<1>5. QED BY <1>2, <1>3, <1>4

(* A step of one device that touches no store and no receiver.             *)
LEMMA OthersSame ==
  ASSUME RotationInv, NEW d \in Devices, peer' = peer, serving' = serving,
         \A x \in Devices \ {d} : saved'[x] = saved[x] /\ keyGen'[x] = keyGen[x] /\ run'[x] = run[x]
  PROVE  /\ \A x \in Devices \ {d} : SavedRight(x)' /\ FollowRight(x)' /\ InOrder(x)' /\ RunRight(x)'
         /\ \A e, x \in Devices : ViewRight(peer[e][x])'
         /\ \A x \in Devices \ {d} : \A f : Through(x, f)' <=> Through(x, f)
<1>1. ASSUME NEW x \in Devices \ {d}
      PROVE  SavedRight(x)' /\ FollowRight(x)' /\ InOrder(x)' /\ RunRight(x)' /\ \A f : Through(x, f)' <=> Through(x, f)
  <2>1. saved'[x] = saved[x] /\ keyGen'[x] = keyGen[x] /\ run'[x] = run[x]
    OBVIOUS
  <2>2. SavedRight(x)' BY <2>1 DEF RotationInv, SavedRight
  <2>3. FollowRight(x)'
    <3>1. Followers(x)' = Followers(x) /\ Held(x)' = Held(x) BY <2>1 DEF Followers, Held
    <3>2. FollowRight(x) BY DEF RotationInv
    <3>3. QED BY <3>1, <3>2 DEF FollowRight
  <2>4. \A f : Through(x, f)' <=> Through(x, f) BY <2>1 DEF Through
  <2>5. InOrder(x)' BY <2>1, <2>4 DEF RotationInv, InOrder
  <2>6. RunRight(x)' BY <2>1, <2>4 DEF RotationInv, RunRight
  <2>7. QED BY <2>2, <2>3, <2>4, <2>5, <2>6
<1>2. \A e, x \in Devices : ViewRight(peer[e][x])' BY DEF RotationInv
<1>3. QED BY <1>1, <1>2

LEMMA RotationTyped ==
  ASSUME RotationInv, NEW d \in Devices, \E todo : Moves(d, todo), keyGen' \in [Devices -> KeyGens], saved' \in [Devices -> SavedRotation],
         serving' \in [Devices -> BOOLEAN], peer' \in [Devices -> [Devices -> Peer]], requests' \subseteq RotationRequest
  PROVE  RotationTypeOK'
<1>1. run' \in [Devices -> Run] BY DEF Moves
<1>2. \A x \in Devices : run'[x].pc \notin {"idle", "activate"} => run'[x].todo # {}
  BY DEF Moves, RotationInv, RotationTypeOK
<1>3. QED BY <1>1, <1>2 DEF RotationTypeOK

LEMMA ActivateKeySteps ==
  ASSUME RotationInv, NEW d \in Devices, ActivateKey(d)
  PROVE  RotationInv'
<1>1. /\ run[d].pc = "activate" /\ serving' = serving /\ peer' = peer /\ requests' = requests
      /\ keyGen' = [keyGen EXCEPT ![d] = saved[d].gen] /\ saved' = [saved EXCEPT ![d].status = "active"]
      /\ Stop(d)
  BY DEF ActivateKey
<1>2. /\ saved[d] \in SavedRotation /\ saved[d].gen \in KeyGens /\ saved[d].status = "prepared" /\ ~serving[d] /\ SavedRight(d)
      /\ \A e \in saved[d].receivers : Through(d, e)
  BY <1>1, DeviceKnown DEF RunRight
<1>3. RunRight(d)' /\ \E todo : Moves(d, todo) BY <1>1, StopRight
<1>4. keyGen \in [Devices -> KeyGens] /\ saved \in [Devices -> SavedRotation]
  BY DEF RotationInv, RotationTypeOK
<1>5. PICK s \in SavedRotation : s = [saved[d] EXCEPT !.status = "active"]
  BY <1>2 DEF SavedRotation
<1>6. s.status = "active" /\ s.gen = saved[d].gen /\ s.receivers = saved[d].receivers
  BY <1>2, <1>5 DEF SavedRotation
<1>7. /\ keyGen' \in [Devices -> KeyGens] /\ saved' \in [Devices -> SavedRotation]
      /\ saved'[d] = s /\ keyGen'[d] = saved[d].gen
      /\ \A x \in Devices \ {d} : saved'[x] = saved[x] /\ keyGen'[x] = keyGen[x]
  BY <1>1, <1>2, <1>4, <1>5
<1>8. \A x \in Devices \ {d} : run'[x] = run[x] BY <1>3 DEF Moves
<1>9. RotationTypeOK'
  <2>1. serving' \in [Devices -> BOOLEAN] /\ peer' \in [Devices -> [Devices -> Peer]] /\ requests' \subseteq RotationRequest
    BY <1>1 DEF RotationInv, RotationTypeOK
  <2>2. QED BY <1>3, <1>7, <2>1, RotationTyped
<1>10. SavedRight(d)' BY <1>1, <1>2, <1>6, <1>7 DEF SavedRight
<1>11. FollowRight(d)'
  <2>1. ASSUME NEW e \in Followers(d)' PROVE peer'[e][d].pin \in Held(d)'
    <3>1. e \in saved[d].receivers /\ peer[e][d].status = "paired"
      BY <1>1, <1>6, <1>7, <2>1 DEF Followers
    <3>2. peer[e][d].pin = saved[d].gen BY <1>2, <3>1 DEF Through
    <3>3. QED BY <1>1, <1>7, <3>2 DEF Held
  <2>2. QED BY <2>1 DEF FollowRight
<1>12. InOrder(d)' BY <1>6, <1>7 DEF InOrder
<1>13. \A x, f \in Devices : Through(x, f)' <=> Through(x, f)
  BY <1>1, <1>6, <1>7 DEF Through
<1>14. Uncrossed'
  <2>1. \A x \in Devices : saved'[x].status = "prepared" => saved'[x] = saved[x]
    BY <1>6, <1>7
  <2>2. QED BY <1>1, <2>1 DEF RotationInv, Uncrossed, Both
<1>15. RequestsRight'
  <2>1. ASSUME NEW q \in requests PROVE RequestRight(q)'
    <3>1. /\ RequestRight(q) /\ q.from \in Devices /\ q.to \in Devices BY RequestKnown
    <3>2. q.to # d /\ (q.late \/ q.from # d) BY <1>1, <1>2, <3>1 DEF RequestRight
    <3>3. saved'[q.from].gen = saved[q.from].gen /\ saved'[q.from].receivers = saved[q.from].receivers /\ keyGen'[q.to] = keyGen[q.to]
      BY <1>6, <1>7, <3>1, <3>2
    <3>4. \A f \in saved[q.from].receivers : Through(q.from, f)' <=> Through(q.from, f)
      BY <1>13, <3>1, DeviceKnown
    <3>5. ~q.late => run'[q.from] = run[q.from] BY <1>8, <3>1, <3>2
    <3>6. /\ serving'[q.to] /\ q.to # q.from /\ q.gen <= saved'[q.from].gen
          /\ peer'[q.from][q.to].status = "paired" => peer'[q.from][q.to].pin = keyGen'[q.to]
      BY <1>1, <3>1, <3>3 DEF RequestRight
    <3>7. q.op = "commit" /\ q.gen = saved'[q.from].gen => \A f \in saved'[q.from].receivers : f < q.to => Through(q.from, f)'
      BY <3>1, <3>3, <3>4 DEF RequestRight
    <3>8. ~q.late =>
          /\ run'[q.from].pc = IF q.op = "commit" THEN "committing" ELSE "preparing"
          /\ q.gen = saved'[q.from].gen
          /\ q.to \in run'[q.from].todo /\ \A f \in run'[q.from].todo : q.to <= f
      BY <3>1, <3>3, <3>5 DEF RequestRight
    <3>9. QED BY <3>6, <3>7, <3>8 DEF RequestRight
  <2>2. QED BY <1>1, <2>1 DEF RotationInv, RequestsRight
<1>16. QED
  BY <1>1, <1>3, <1>7, <1>8, <1>9, <1>10, <1>11, <1>12, <1>14, <1>15, OthersSame DEF RotationInv

LEMMA RotateSteps ==
  ASSUME RotationInv, NEW d \in Devices, Rotate(d)
  PROVE  RotationInv'
<1>1. /\ run[d].pc = "idle" /\ ~serving[d] /\ Move(d, "prepare", saved'[d].receivers)
      /\ UNCHANGED <<keyGen, serving, peer, requests>>
  BY DEF Rotate, Locked
<1>2. \A q \in requests : /\ RequestRight(q) /\ q.from \in Devices /\ q.to \in Devices
                          /\ q.to # d /\ (q.late \/ q.from # d)
  BY <1>1, RequestKnown DEF RequestRight
<1>3. CASE saved[d].status = "prepared" /\ UNCHANGED saved
  <2>1. /\ saved[d].receivers # {} /\ saved[d].receivers \subseteq Devices
    BY <1>3, DeviceKnown DEF SavedRight
  <2>2. PICK todo \in SUBSET Devices : todo = saved[d].receivers BY <2>1
  <2>3. Move(d, "prepare", todo) BY <1>1, <1>3, <2>2
  <2>4. Moves(d, todo) /\ run'[d].pc = "prepare" /\ run'[d].todo = todo
    BY <2>1, <2>2, <2>3, MoveTyped
  <2>5. RunRight(d)' BY <1>1, <1>3, <2>2, <2>4 DEF RunRight
  <2>6. QED BY <1>1, <1>3, <2>4, <2>5, NoneWaits, QuietSteps
<1>4. CASE /\ saved[d].status # "prepared" /\ keyGen[d] < MaxGen /\ PairedWith(d) # {}
           /\ saved' = [saved EXCEPT ![d] = [gen |-> keyGen[d] + 1, status |-> "prepared", receivers |-> PairedWith(d)]]
  <2>1. /\ keyGen[d] \in KeyGens /\ saved[d].gen \in KeyGens /\ SavedRight(d) /\ FollowRight(d)
        /\ saved[d].status \in {"none", "active"} /\ keyGen[d] = saved[d].gen
    BY <1>4, DeviceKnown DEF SavedRight
  <2>2. PICK all \in SUBSET Devices : all = PairedWith(d) BY DEF PairedWith
  <2>3. keyGen[d] + 1 \in KeyGens BY <1>4, <2>1, MaxGenAssumption DEF KeyGens
  <2>4. PICK s \in SavedRotation : s = [gen |-> keyGen[d] + 1, status |-> "prepared", receivers |-> all]
    BY <2>3 DEF SavedRotation
  <2>5. s.gen = keyGen[d] + 1 /\ s.status = "prepared" /\ s.receivers = all BY <2>4
  <2>6. saved \in [Devices -> SavedRotation] BY DEF RotationInv, RotationTypeOK
  <2>7. saved' \in [Devices -> SavedRotation] /\ saved'[d] = s /\ \A x \in Devices \ {d} : saved'[x] = saved[x]
    BY <1>4, <2>2, <2>4, <2>6
  <2>8. Moves(d, all) /\ run'[d].pc = "prepare" /\ run'[d].todo = all
    <3>1. Move(d, "prepare", all) BY <1>1, <2>5, <2>7
    <3>2. QED BY <1>4, <2>2, <3>1, MoveTyped
  <2>9. RunRight(d)' BY <1>1, <2>5, <2>7, <2>8 DEF RunRight
  <2>10. RotationTypeOK'
    <3>1. /\ serving' \in [Devices -> BOOLEAN] /\ peer' \in [Devices -> [Devices -> Peer]] /\ requests' \subseteq RotationRequest
          /\ keyGen' \in [Devices -> KeyGens]
      BY <1>1 DEF RotationInv, RotationTypeOK
    <3>2. QED BY <2>7, <2>8, <3>1, RotationTyped
  <2>11. SavedRight(d)' BY <1>1, <1>4, <2>2, <2>5, <2>7 DEF SavedRight, PairedWith
  <2>12. \A e \in all : peer[e][d].status = "paired" => peer[e][d].pin = keyGen[d]
    <3>1. ASSUME NEW e \in all, peer[e][d].status = "paired" PROVE peer[e][d].pin = keyGen[d]
      <4>1. e \in Devices \ {d} /\ peer[d][e].status = "paired" BY <2>2 DEF PairedWith
      <4>2. e \in Followers(d) BY <2>1, <3>1, <4>1 DEF Followers, SavedRight
      <4>3. QED BY <2>1, <4>2 DEF FollowRight, Held
    <3>2. QED BY <3>1
  <2>13. FollowRight(d)' BY <1>1, <2>5, <2>7, <2>12 DEF FollowRight, Followers, Held
  <2>14. keyGen[d] # s.gen BY <2>1, <2>5 DEF KeyGens
  <2>15. InOrder(d)' BY <1>1, <2>5, <2>7, <2>12, <2>14 DEF InOrder
  <2>16. Uncrossed'
    <3>1. ASSUME NEW x \in Devices, NEW y \in Devices, x # y, Both(x, y)', saved'[x].status = "prepared", saved'[y].status = "prepared",
                 peer'[y][x].pin = saved'[x].gen, peer'[x][y].pin = saved'[y].gen
          PROVE  FALSE
      <4>1. \A e \in Devices \ {d} : Both(d, e)' => peer[e][d].pin # s.gen
        BY <1>1, <2>2, <2>12, <2>14 DEF Both, PairedWith
      <4>2. Both(x, y)' <=> Both(y, x)' BY DEF Both
      <4>3. CASE x = d BY <1>1, <2>7, <3>1, <4>1, <4>3
      <4>4. CASE y = d BY <1>1, <2>7, <3>1, <4>1, <4>2, <4>4
      <4>5. CASE x # d /\ y # d
        BY <1>1, <2>7, <3>1, <4>5 DEF RotationInv, Uncrossed, Both
      <4>6. QED BY <4>3, <4>4, <4>5
    <3>2. QED BY <3>1 DEF Uncrossed
  <2>17. RequestsRight'
    <3>1. ASSUME NEW q \in requests PROVE RequestRight(q)'
      <4>1. CASE q.from = d
        <5>1. q.late /\ q.gen <= saved[d].gen /\ q.gen \in KeyGens
          BY <1>2, <4>1, RequestKnown DEF RequestRight
        <5>2. q.gen <= s.gen /\ q.gen # s.gen BY <2>1, <2>5, <5>1 DEF KeyGens
        <5>3. QED BY <1>1, <1>2, <2>7, <4>1, <5>1, <5>2 DEF RequestRight
      <4>2. CASE q.from # d
        <5>1. saved'[q.from] = saved[q.from] /\ run'[q.from] = run[q.from]
          BY <1>2, <2>7, <2>8, <4>2 DEF Moves
        <5>2. \A f : Through(q.from, f)' <=> Through(q.from, f)
          BY <1>1, <5>1 DEF Through
        <5>3. QED BY <1>1, <1>2, <5>1, <5>2 DEF RequestRight
      <4>3. QED BY <4>1, <4>2
    <3>2. QED BY <1>1, <3>1 DEF RotationInv, RequestsRight
  <2>18. /\ peer' = peer /\ serving' = serving
         /\ \A x \in Devices \ {d} : saved'[x] = saved[x] /\ keyGen'[x] = keyGen[x] /\ run'[x] = run[x]
    BY <1>1, <2>7, <2>8 DEF Moves
  <2>19. QED
    BY <2>9, <2>10, <2>11, <2>13, <2>15, <2>16, <2>17, <2>18, OthersSame DEF RotationInv
<1>5. QED BY <1>3, <1>4 DEF Rotate

(* A receiver starts and stops, and its requests go with it.               *)
LEMMA ServeSteps ==
  ASSUME RotationInv, NEW e \in Devices, Serve(e) \/ StopServing(e)
  PROVE  RotationInv'
<1>1. /\ UNCHANGED <<keyGen, saved, run, peer>>
      /\ run[e].pc = "idle" \/ ~serving'[e]
      /\ serving' \in [Devices -> BOOLEAN] /\ \A x \in Devices \ {e} : serving'[x] = serving[x]
      /\ requests' \subseteq requests /\ \A q \in requests' : q.to # e \/ serving'[e]
  <2>1. serving \in [Devices -> BOOLEAN] BY DEF RotationInv, RotationTypeOK
  <2>2. QED BY <2>1 DEF Serve, StopServing
<1>2. RotationTypeOK' BY <1>1 DEF RotationInv, RotationTypeOK
<1>3. ASSUME NEW d \in Devices PROVE RunRight(d)'
  <2>1. \A f : Through(d, f)' <=> Through(d, f) BY <1>1, StoresSame
  <2>2. run'[d] = run[d] /\ saved'[d] = saved[d] /\ RunRight(d) /\ serving[d] \in BOOLEAN
    BY <1>1, DeviceKnown
  <2>3. run[d].pc # "idle" => ~serving'[d] BY <1>1, <2>2 DEF RunRight
  <2>4. QED BY <2>1, <2>2, <2>3 DEF RunRight
<1>4. ASSUME NEW q \in requests' PROVE RequestRight(q)'
  <2>1. RequestRight(q) /\ q.to \in Devices /\ q \in requests BY <1>1, RequestKnown
  <2>2. serving'[q.to] BY <1>1, <2>1 DEF RequestRight
  <2>3. \A f : Through(q.from, f)' <=> Through(q.from, f) BY <1>1, StoresSame
  <2>4. QED BY <1>1, <2>1, <2>2, <2>3 DEF RequestRight
<1>5. RequestsRight' BY <1>1, <1>4 DEF RotationInv, RequestsRight
<1>6. QED BY <1>1, <1>2, <1>3, <1>5, StoresSame DEF RotationInv

(* A store changes what it has about one device.                           *)
Advances(e, d, w) ==
  /\ w.pin = peer[e][d].pin + 1 /\ w.pin <= saved[d].gen /\ d # e
  /\ peer[d][e].status = "paired" => peer[d][e].pin = keyGen[e]
  /\ w.pin = saved[d].gen => \A f \in saved[d].receivers : f < e => Through(d, f)
ViewWritten(e, d, w) ==
  /\ w \in Peer /\ peer' = [peer EXCEPT ![e][d] = w]
  /\ ViewRight(w)
  /\ w.status = "paired" => peer[e][d].status = "paired" /\ (w.pin = peer[e][d].pin \/ Advances(e, d, w))
LEMMA AdvanceKnown ==
  ASSUME RotationInv, NEW e \in Devices, NEW d \in Devices, NEW w \in Peer, Advances(e, d, w), e \in Followers(d)
  PROVE  saved[d].status = "prepared" /\ peer[e][d].pin = keyGen[d] /\ w.pin = saved[d].gen
<1>1. /\ peer[e][d].pin \in Held(d) /\ SavedRight(d) /\ keyGen[d] \in KeyGens /\ saved[d].gen \in KeyGens
      /\ saved[d].status \in {"none", "prepared", "active"} /\ peer[e][d].pin \in KeyGens
  BY DeviceKnown, ViewKnown DEF FollowRight
<1>2. w.pin = peer[e][d].pin + 1 /\ w.pin <= saved[d].gen BY DEF Advances
<1>3. CASE saved[d].status = "prepared"
  <2>1. saved[d].gen = keyGen[d] + 1 /\ (peer[e][d].pin = keyGen[d] \/ peer[e][d].pin = saved[d].gen)
    BY <1>1, <1>3 DEF SavedRight, Held
  <2>2. peer[e][d].pin = keyGen[d] BY <1>1, <1>2, <2>1 DEF KeyGens
  <2>3. QED BY <1>2, <1>3, <2>1, <2>2
<1>4. CASE saved[d].status # "prepared"
  <2>1. saved[d].gen = keyGen[d] /\ peer[e][d].pin = keyGen[d]
    BY <1>1, <1>4 DEF SavedRight, Held
  <2>2. QED BY <1>1, <1>2, <2>1 DEF KeyGens
<1>5. QED BY <1>3, <1>4

LEMMA ViewSteps ==
  ASSUME RotationInv, NEW e \in Devices, NEW d \in Devices, NEW w, ViewWritten(e, d, w), UNCHANGED <<keyGen, saved>>
  PROVE  /\ peer' \in [Devices -> [Devices -> Peer]]
         /\ peer'[e][d] = w /\ \A x, y \in Devices : ~(x = e /\ y = d) => peer'[x][y] = peer[x][y]
         /\ \A x \in Devices : SavedRight(x)' /\ FollowRight(x)' /\ InOrder(x)'
         /\ \A x, y \in Devices : ViewRight(peer[x][y])'
         /\ Uncrossed'
         /\ \A x \in Devices : \A f \in saved[x].receivers : Through(x, f) => Through(x, f)'
<1>1. keyGen' = keyGen /\ saved' = saved
  OBVIOUS
<1>2. /\ w \in Peer /\ peer' = [peer EXCEPT ![e][d] = w] /\ ViewRight(w)
      /\ w.status = "paired" => peer[e][d].status = "paired" /\ (w.pin = peer[e][d].pin \/ Advances(e, d, w))
  BY DEF ViewWritten
<1>3. peer \in [Devices -> [Devices -> Peer]] BY DEF RotationInv, RotationTypeOK
<1>4. /\ peer' \in [Devices -> [Devices -> Peer]] /\ peer'[e][d] = w
      /\ \A x, y \in Devices : ~(x = e /\ y = d) => peer'[x][y] = peer[x][y]
  BY <1>2, <1>3
<1>5. \A x, y \in Devices : ViewRight(peer[x][y])'
  <2>1. \A x, y \in Devices : ViewRight(peer[x][y]) BY ViewKnown
  <2>2. ASSUME NEW x \in Devices, NEW y \in Devices PROVE ViewRight(peer'[x][y])
    <3>1. CASE x = e /\ y = d BY <1>2, <1>4, <3>1
    <3>2. CASE ~(x = e /\ y = d) BY <1>4, <2>1, <3>2
    <3>3. QED BY <3>1, <3>2
  <2>3. QED BY <2>2
<1>6. \A x, y \in Devices : peer'[x][y].status = "paired" => peer[x][y].status = "paired"
  BY <1>2, <1>4
<1>7. \A x \in Devices : SavedRight(x)'
  <2>1. ASSUME NEW x \in Devices PROVE SavedRight(x)'
    BY <1>1, <1>6, DeviceKnown DEF SavedRight
  <2>2. QED BY <2>1
<1>8. ASSUME NEW x \in Devices, NEW f \in saved[x].receivers, Through(x, f) PROVE Through(x, f)'
  <2>1. f \in Devices /\ f # x /\ saved[x].status # "none" /\ saved[x].gen \in KeyGens
    BY DeviceKnown DEF SavedRight
  <2>2. CASE f = e /\ x = d
    <3>1. SUFFICES ASSUME w.status = "paired" PROVE w.pin = saved[d].gen
      BY <1>1, <1>4, <2>2 DEF Through
    <3>2. peer[e][d].status = "paired" /\ peer[e][d].pin = saved[d].gen
      BY <1>2, <1>8, <2>2, <3>1 DEF Through
    <3>3. e \in Followers(d) BY <2>1, <2>2, <3>2 DEF Followers
    <3>4. ~Advances(e, d, w)
      <4>1. ASSUME Advances(e, d, w) PROVE FALSE
        <5>1. saved[d].status = "prepared" /\ peer[e][d].pin = keyGen[d]
          BY <1>2, <3>3, <4>1, AdvanceKnown
        <5>2. saved[d].gen = keyGen[d] + 1 /\ keyGen[d] \in KeyGens
          BY <5>1, DeviceKnown DEF SavedRight
        <5>3. keyGen[d] # keyGen[d] + 1 BY <5>2 DEF KeyGens
        <5>4. QED BY <3>2, <5>1, <5>2, <5>3
      <4>2. QED BY <4>1
    <3>5. QED BY <1>2, <3>1, <3>2, <3>4
  <2>3. CASE ~(f = e /\ x = d) BY <1>1, <1>4, <1>8, <2>1, <2>3 DEF Through
  <2>4. QED BY <2>2, <2>3
<1>9. ASSUME NEW x \in Devices PROVE FollowRight(x)'
  <2>1. ASSUME NEW f \in Followers(x)' PROVE peer'[f][x].pin \in Held(x)'
    <3>1. f \in Devices /\ f \in Followers(x) BY <1>1, <1>6, <2>1 DEF Followers
    <3>2. peer[f][x].pin \in Held(x) /\ Held(x)' = Held(x) /\ peer'[f][x].status = "paired"
      BY <1>1, <2>1, <3>1, DeviceKnown DEF FollowRight, Held, Followers
    <3>3. CASE f = e /\ x = d
      <4>1. CASE Advances(e, d, w)
        <5>1. saved[d].status = "prepared" /\ w.pin = saved[d].gen
          BY <1>2, <3>1, <3>3, <4>1, AdvanceKnown
        <5>2. QED BY <1>1, <1>4, <3>3, <5>1 DEF Held
      <4>2. CASE ~Advances(e, d, w) BY <1>2, <1>4, <3>2, <3>3, <4>2
      <4>3. QED BY <4>1, <4>2
    <3>4. CASE ~(f = e /\ x = d) BY <1>4, <3>1, <3>2, <3>4
    <3>5. QED BY <3>3, <3>4
  <2>2. QED BY <2>1 DEF FollowRight
<1>10. ASSUME NEW x \in Devices PROVE InOrder(x)'
  <2>1. SUFFICES ASSUME saved[x].status = "prepared", NEW f \in saved[x].receivers, peer'[f][x].status = "paired",
                        peer'[f][x].pin = saved[x].gen, NEW g \in saved[x].receivers, g < f
                 PROVE  Through(x, g)'
    BY <1>1 DEF InOrder
  <2>2. f \in Devices /\ InOrder(x) BY <2>1, DeviceKnown
  <2>3. CASE peer[f][x].pin = saved[x].gen BY <1>6, <1>8, <2>1, <2>2, <2>3 DEF InOrder
  <2>4. CASE peer[f][x].pin # saved[x].gen
    <3>1. f = e /\ x = d BY <1>4, <2>1, <2>2, <2>4
    <3>2. Advances(e, d, w) /\ w.pin = saved[d].gen BY <1>2, <1>4, <2>1, <2>4, <3>1
    <3>3. Through(d, g) BY <2>1, <3>1, <3>2 DEF Advances
    <3>4. QED BY <1>8, <2>1, <3>1, <3>3
  <2>5. QED BY <2>3, <2>4
<1>11. Uncrossed'
  <2>1. SUFFICES ASSUME NEW x \in Devices, NEW y \in Devices, x # y, peer'[x][y].status = "paired", peer'[y][x].status = "paired",
                        saved[x].status = "prepared", saved[y].status = "prepared",
                        peer'[y][x].pin = saved[x].gen, peer'[x][y].pin = saved[y].gen
                 PROVE  FALSE
    BY <1>1 DEF Uncrossed, Both
  <2>2. Both(x, y) BY <1>6, <2>1 DEF Both
  <2>3. ~(peer[y][x].pin = saved[x].gen /\ peer[x][y].pin = saved[y].gen)
    BY <2>1, <2>2 DEF RotationInv, Uncrossed
  <2>4. \A z \in Devices : saved[z].status = "prepared" => saved[z].gen # keyGen[z]
    <3>1. ASSUME NEW z \in Devices, saved[z].status = "prepared" PROVE saved[z].gen # keyGen[z]
      <4>1. saved[z].gen = keyGen[z] + 1 /\ keyGen[z] \in KeyGens
        BY <3>1, DeviceKnown DEF SavedRight
      <4>2. QED BY <4>1 DEF KeyGens
    <3>2. QED BY <3>1
  <2>5. CASE peer[y][x].pin # saved[x].gen
    <3>1. y = e /\ x = d BY <1>4, <2>1, <2>5
    <3>2. Advances(e, d, w) /\ peer'[x][y] = peer[x][y] BY <1>2, <1>4, <2>1, <2>5, <3>1
    <3>3. peer[d][e].pin = keyGen[e] BY <2>1, <3>1, <3>2 DEF Advances
    <3>4. QED BY <2>1, <2>4, <3>1, <3>2, <3>3
  <2>6. CASE peer[x][y].pin # saved[y].gen
    <3>1. x = e /\ y = d BY <1>4, <2>1, <2>6
    <3>2. Advances(e, d, w) /\ peer'[y][x] = peer[y][x] BY <1>2, <1>4, <2>1, <2>6, <3>1
    <3>3. peer[d][e].pin = keyGen[e] BY <2>1, <3>1, <3>2 DEF Advances
    <3>4. QED BY <2>1, <2>4, <3>1, <3>2, <3>3
  <2>7. QED BY <2>3, <2>5, <2>6
<1>12. QED BY <1>4, <1>5, <1>7, <1>8, <1>9, <1>10, <1>11

(* Two writes that keep the pin.                                           *)
LEMMA PinKept ==
  ASSUME RotationInv, NEW e \in Devices, NEW d \in Devices, NEW w, ViewWritten(e, d, w), w.pin = peer[e][d].pin,
         UNCHANGED <<keyGen, saved, run, serving>>, requests' \subseteq RotationRequest,
         \A q \in requests' : \E r \in requests : SameRequest(q, r) /\ (~q.late <=> ~r.late),
         \A q, r \in requests' : ~q.late /\ ~r.late /\ q.from = r.from => q = r
  PROVE  RotationInv'
<1>1. keyGen' = keyGen /\ saved' = saved /\ run' = run /\ serving' = serving
  OBVIOUS
<1>2. /\ peer' \in [Devices -> [Devices -> Peer]]
      /\ peer'[e][d] = w /\ \A x, y \in Devices : ~(x = e /\ y = d) => peer'[x][y] = peer[x][y]
      /\ \A x \in Devices : \A f \in saved[x].receivers : Through(x, f) => Through(x, f)'
  BY ViewSteps
<1>3. RotationTypeOK' BY <1>1, <1>2 DEF RotationInv, RotationTypeOK
<1>4. ASSUME NEW x \in Devices PROVE RunRight(x)'
  BY <1>1, <1>2, DeviceKnown DEF RunRight
<1>5. \A x, y \in Devices : peer'[x][y].pin = peer[x][y].pin /\ (peer'[x][y].status = "paired" => peer[x][y].status = "paired")
  BY <1>2 DEF ViewWritten
<1>6. ASSUME NEW q \in requests' PROVE RequestRight(q)'
  <2>1. PICK r \in requests : SameRequest(q, r) /\ (~q.late <=> ~r.late)
    OBVIOUS
  <2>2. RequestRight(r) /\ r.from \in Devices /\ r.to \in Devices /\ q.from = r.from /\ q.to = r.to /\ q.gen = r.gen /\ q.op = r.op
    BY <2>1, RequestKnown DEF SameRequest
  <2>3. \A f \in saved[q.from].receivers : Through(q.from, f) => Through(q.from, f)'
    BY <1>2, <2>2
  <2>4. q.op = "commit" /\ q.gen = saved'[q.from].gen => \A f \in saved'[q.from].receivers : f < q.to => Through(q.from, f)'
    BY <1>1, <2>2, <2>3 DEF RequestRight
  <2>5. /\ serving'[q.to] /\ q.to # q.from /\ q.gen <= saved'[q.from].gen
        /\ peer'[q.from][q.to].status = "paired" => peer'[q.from][q.to].pin = keyGen'[q.to]
    BY <1>1, <1>5, <2>2 DEF RequestRight
  <2>6. ~q.late =>
          /\ run'[q.from].pc = IF q.op = "commit" THEN "committing" ELSE "preparing"
          /\ q.gen = saved'[q.from].gen
          /\ q.to \in run'[q.from].todo /\ \A f \in run'[q.from].todo : q.to <= f
    BY <1>1, <2>1, <2>2 DEF RequestRight
  <2>7. QED BY <2>4, <2>5, <2>6 DEF RequestRight
<1>7. RequestsRight'
  <2>1. \A q, r \in requests' : ~(q.from = r.to /\ q.to = r.from)
    BY DEF RotationInv, RequestsRight, SameRequest
  <2>2. QED BY <1>6, <2>1 DEF RequestsRight
<1>8. /\ \A x \in Devices : SavedRight(x)' /\ FollowRight(x)' /\ InOrder(x)'
      /\ \A x, y \in Devices : ViewRight(peer[x][y])'
      /\ Uncrossed'
  BY ViewSteps
<1>9. QED BY <1>3, <1>4, <1>7, <1>8 DEF RotationInv

LEMMA WindowSteps ==
  ASSUME RotationInv, NEW e \in Devices, NEW d \in Devices, NEW k \in KeyGens, WindowEnds(e, d, k)
  PROVE  RotationInv'
<1>1. /\ peer[e][d].keys[k] = "retired" /\ peer' = [peer EXCEPT ![e][d].keys[k] = "dead"]
      /\ keyGen' = keyGen /\ saved' = saved /\ run' = run /\ serving' = serving /\ requests' = requests
  BY DEF WindowEnds
<1>2. PICK v \in Peer : v = peer[e][d] /\ ViewRight(v) BY ViewKnown
<1>3. PICK w : w = [v EXCEPT !.keys[k] = "dead"]
  OBVIOUS
<1>4. /\ w \in Peer /\ w.status = v.status /\ w.pin = v.pin /\ w.ops = v.ops
      /\ \A g \in KeyGens : w.keys[g] = IF g = k THEN "dead" ELSE v.keys[g]
  BY <1>2, <1>3 DEF Peer, KeyStates
<1>5. ViewRight(w) BY <1>1, <1>2, <1>4 DEF ViewRight
<1>6. peer' = [peer EXCEPT ![e][d] = w] BY <1>1, <1>2, <1>3
<1>7. ViewWritten(e, d, w) /\ w.pin = peer[e][d].pin
  BY <1>2, <1>4, <1>5, <1>6 DEF ViewWritten
<1>8. /\ requests' \subseteq RotationRequest
      /\ \A q \in requests' : \E r \in requests : SameRequest(q, r) /\ (~q.late <=> ~r.late)
      /\ \A q, r \in requests' : ~q.late /\ ~r.late /\ q.from = r.from => q = r
  BY <1>1 DEF RotationInv, RotationTypeOK, RequestsRight, SameRequest
<1>9. QED BY <1>1, <1>7, <1>8, PinKept

LEMMA RevokeDeviceSteps ==
  ASSUME RotationInv, NEW e \in Devices, NEW d \in Devices, RevokeDevice(e, d)
  PROVE  RotationInv'
<1>1. PICK v \in Peer : v = peer[e][d] /\ ViewRight(v) BY ViewKnown
<1>2. PICK early \in SUBSET {q \in requests : q.to = e /\ q.from = d /\ MayRotate(v, q.key)} :
          requests' = (requests \ early) \cup {[q EXCEPT !.admitted = TRUE] : q \in early}
  BY <1>1 DEF RevokeDevice
<1>3. /\ v.status = "paired" /\ keyGen' = keyGen /\ saved' = saved /\ run' = run /\ serving' = serving
      /\ peer' = [peer EXCEPT ![e][d].status = "revoked",
                              ![e][d].keys = [k \in KeyGens |-> IF v.keys[k] = "absent" THEN "absent" ELSE "revoked"]]
  BY <1>1 DEF RevokeDevice
<1>4. PICK keys : keys = [k \in KeyGens |-> IF v.keys[k] = "absent" THEN "absent" ELSE "revoked"]
  OBVIOUS
<1>5. PICK w : w = [v EXCEPT !.status = "revoked", !.keys = keys]
  OBVIOUS
<1>6. keys \in [KeyGens -> KeyStates] BY <1>4 DEF KeyStates
<1>7. w \in Peer /\ w.status = "revoked" /\ w.pin = v.pin /\ w.ops = v.ops /\ w.keys = keys
  BY <1>1, <1>5, <1>6 DEF Peer
<1>8. ViewRight(w) BY <1>1, <1>4, <1>7 DEF ViewRight
<1>9. peer' = [peer EXCEPT ![e][d] = w] BY <1>1, <1>3, <1>4, <1>5
<1>10. ViewWritten(e, d, w) /\ w.pin = peer[e][d].pin
  BY <1>1, <1>7, <1>8, <1>9 DEF ViewWritten
<1>11. \A q \in requests' : q \in RotationRequest /\ \E r \in requests : /\ SameRequest(q, r) /\ (~q.late <=> ~r.late)
                                                                         /\ (q = r /\ r \notin early) \/ (q = [r EXCEPT !.admitted = TRUE] /\ r \in early)
  <2>1. SUFFICES ASSUME NEW q \in requests'
                 PROVE  q \in RotationRequest /\ \E r \in requests : /\ SameRequest(q, r) /\ (~q.late <=> ~r.late)
                                                                     /\ (q = r /\ r \notin early) \/ (q = [r EXCEPT !.admitted = TRUE] /\ r \in early)
    OBVIOUS
  <2>2. CASE q \in requests \ early BY <2>2, RequestKnown DEF SameRequest
  <2>3. CASE q \in {[r EXCEPT !.admitted = TRUE] : r \in early}
    <3>1. PICK r \in early : q = [r EXCEPT !.admitted = TRUE] BY <2>3
    <3>2. r \in requests /\ r \in RotationRequest BY <3>1, RequestKnown
    <3>3. q \in RotationRequest /\ SameRequest(q, r) /\ (~q.late <=> ~r.late)
      BY <3>1, <3>2 DEF RotationRequest, SameRequest
    <3>4. QED BY <3>1, <3>2, <3>3
  <2>4. QED BY <1>2, <2>2, <2>3
<1>12. \A q, r \in requests' : ~q.late /\ ~r.late /\ q.from = r.from => q = r
  <2>1. SUFFICES ASSUME NEW q \in requests', NEW r \in requests', ~q.late, ~r.late, q.from = r.from
                 PROVE  q = r
    OBVIOUS
  <2>2. PICK s \in requests : /\ SameRequest(q, s) /\ (~q.late <=> ~s.late)
                              /\ (q = s /\ s \notin early) \/ (q = [s EXCEPT !.admitted = TRUE] /\ s \in early)
    BY <1>11
  <2>3. PICK t \in requests : /\ SameRequest(r, t) /\ (~r.late <=> ~t.late)
                              /\ (r = t /\ t \notin early) \/ (r = [t EXCEPT !.admitted = TRUE] /\ t \in early)
    BY <1>11
  <2>4. s = t BY <2>1, <2>2, <2>3 DEF RotationInv, RequestsRight, SameRequest
  <2>5. QED BY <2>2, <2>3, <2>4
<1>13. requests' \subseteq RotationRequest /\ \A q \in requests' : \E r \in requests : SameRequest(q, r) /\ (~q.late <=> ~r.late)
  BY <1>11
<1>14. QED BY <1>3, <1>10, <1>12, <1>13, PinKept

(* What a handler does to a view.                                          *)
LEMMA EffectRight ==
  ASSUME NEW v \in Peer, ViewRight(v), NEW q \in RotationRequest, ~Refused(v, q), NEW w, w = Effect(v, q)
  PROVE  /\ w \in Peer /\ ViewRight(w) /\ w.status = v.status
         /\ w.pin = v.pin \/ (q.op = "commit" /\ w.pin = q.gen /\ v.ops[q.gen] = "prepared")
         /\ q.op = "commit" /\ w.status = "paired" => q.gen <= w.pin
         /\ \A k \in KeyGens : v.keys[k] \in {"retired", "dead"} => w.keys[k] \in {"retired", "dead"}
<1>1. /\ v.keys \in [KeyGens -> KeyStates] /\ v.ops \in [KeyGens -> {"none", "prepared", "committed"}]
      /\ v.pin \in KeyGens /\ q.gen \in KeyGens /\ q.key \in KeyGens /\ q.op \in {"prepare", "commit"}
      /\ v.status \in {"paired", "revoked"}
  BY DEF Peer, RotationRequest
<1>2. CASE q.op = "commit" /\ v.ops[q.gen] = "prepared"
  <2>1. PICK keys : keys = [RetiredKeys(v) EXCEPT ![q.gen] = "active"]
    OBVIOUS
  <2>2. /\ keys \in [KeyGens -> KeyStates]
        /\ \A k \in KeyGens : keys[k] = IF k = q.gen THEN "active" ELSE IF v.keys[k] = "active" THEN "retired" ELSE v.keys[k]
    BY <1>1, <2>1 DEF RetiredKeys, KeyStates
  <2>3. PICK ops : ops = [v.ops EXCEPT ![q.gen] = "committed"]
    OBVIOUS
  <2>4. /\ ops \in [KeyGens -> {"none", "prepared", "committed"}]
        /\ \A k \in KeyGens : ops[k] = IF k = q.gen THEN "committed" ELSE v.ops[k]
    BY <1>1, <2>3
  <2>5. w = [v EXCEPT !.keys = keys, !.pin = q.gen, !.ops = ops]
    BY <1>2, <2>1, <2>3 DEF Effect, Committed, Uncommitted
  <2>6. w \in Peer /\ w.status = v.status /\ w.pin = q.gen /\ w.keys = keys /\ w.ops = ops
    BY <1>1, <2>2, <2>4, <2>5 DEF Peer
  <2>7. \A g \in KeyGens : w.ops[g] = "prepared" => w.keys[g] \in {"pending", "revoked"}
    BY <2>2, <2>4, <2>6 DEF ViewRight
  <2>8. ASSUME w.status = "paired"
        PROVE  /\ \A k \in KeyGens : w.keys[k] = "active" <=> k = w.pin
               /\ \A g \in KeyGens : w.ops[g] = "prepared" => g = w.pin + 1
               /\ \A g \in KeyGens : w.ops[g] = "committed" => g <= w.pin
               /\ w.pin > 0 => w.ops[w.pin] = "committed"
    <3>1. /\ \A g \in KeyGens : v.ops[g] = "prepared" => g = v.pin + 1
          /\ \A g \in KeyGens : v.ops[g] = "committed" => g <= v.pin
          /\ q.gen = v.pin + 1
      BY <1>1, <1>2, <2>6, <2>8 DEF ViewRight
    <3>2. \A k \in KeyGens : w.keys[k] = "active" <=> k = w.pin BY <2>2, <2>6
    <3>3. \A g \in KeyGens : w.ops[g] # "prepared" BY <2>4, <2>6, <3>1
    <3>4. \A g \in KeyGens : w.ops[g] = "committed" => g <= w.pin
      BY <1>1, <2>4, <2>6, <3>1 DEF KeyGens
    <3>5. w.ops[w.pin] = "committed" BY <1>1, <2>4, <2>6
    <3>6. QED BY <3>2, <3>3, <3>4, <3>5
  <2>9. ViewRight(w) BY <2>7, <2>8 DEF ViewRight
  <2>10. q.gen <= w.pin BY <1>1, <2>6 DEF KeyGens
  <2>11. QED BY <1>2, <2>2, <2>6, <2>9, <2>10, <1>1 DEF ViewRight
<1>3. CASE q.op = "prepare" /\ v.ops[q.gen] = "none" /\ AcceptableProposal(v, q)
  <2>1. /\ v.keys[q.key] = "active" /\ q.gen = q.key + 1
        /\ \A g \in KeyGens : v.ops[g] # "prepared"
        /\ v.keys[q.gen] = "absent"
    BY <1>3 DEF AcceptableProposal
  <2>2. PICK keys : keys = [v.keys EXCEPT ![q.gen] = "pending"]
    OBVIOUS
  <2>3. PICK ops : ops = [v.ops EXCEPT ![q.gen] = "prepared"]
    OBVIOUS
  <2>4. /\ keys \in [KeyGens -> KeyStates] /\ ops \in [KeyGens -> {"none", "prepared", "committed"}]
        /\ \A k \in KeyGens : keys[k] = IF k = q.gen THEN "pending" ELSE v.keys[k]
        /\ \A k \in KeyGens : ops[k] = IF k = q.gen THEN "prepared" ELSE v.ops[k]
    BY <1>1, <2>2, <2>3 DEF KeyStates
  <2>5. w = [v EXCEPT !.keys = keys, !.ops = ops]
    BY <1>3, <2>2, <2>3 DEF Effect, Prepared
  <2>6. w \in Peer /\ w.status = v.status /\ w.pin = v.pin /\ w.keys = keys /\ w.ops = ops
    BY <1>1, <2>4, <2>5 DEF Peer
  <2>7. \A g \in KeyGens : w.ops[g] = "prepared" => w.keys[g] \in {"pending", "revoked"}
    BY <2>1, <2>4, <2>6
  <2>8. ASSUME w.status = "paired"
        PROVE  /\ \A k \in KeyGens : w.keys[k] = "active" <=> k = w.pin
               /\ \A g \in KeyGens : w.ops[g] = "prepared" => g = w.pin + 1
               /\ \A g \in KeyGens : w.ops[g] = "committed" => g <= w.pin
               /\ w.pin > 0 => w.ops[w.pin] = "committed"
    <3>1. /\ \A k \in KeyGens : v.keys[k] = "active" <=> k = v.pin
          /\ \A g \in KeyGens : v.ops[g] = "committed" => g <= v.pin
          /\ v.pin > 0 => v.ops[v.pin] = "committed"
      BY <2>6, <2>8 DEF ViewRight
    <3>2. q.gen = v.pin + 1 /\ q.gen # v.pin BY <1>1, <2>1, <3>1
    <3>3. \A k \in KeyGens : w.keys[k] = "active" <=> k = w.pin
      BY <2>4, <2>6, <3>1, <3>2
    <3>4. \A g \in KeyGens : w.ops[g] = "prepared" => g = w.pin + 1
      BY <2>1, <2>4, <2>6, <3>2
    <3>5. \A g \in KeyGens : w.ops[g] = "committed" => g <= w.pin BY <2>4, <2>6, <3>1
    <3>6. w.pin > 0 => w.ops[w.pin] = "committed" BY <1>1, <2>4, <2>6, <3>1, <3>2
    <3>7. QED BY <3>3, <3>4, <3>5, <3>6
  <2>9. ViewRight(w) BY <2>7, <2>8 DEF ViewRight
  <2>10. QED BY <1>3, <2>1, <2>4, <2>6, <2>9
<1>4. CASE /\ ~(q.op = "commit" /\ v.ops[q.gen] = "prepared")
           /\ ~(q.op = "prepare" /\ v.ops[q.gen] = "none" /\ AcceptableProposal(v, q))
  <2>1. w = v BY <1>1, <1>4 DEF Effect, Committed, Uncommitted
  <2>2. q.op = "commit" => v.ops[q.gen] = "committed" BY <1>1, <1>4 DEF Refused
  <2>3. q.op = "commit" /\ w.status = "paired" => q.gen <= w.pin
    BY <1>1, <2>1, <2>2 DEF ViewRight
  <2>4. QED BY <2>1, <2>3
<1>5. QED BY <1>2, <1>3, <1>4

(* A request is gone, the run that waited for it has moved.                *)
LEMMA Handled ==
  ASSUME RotationInv, NEW q \in requests, keyGen' = keyGen, saved' = saved, serving' = serving, requests' = requests \ {q},
         peer' \in [Devices -> [Devices -> Peer]],
         \A x \in Devices : SavedRight(x)' /\ FollowRight(x)' /\ InOrder(x)',
         \A x, y \in Devices : ViewRight(peer[x][y])', Uncrossed',
         \A x \in Devices : \A f \in saved[x].receivers : Through(x, f) => Through(x, f)',
         \A r \in requests : peer'[r.from][r.to] = peer[r.from][r.to],
         (q.late /\ run' = run) \/ (~q.late /\ RunRight(q.from)' /\ \E todo : Moves(q.from, todo))
  PROVE  RotationInv'
<1>1. q.from \in Devices BY RequestKnown
<1>2. run' \in [Devices -> Run] /\ \A x \in Devices \ {q.from} : run'[x] = run[x]
  BY DEF Moves, RotationInv, RotationTypeOK
<1>3. RotationTypeOK'
  <2>1. \A x \in Devices : run'[x].pc \notin {"idle", "activate"} => run'[x].todo # {}
    BY DEF Moves, RotationInv, RotationTypeOK
  <2>2. /\ keyGen' \in [Devices -> KeyGens] /\ saved' \in [Devices -> SavedRotation] /\ serving' \in [Devices -> BOOLEAN]
        /\ requests' \subseteq RotationRequest
    BY DEF RotationInv, RotationTypeOK
  <2>3. QED BY <1>2, <2>1, <2>2 DEF RotationTypeOK
<1>4. ASSUME NEW x \in Devices PROVE RunRight(x)'
  <2>1. CASE run'[x] = run[x]
    <3>1. RunRight(x) /\ run[x].todo \subseteq saved[x].receivers
      BY DeviceKnown DEF RunRight
    <3>2. QED BY <2>1, <3>1 DEF RunRight
  <2>2. CASE run'[x] # run[x] BY <1>2, <2>2
  <2>3. QED BY <2>1, <2>2
<1>5. ASSUME NEW r \in requests \ {q} PROVE RequestRight(r)'
  <2>1. RequestRight(r) /\ r.from \in Devices /\ r.to \in Devices BY RequestKnown
  <2>2. \A f \in saved[r.from].receivers : Through(r.from, f) => Through(r.from, f)'
    BY <2>1
  <2>3. r.op = "commit" /\ r.gen = saved'[r.from].gen => \A f \in saved'[r.from].receivers : f < r.to => Through(r.from, f)'
    BY <2>1, <2>2 DEF RequestRight
  <2>4. /\ serving'[r.to] /\ r.to # r.from /\ r.gen <= saved'[r.from].gen
        /\ peer'[r.from][r.to].status = "paired" => peer'[r.from][r.to].pin = keyGen'[r.to]
    BY <2>1 DEF RequestRight
  <2>5. ~r.late => run'[r.from] = run[r.from]
    <3>1. ~r.late /\ ~q.late => r.from # q.from BY DEF RotationInv, RequestsRight
    <3>2. QED BY <1>2, <2>1, <3>1
  <2>6. ~r.late =>
          /\ run'[r.from].pc = IF r.op = "commit" THEN "committing" ELSE "preparing"
          /\ r.gen = saved'[r.from].gen
          /\ r.to \in run'[r.from].todo /\ \A f \in run'[r.from].todo : r.to <= f
    BY <2>1, <2>5 DEF RequestRight
  <2>7. QED BY <2>3, <2>4, <2>6 DEF RequestRight
<1>6. RequestsRight' BY <1>5 DEF RotationInv, RequestsRight
<1>7. QED BY <1>3, <1>4, <1>6 DEF RotationInv

LEMMA HandleWrites ==
  ASSUME RotationInv, NEW q \in requests, NEW e \in Devices, NEW d \in Devices, e = q.to, d = q.from,
         ~Refused(peer[e][d], q), NEW w, w = Effect(peer[e][d], q), peer' = [peer EXCEPT ![e][d] = w]
  PROVE  ViewWritten(e, d, w)
<1>1. PICK v \in Peer : v = peer[e][d] /\ ViewRight(v) /\ v.pin \in KeyGens BY ViewKnown
<1>2. RequestRight(q) /\ q \in RotationRequest /\ q.gen \in KeyGens BY RequestKnown
<1>3. /\ w \in Peer /\ ViewRight(w) /\ w.status = v.status
      /\ w.pin = v.pin \/ (q.op = "commit" /\ w.pin = q.gen /\ v.ops[q.gen] = "prepared")
  BY <1>1, <1>2, EffectRight
<1>4. ASSUME w.status = "paired", w.pin # v.pin PROVE Advances(e, d, w)
  <2>1. q.op = "commit" /\ w.pin = q.gen /\ v.ops[q.gen] = "prepared" BY <1>3, <1>4
  <2>2. w.pin = v.pin + 1
    <3>1. v.status = "paired" /\ ViewRight(v) BY <1>1, <1>3, <1>4
    <3>2. q.gen = v.pin + 1 BY ONLY <1>2, <2>1, <3>1 DEF ViewRight
    <3>3. QED BY <2>1, <3>2
  <2>3. w.pin <= saved[d].gen /\ d # e /\ (peer[d][e].status = "paired" => peer[d][e].pin = keyGen[e])
    BY <1>2, <2>1 DEF RequestRight
  <2>4. w.pin = saved[d].gen => \A f \in saved[d].receivers : f < e => Through(d, f)
    BY <1>2, <2>1 DEF RequestRight
  <2>5. QED BY <1>1, <2>2, <2>3, <2>4 DEF Advances
<1>5. w.status = "paired" => peer[e][d].status = "paired" /\ (w.pin = peer[e][d].pin \/ Advances(e, d, w))
  BY <1>1, <1>3, <1>4
<1>6. QED BY <1>3, <1>5 DEF ViewWritten

LEMMA HandleSteps ==
  ASSUME RotationInv, NEW q \in requests, Handle(q)
  PROVE  RotationInv'
<1>1. /\ serving[q.to] /\ requests' = requests \ {q} /\ keyGen' = keyGen /\ saved' = saved /\ serving' = serving
      /\ peer' = IF Refused(peer[q.to][q.from], q) THEN peer ELSE [peer EXCEPT ![q.to][q.from] = Effect(peer[q.to][q.from], q)]
      /\ IF ~q.late
         THEN \/ ~Refused(peer[q.to][q.from], q) /\ PeerDone(q.from)
              \/ (Refused(peer[q.to][q.from], q) \/ "loss" \in Faults) /\ Failed(q.from)
         ELSE UNCHANGED run
  BY DEF Handle
<1>2. PICK d \in Devices, e \in Devices : d = q.from /\ e = q.to BY RequestKnown
<1>3. PICK v \in Peer : v = peer[e][d] /\ ViewRight(v) BY ViewKnown
<1>4. RequestRight(q) /\ q \in RotationRequest /\ q.gen \in KeyGens BY RequestKnown
<1>5. PICK w : w = Effect(v, q)
  OBVIOUS
<1>6. ~Refused(v, q) => peer' = [peer EXCEPT ![e][d] = w] /\ ViewWritten(e, d, w)
  BY <1>1, <1>2, <1>3, <1>5, HandleWrites
<1>7. /\ peer' \in [Devices -> [Devices -> Peer]]
      /\ \A x \in Devices : SavedRight(x)' /\ FollowRight(x)' /\ InOrder(x)'
      /\ \A x, y \in Devices : ViewRight(peer[x][y])'
      /\ Uncrossed'
      /\ \A x \in Devices : \A f \in saved[x].receivers : Through(x, f) => Through(x, f)'
      /\ \A r \in requests : peer'[r.from][r.to] = peer[r.from][r.to]
      /\ ~Refused(v, q) => peer'[e][d] = w
  <2>1. CASE Refused(v, q)
    <3>1. peer' = peer BY <1>1, <1>2, <1>3, <2>1
    <3>2. peer' \in [Devices -> [Devices -> Peer]]
      BY <3>1 DEF RotationInv, RotationTypeOK
    <3>3. QED BY <1>1, <2>1, <3>1, <3>2, StoresSame
  <2>2. CASE ~Refused(v, q)
    <3>1. /\ peer' \in [Devices -> [Devices -> Peer]]
          /\ peer'[e][d] = w /\ \A x, y \in Devices : ~(x = e /\ y = d) => peer'[x][y] = peer[x][y]
          /\ \A x \in Devices : SavedRight(x)' /\ FollowRight(x)' /\ InOrder(x)'
          /\ \A x, y \in Devices : ViewRight(peer[x][y])'
          /\ Uncrossed'
          /\ \A x \in Devices : \A f \in saved[x].receivers : Through(x, f) => Through(x, f)'
      BY <1>1, <1>6, <2>2, ViewSteps
    <3>2. ASSUME NEW r \in requests PROVE peer'[r.from][r.to] = peer[r.from][r.to]
      <4>1. r.from \in Devices /\ r.to \in Devices /\ ~(r.from = q.to /\ r.to = q.from)
        BY RequestKnown DEF RotationInv, RequestsRight
      <4>2. QED BY <1>2, <3>1, <4>1
    <3>3. QED BY <3>1, <3>2
  <2>3. QED BY <2>1, <2>2
<1>8. (q.late /\ run' = run) \/ (~q.late /\ RunRight(d)' /\ \E todo : Moves(d, todo))
  <2>1. CASE q.late BY <1>1, <2>1
  <2>2. CASE ~q.late
    <3>1. /\ run[d].pc = IF q.op = "commit" THEN "committing" ELSE "preparing"
          /\ q.gen = saved[d].gen /\ e \in run[d].todo /\ \A f \in run[d].todo : e <= f
      BY <1>2, <1>4, <2>2 DEF RequestRight
    <3>2. CASE ~Refused(v, q) /\ PeerDone(d)
      <4>1. \A f \in saved[d].receivers : Through(d, f) => Through(d, f)' BY <1>7
      <4>2. e = CurrentPeer(d)
        <5>1. CurrentPeer(d) \in run[d].todo /\ \A f \in run[d].todo : CurrentPeer(d) <= f
          BY <3>1, CurrentLeast
        <5>2. run[d].todo \subseteq Nat BY DeviceKnown, DevicesAssumption
        <5>3. CurrentPeer(d) \in Nat /\ e \in Nat /\ e <= CurrentPeer(d) /\ CurrentPeer(d) <= e
          BY <3>1, <5>1, <5>2
        <5>4. QED BY <5>3
      <4>3. run[d].pc = "committing" => \A f \in saved[d].receivers : f = CurrentPeer(d) => Through(d, f)'
        <5>1. ASSUME run[d].pc = "committing", NEW f \in saved[d].receivers, f = CurrentPeer(d), peer'[e][d].status = "paired"
              PROVE  peer'[e][d].pin = saved[d].gen
          <6>1. q.op = "commit" /\ peer'[e][d] = w BY <1>7, <3>1, <3>2, <5>1
          <6>2. w.status = "paired" /\ saved[d].gen <= w.pin /\ w.pin \in KeyGens
            BY <1>3, <1>4, <1>5, <3>1, <3>2, <5>1, <6>1, EffectRight DEF Peer
          <6>3. f = e BY <4>2, <5>1
          <6>4. /\ e \in Followers(d)'
            <7>1. e # d /\ e \in saved[d].receivers
              BY <5>1, <6>3, DeviceKnown DEF SavedRight
            <7>2. QED BY <1>1, <5>1, <7>1 DEF Followers
          <6>5. w.pin \in Held(d)' /\ Held(d)' = Held(d)
            BY <1>1, <1>7, <6>1, <6>4 DEF FollowRight, Held
          <6>6. saved[d].status = "prepared" BY <3>1, DeviceKnown DEF RunRight
          <6>7. saved[d].gen = keyGen[d] + 1 /\ keyGen[d] \in KeyGens
            BY <6>6, DeviceKnown DEF SavedRight
          <6>8. w.pin = keyGen[d] \/ w.pin = saved[d].gen BY <6>5, <6>6 DEF Held
          <6>9. w.pin # keyGen[d] BY <6>2, <6>7 DEF KeyGens
          <6>10. QED BY <6>1, <6>8, <6>9
        <5>2. \A f \in saved[d].receivers : f = CurrentPeer(d) => f = e BY <4>2
        <5>3. saved'[d].gen = saved[d].gen BY <1>1
        <5>4. QED BY <5>1, <5>2, <5>3 DEF Through
      <4>4. QED BY <1>1, <2>2, <3>1, <3>2, <4>1, <4>3, PeerDoneRight
    <3>3. CASE Failed(d) BY <1>1, <2>2, <3>1, <3>3, FailedRight
    <3>4. QED BY <1>1, <1>2, <1>3, <2>2, <3>2, <3>3
  <2>3. QED BY <2>1, <2>2
<1>9. (q.late /\ run' = run) \/ (~q.late /\ RunRight(q.from)' /\ \E todo : Moves(q.from, todo))
  BY <1>2, <1>8
<1>10. QED BY <1>1, <1>7, <1>9, Handled

LEMMA RotationStarts == RotationInit => RotationInv
<1> SUFFICES ASSUME RotationInit PROVE RotationInv
  OBVIOUS
<1>1. 0 \in KeyGens BY MaxGenAssumption DEF KeyGens
<1>2. NewPeer \in Peer /\ ViewRight(NewPeer) /\ NewPeer.pin = 0 /\ NewPeer.status = "paired"
  <2>1. PICK keys : keys = [g \in KeyGens |-> IF g = 0 THEN "active" ELSE "absent"]
    OBVIOUS
  <2>2. PICK ops : ops = [g \in KeyGens |-> "none"]
    OBVIOUS
  <2>3. NewPeer = [status |-> "paired", pin |-> 0, keys |-> keys, ops |-> ops]
    BY <2>1, <2>2 DEF NewPeer
  <2>4. keys \in [KeyGens -> KeyStates] /\ ops \in [KeyGens -> {"none", "prepared", "committed"}]
    BY <2>1, <2>2 DEF KeyStates
  <2>5. NewPeer \in Peer /\ NewPeer.keys = keys /\ NewPeer.ops = ops /\ NewPeer.pin = 0 /\ NewPeer.status = "paired"
    BY <1>1, <2>3, <2>4 DEF Peer
  <2>6. ViewRight(NewPeer) BY <2>1, <2>2, <2>5 DEF ViewRight
  <2>7. QED BY <2>5, <2>6
<1>3. /\ keyGen = [d \in Devices |-> 0]
      /\ saved = [d \in Devices |-> [gen |-> 0, status |-> "none", receivers |-> {}]]
      /\ run = [d \in Devices |-> [pc |-> "idle", todo |-> {}]]
      /\ serving = [d \in Devices |-> FALSE]
      /\ peer = [e \in Devices |-> [d \in Devices |-> NewPeer]]
      /\ requests = {}
  BY DEF RotationInit, NotRotating
<1>4. \A d \in Devices : /\ saved[d].gen = 0 /\ saved[d].status = "none" /\ saved[d].receivers = {} /\ keyGen[d] = 0
                         /\ run[d].pc = "idle" /\ run[d].todo = {}
  BY <1>3
<1>5. \A e, d \in Devices : peer[e][d] = NewPeer BY <1>3
<1>6. RotationTypeOK
  <2>1. keyGen \in [Devices -> KeyGens] /\ saved \in [Devices -> SavedRotation] /\ run \in [Devices -> Run]
    BY <1>1, <1>3 DEF SavedRotation, Run
  <2>2. serving \in [Devices -> BOOLEAN] /\ peer \in [Devices -> [Devices -> Peer]] /\ requests \subseteq RotationRequest
    BY <1>2, <1>3
  <2>3. QED BY <1>4, <2>1, <2>2 DEF RotationTypeOK
<1>7. \A d \in Devices : SavedRight(d) /\ InOrder(d) /\ RunRight(d) /\ FollowRight(d)
  BY <1>2, <1>4, <1>5 DEF SavedRight, InOrder, RunRight, FollowRight, Followers, Held
<1>8. RequestsRight /\ Uncrossed BY <1>3, <1>4 DEF RequestsRight, Uncrossed
<1>9. QED BY <1>2, <1>5, <1>6, <1>7, <1>8 DEF RotationInv

LEMMA RotationRests ==
  ASSUME RotationInv, UNCHANGED rotationVars
  PROVE  RotationInv'
<1>1. UNCHANGED <<keyGen, saved, run, serving, peer, requests>> BY DEF rotationVars
<1>2. RotationTypeOK' BY <1>1 DEF RotationInv, RotationTypeOK
<1>3. \A f, d : Through(d, f)' <=> Through(d, f) BY <1>1, StoresSame
<1>4. ASSUME NEW d \in Devices PROVE RunRight(d)'
  BY <1>1, <1>3, DeviceKnown DEF RunRight
<1>5. ASSUME NEW q \in requests PROVE RequestRight(q)'
  BY <1>1, <1>3, RequestKnown DEF RequestRight
<1>6. RequestsRight' BY <1>1, <1>5 DEF RotationInv, RequestsRight
<1>7. QED BY <1>1, <1>2, <1>4, <1>6, StoresSame DEF RotationInv

LEMMA RotationSteps ==
  ASSUME RotationInv, [RotationNext]_rotationVars
  PROVE  RotationInv'
<1>1. ASSUME NEW d \in Devices, Serve(d) \/ StopServing(d) \/ Rotate(d) \/ Steps(d) \/ RotationCrash(d)
      PROVE  RotationInv'
  BY <1>1, ServeSteps, RotateSteps, SendSteps, CommandGoesOn, ActivateKeySteps DEF Steps
<1>2. ASSUME NEW q \in requests, Handle(q) PROVE RotationInv' BY <1>2, HandleSteps
<1>3. ASSUME NEW e \in Devices, NEW d \in Devices, RevokeDevice(e, d) \/ \E k \in KeyGens : WindowEnds(e, d, k)
      PROVE  RotationInv'
  BY <1>3, RevokeDeviceSteps, WindowSteps
<1>4. CASE UNCHANGED rotationVars BY <1>4, RotationRests
<1>5. QED BY <1>1, <1>2, <1>3, <1>4 DEF RotationNext

(* The retired stay retired.                                               *)
LEMMA RetiredStay ==
  ASSUME RotationInv, [RotationNext]_rotationVars, NEW e \in Devices, NEW d \in Devices, NEW k \in KeyGens,
         peer[e][d].keys[k] \in {"retired", "dead"}
  PROVE  peer'[e][d].keys[k] \in {"retired", "dead", "revoked"}
<1>1. CASE peer' = peer BY <1>1
<1>2. ASSUME NEW q \in requests, Handle(q) PROVE peer'[e][d].keys[k] \in {"retired", "dead", "revoked"}
  <2>1. PICK x \in Devices, y \in Devices : x = q.to /\ y = q.from BY RequestKnown
  <2>2. PICK v \in Peer : v = peer[x][y] /\ ViewRight(v) BY ViewKnown
  <2>3. PICK w : w = Effect(v, q)
    OBVIOUS
  <2>4. peer' = IF Refused(v, q) THEN peer ELSE [peer EXCEPT ![x][y] = w]
    BY <1>2, <2>1, <2>2, <2>3 DEF Handle
  <2>5. CASE ~Refused(v, q) /\ x = e /\ y = d
    <3>1. w.keys[k] \in {"retired", "dead"}
      BY <2>2, <2>3, <2>5, EffectRight, RequestKnown
    <3>2. peer \in [Devices -> [Devices -> Peer]] BY DEF RotationInv, RotationTypeOK
    <3>3. peer'[e][d] = w BY <2>4, <2>5, <3>2
    <3>4. QED BY <3>1, <3>3
  <2>6. CASE Refused(v, q) \/ ~(x = e /\ y = d)
    <3>2. peer \in [Devices -> [Devices -> Peer]] BY DEF RotationInv, RotationTypeOK
    <3>3. peer'[e][d] = peer[e][d] BY <2>4, <2>6, <3>2
    <3>4. QED BY <3>3
  <2>7. QED BY <2>5, <2>6
<1>3. ASSUME NEW x \in Devices, NEW y \in Devices, RevokeDevice(x, y) PROVE peer'[e][d].keys[k] \in {"retired", "dead", "revoked"}
  <2>1. PICK keys : keys = [g \in KeyGens |-> IF peer[x][y].keys[g] = "absent" THEN "absent" ELSE "revoked"]
    OBVIOUS
  <2>2. peer' = [peer EXCEPT ![x][y].status = "revoked", ![x][y].keys = keys]
    BY <1>3, <2>1 DEF RevokeDevice
  <2>3. peer \in [Devices -> [Devices -> Peer]] /\ peer[x][y] \in Peer
    BY DEF RotationInv, RotationTypeOK
  <2>4. peer'[x][y].keys = keys /\ (~(x = e /\ y = d) => peer'[e][d] = peer[e][d])
    BY <2>2, <2>3 DEF Peer
  <2>5. CASE x = e /\ y = d BY <2>1, <2>4, <2>5
  <2>6. CASE ~(x = e /\ y = d) BY <2>4, <2>6
  <2>7. QED BY <2>5, <2>6
<1>4. ASSUME NEW x \in Devices, NEW y \in Devices, NEW g \in KeyGens, WindowEnds(x, y, g)
      PROVE  peer'[e][d].keys[k] \in {"retired", "dead", "revoked"}
  <2>1. peer' = [peer EXCEPT ![x][y].keys[g] = "dead"] BY <1>4 DEF WindowEnds
  <2>2. peer \in [Devices -> [Devices -> Peer]] /\ peer[x][y] \in Peer /\ peer[x][y].keys \in [KeyGens -> KeyStates]
    BY ViewKnown DEF RotationInv, RotationTypeOK
  <2>3. CASE x = e /\ y = d
    <3>1. peer'[e][d].keys = [peer[e][d].keys EXCEPT ![g] = "dead"]
      BY <2>1, <2>2, <2>3 DEF Peer
    <3>2. QED BY <2>2, <2>3, <3>1
  <2>4. CASE ~(x = e /\ y = d)
    <3>1. peer'[e][d] = peer[e][d] BY <2>1, <2>2, <2>4
    <3>2. QED BY <3>1
  <2>5. QED BY <2>3, <2>4
<1>5. ASSUME NEW x \in Devices, Serve(x) \/ StopServing(x) \/ Rotate(x) \/ Steps(x) \/ RotationCrash(x)
      PROVE  peer' = peer
  BY <1>5 DEF Serve, StopServing, Rotate, Steps, SendPrepare, SendCommit, AskStatus, GivesUp, ActivateKey, RotationCrash
<1>6. CASE UNCHANGED rotationVars BY <1>1, <1>6 DEF rotationVars
<1>7. QED BY <1>1, <1>2, <1>3, <1>4, <1>5, <1>6 DEF RotationNext

(* What the invariant says of the keys.                                    *)
LEMMA KeysSaid ==
  ASSUME RotationInv
  PROVE  OneKeyActs /\ NobodyStranded /\ ActiveEverywhere
<1>1. OneKeyActs BY DEF RotationInv, OneKeyActs, MaySend, ViewRight
<1>2. ASSUME NEW d \in Devices, NEW e \in Devices \ {d}, Both(d, e)
      PROVE  peer[e][d].pin \in Held(d) /\ TrustsKey(peer[e][d], peer[e][d].pin) /\ MayRotate(peer[e][d], peer[e][d].pin)
  <2>1. e \in Followers(d) BY <1>2, DeviceKnown DEF Both, Followers, SavedRight
  <2>2. peer[e][d].pin \in Held(d) BY <2>1, DeviceKnown DEF FollowRight
  <2>3. peer[e][d].status = "paired" /\ peer[e][d].keys[peer[e][d].pin] = "active"
    BY <1>2, ViewKnown DEF Both, ViewRight
  <2>4. QED BY <2>2, <2>3 DEF TrustsKey, MayRotate
<1>3. NobodyStranded BY <1>2 DEF NobodyStranded
<1>4. ASSUME NEW d \in Devices, saved[d].status = "active", NEW e \in saved[d].receivers, peer[e][d].status = "paired"
      PROVE  peer[e][d].pin = keyGen[d] /\ peer[e][d].keys[keyGen[d]] = "active"
  <2>1. e \in Devices \ {d} /\ e \in Followers(d)
    BY <1>4, DeviceKnown DEF SavedRight, Followers
  <2>2. peer[e][d].pin = keyGen[d] BY <1>4, <2>1, DeviceKnown DEF FollowRight, Held
  <2>3. QED BY <1>4, <2>1, <2>2, ViewKnown DEF ViewRight
<1>5. ActiveEverywhere BY <1>4 DEF ActiveEverywhere
<1>6. QED BY <1>1, <1>3, <1>5

(* The last of the devices that rotate is free, or the one that got ahead  *)
(* of it is: as receivers are visited in order, that one has committed     *)
(* everywhere already and nobody can have committed ahead of it.           *)
LEMMA SomeoneFree ==
  ASSUME RotationInv
  PROVE  NoMutualBlock
<1>1. SUFFICES ASSUME Pending # {}, \A d, e \in Devices : d # e => Both(d, e)
               PROVE  \E d \in Pending : Unblocked(d)
  BY DEF NoMutualBlock
<1>2. PICK d \in Pending : \A x \in Pending : x <= d
  <2>1. Pending \in SUBSET Nat /\ IsFiniteSet(Pending)
    BY DevicesAssumption, FS_Subset DEF Pending
  <2>2. QED BY <1>1, <2>1, GreatestOf
<1>3. \A x \in Pending : x \in Devices /\ saved[x].status = "prepared" BY DEF Pending
<1>4. ASSUME NEW x \in Devices, NEW y \in Devices \ {x}
      PROVE  /\ peer[x][y].status = "paired" /\ peer[y][x].status = "paired"
             /\ peer[y][x].pin = keyGen[x] \/ (x \in Pending /\ peer[y][x].pin = saved[x].gen)
             /\ saved[x].status # "none" => y \in saved[x].receivers
  <2>1. Both(x, y) BY <1>1
  <2>2. y \in Followers(x) /\ (saved[x].status # "none" => y \in saved[x].receivers)
    BY <2>1, DeviceKnown DEF Both, Followers, SavedRight
  <2>3. peer[y][x].pin \in Held(x) BY <2>2, DeviceKnown DEF FollowRight
  <2>4. QED BY <2>1, <2>2, <2>3 DEF Both, Held, Pending
(* Who meets every receiver's certificate goes through.                    *)
<1>5. ASSUME NEW x \in Pending, \A y \in Devices \ {x} : peer[x][y].pin = keyGen[y]
      PROVE  Unblocked(x)
  <2>1. ASSUME NEW y \in saved[x].receivers
        PROVE  /\ Meets(x, y, keyGen[x]) \/ Meets(x, y, saved[x].gen)
               /\ peer[y][x].ops[saved[x].gen] # "none" \/ Meets(x, y, keyGen[x])
    <3>1. x \in Devices /\ y \in Devices \ {x} BY <1>3, <2>1, DeviceKnown DEF SavedRight
    <3>2. peer[x][y].status = "paired" /\ peer[x][y].pin = keyGen[y] /\ peer[y][x].status = "paired"
      BY <1>4, <1>5, <3>1
    <3>3. CASE peer[y][x].pin = keyGen[x]
      <4>1. Meets(x, y, keyGen[x]) BY <3>2, <3>3 DEF Meets, TrustsKey
      <4>2. QED BY <4>1
    <3>4. CASE peer[y][x].pin = saved[x].gen
      <4>1. Meets(x, y, saved[x].gen) BY <3>2, <3>4 DEF Meets, TrustsKey
      <4>2. saved[x].gen = keyGen[x] + 1 /\ keyGen[x] \in KeyGens
        BY <1>3, <3>1, DeviceKnown DEF SavedRight
      <4>3. peer[y][x].pin > 0 BY <3>4, <4>2 DEF KeyGens
      <4>4. peer[y][x].ops[saved[x].gen] = "committed"
        BY <3>1, <3>2, <3>4, <4>3, ViewKnown DEF ViewRight
      <4>5. QED BY <4>1, <4>4
    <3>5. QED BY <1>4, <3>1, <3>3, <3>4
  <2>2. QED BY <2>1 DEF Unblocked
<1>6. ASSUME NEW x \in Pending, NEW y \in Pending, x # y, peer[x][y].pin # keyGen[y]
      PROVE  peer[y][x].pin = keyGen[x]
  <2>1. peer[x][y].pin = saved[y].gen BY <1>3, <1>4, <1>6
  <2>2. Both(x, y) BY <1>1, <1>3, <1>6
  <2>3. peer[y][x].pin # saved[x].gen
    BY <1>3, <1>6, <2>1, <2>2 DEF RotationInv, Uncrossed
  <2>4. QED BY <1>3, <1>4, <1>6, <2>3
<1>7. CASE \A y \in Devices \ {d} : peer[d][y].pin = keyGen[y] BY <1>5, <1>7
<1>8. CASE \E y \in Devices \ {d} : peer[d][y].pin # keyGen[y]
  <2>1. PICK e \in Devices \ {d} : peer[d][e].pin # keyGen[e] BY <1>8
  <2>2. e \in Pending /\ peer[d][e].pin = saved[e].gen BY <1>3, <1>4, <2>1
  <2>3. ASSUME NEW f \in Devices \ {e} PROVE peer[e][f].pin = keyGen[f]
    <3>1. CASE f = d BY <1>6, <2>1, <2>2, <3>1
    <3>2. CASE f # d /\ f \in Pending
      <4>1. f < d
        <5>1. f \in Nat /\ d \in Nat /\ f <= d BY <1>2, <1>3, <3>2, DevicesAssumption
        <5>2. QED BY <3>2, <5>1
      <4>2. d \in saved[e].receivers /\ f \in saved[e].receivers /\ peer[d][e].status = "paired" /\ peer[f][e].status = "paired"
        BY <1>3, <1>4, <2>1, <2>2, <2>3
      <4>3. Through(e, f) BY <1>3, <2>2, <4>1, <4>2, DeviceKnown DEF InOrder
      <4>4. peer[f][e].pin = saved[e].gen BY <4>2, <4>3 DEF Through
      <4>5. saved[e].gen # keyGen[e]
        <5>1. saved[e].gen = keyGen[e] + 1 /\ keyGen[e] \in KeyGens
          BY <1>3, <2>2, DeviceKnown DEF SavedRight
        <5>2. QED BY <5>1 DEF KeyGens
      <4>6. QED BY <1>6, <2>2, <2>3, <3>2, <4>4, <4>5
    <3>3. CASE f \notin Pending BY <1>3, <1>4, <2>2, <2>3, <3>3
    <3>4. QED BY <3>1, <3>2, <3>3
  <2>4. QED BY <1>5, <2>2, <2>3
<1>9. QED BY <1>7, <1>8

(* For any devices and generations, whatever requests are lost, late or    *)
(* repeated and whoever is revoked: one key of a device acts, nobody is    *)
(* stranded, a device is active only with all its peers, rotations do not  *)
(* block each other, and a retired key stays retired.                      *)
THEOREM RotationKept == RotationSpec => RotationSafe
<1>1. RotationInit => RotationInv BY RotationStarts
<1>2. RotationInv /\ [RotationNext]_rotationVars => RotationInv' BY RotationSteps
<1>3. RotationInv => RotationTypeOK /\ OneKeyActs /\ NobodyStranded /\ ActiveEverywhere /\ NoMutualBlock
  BY KeysSaid, SomeoneFree DEF RotationInv
<1>4. RotationInv /\ [RotationNext]_rotationVars
        => [\A e, d \in Devices : \A k \in KeyGens :
              peer[e][d].keys[k] \in {"retired", "dead"} => peer'[e][d].keys[k] \in {"retired", "dead", "revoked"}]_rotationVars
  BY RetiredStay
<1>5. QED BY <1>1, <1>2, <1>3, <1>4, PTL DEF RotationSpec, RotationSafe, RetiredForGood

-----------------------------------------------------------------------------
(* The process of the control service.                                     *)

MigrationStages == {"idle", "opened", "failed", "locked", "recording", "committed", "done"}
RequestStages == {"", "reading", "handling", "waiting", "answering", "metrics"}
ProcessStages == {"down", "booting", "listening", "announcing", "ready", "serving"}
ServiceProcess ==
  [pc : ProcessStages, listening : SUBSET {"main", "admin"}, healthy : BOOLEAN, stopped : BOOLEAN,
   notify : {"none", "ready", "beat"}, heard : BOOLEAN, age : Nat, timer : Nat, refresh : Nat,
   publishing : BOOLEAN, hold : Nat]
ProcessTypes ==
  /\ database \in Database
  /\ DOMAIN migration = Migrators
  /\ \A m \in Migrators : DOMAIN migration[m] = {"pc", "txn"} /\ migration[m].pc \in MigrationStages
  /\ process \in ServiceProcess
  /\ request \in [Clients -> RequestStages]
  /\ systemd \in [state : {"inactive", "starting", "running", "stopping"}, since : Nat, launches : Nat]
  /\ setting \in [deadline : Deadlines, listeners : SUBSET {"main", "admin"}]
  /\ history \in [first : Database, missed : BOOLEAN, unhealthy : Nat, held : Nat]

(* What a migration has found and prepared under the lock still is what    *)
(* the database holds, for nobody else writes while it has the lock.       *)
Begun(data) == [data EXCEPT !.ledgerTable = TRUE]
TxnRight(m) ==
  /\ migration[m].pc = "locked" => migration[m].txn = Begun(database)
  /\ migration[m].pc = "recording" =>
       \/ (database.versions = {1} /\ migration[m].txn = Begun(database))
       \/ (1 \notin database.versions /\ MayAdopt(database) /\ migration[m].txn = Adopted(Begun(database)))
OneWriter ==
  \A m, n \in Migrators :
    migration[m].pc \in {"locked", "recording"} /\ migration[n].pc \in {"locked", "recording"} => m = n

(* Between its start and its end the service has a valid schema.           *)
Up == process.pc \notin {"down", "booting"}
ServiceRight ==
  /\ Up => (ValidSchema(database) /\ setting.deadline \notin {1, 2})
  /\ process.listening # {} \/ process.publishing => Up
  /\ \A c \in Clients : request[c] # "" => Up

(* What the schema keeps of the first database, which never loses data.    *)
SchemaRight == MigrationWhole /\ (history.first.rows => database.rows)

(* Only a service whose start was announced counts as running, and it is   *)
(* serving unless it is to stop or has still to be told that it was heard. *)
StageRight ==
  /\ systemd.state = "inactive" => process.pc = "down"
  /\ systemd.state = "running" => (Watched /\ Up /\ (process.pc = "serving" \/ (process.pc = "ready" /\ (process.stopped \/ process.heard))))
  /\ process.heard => process.notify # "none"
  /\ process.notify # "none" => (Watched /\ process.pc \in {"ready", "serving"})
  /\ process.notify = "ready" => process.pc = "ready"
  /\ process.pc = "ready" => process.notify = "ready" \/ process.stopped
  /\ process.pc \notin {"ready", "serving"} => history.unhealthy = 0

(* A notification that was not heard yet was sent by a healthy service, so *)
(* the time without health is within its age; otherwise it is within the   *)
(* time since the last one was heard and the time that one may have taken. *)
HealthRight ==
  /\ process.age <= NotifyLimit
  /\ process.notify # "none" /\ ~process.heard => history.unhealthy <= process.age
  /\ history.unhealthy <= systemd.since + NotifyLimit
  /\ systemd.since <= setting.deadline
  /\ IsHealthy => history.unhealthy = 0

(* While no beat is missing the last one was heard at most a period of the *)
(* timer and one notification ago, and the time the loop was held since    *)
(* then; one that was heard is answered as soon as the loop runs.          *)
BeatRight ==
  /\ process.timer <= TimerPeriod
  /\ systemd.state = "running" /\ ~process.stopped /\ ~history.missed =>
       /\ process.notify = "none" => systemd.since + process.timer <= TimerPeriod + history.held
       /\ process.notify # "none" /\ ~process.heard => systemd.since <= TimerPeriod + process.age + history.held
       /\ process.heard => systemd.since <= history.held

ProcessInv ==
  /\ ProcessTypes
  /\ \A m \in Migrators : TxnRight(m)
  /\ OneWriter /\ ServiceRight /\ SchemaRight /\ StageRight /\ HealthRight /\ BeatRight

(* The period of the timer leaves room for a whole notification.           *)
LEMMA Period ==
  ASSUME ProcessTypes
  PROVE  /\ TimerPeriod \in Nat
         /\ setting.deadline \in Nat
         /\ setting.deadline \notin {0, 1, 2} => TimerPeriod + NotifyLimit <= setting.deadline
         /\ NotifyLimit \in {1, 2}
<1>1. setting.deadline \in Nat BY ProcessAssumption DEF ProcessTypes
<1>2. NotifyLimit \in {1, 2} BY ProcessAssumption
<1> DEFINE d == setting.deadline
           q == d \div 3
<1>3. q \in Nat /\ 3 * q <= d BY <1>1
<1> HIDE DEF q
<1>4. TimerPeriod = IF q < 5 THEN q ELSE 5 BY DEF TimerPeriod, q
<1> QED BY <1>1, <1>2, <1>3, <1>4

(* What a migration prepares is a database, and keeps what it must.        *)
LEMMA DatabasesWritten ==
  ASSUME NEW data \in Database
  PROVE  /\ Begun(data) \in Database /\ Adopted(data) \in Database
         /\ [data EXCEPT !.versions = @ \cup {1}] \in Database
         /\ [data EXCEPT !.revision = "used"] \in Database
         /\ [data EXCEPT !.rows = TRUE] \in Database
<1>1. Begun(data) \in Database BY DEF Begun, Database
<1>2. Adopted(data) \in Database BY DEF Adopted, Database
<1>3. [data EXCEPT !.versions = @ \cup {1}] \in Database BY DEF Database
<1>4. [data EXCEPT !.revision = "used"] \in Database BY DEF Database
<1>5. [data EXCEPT !.rows = TRUE] \in Database BY DEF Database
<1> QED BY <1>1, <1>2, <1>3, <1>4, <1>5

(* The migrations, as long as nobody else writes.                          *)
MigrationRight == (\A m \in Migrators : TxnRight(m)) /\ OneWriter

LEMMA MigrationsAlone ==
  ASSUME ProcessTypes, MigrationRight, UNCHANGED <<database, migration>>
  PROVE  MigrationRight'
<1>1. \A m \in Migrators : TxnRight(m)'
  BY DEF MigrationRight, TxnRight, Begun, Adopted, MayAdopt
<1>2. OneWriter' BY DEF MigrationRight, OneWriter
<1> QED BY <1>1, <1>2 DEF MigrationRight

LEMMA WrittenBeside ==
  ASSUME ProcessTypes, MigrationRight, ~LockHeld, UNCHANGED migration
  PROVE  MigrationRight'
<1>1. \A m \in Migrators : migration'[m].pc \notin {"locked", "recording"}
  BY DEF LockHeld
<1> QED BY <1>1 DEF MigrationRight, TxnRight, OneWriter

(* The service writes only to a database whose schema is valid, and never  *)
(* while a migration has the lock.                                         *)
Writes ==
  \/ UNCHANGED database
  \/ /\ ValidSchema(database) /\ ~LockHeld
     /\ \/ database' = [database EXCEPT !.revision = "used"]
        \/ database' = [database EXCEPT !.rows = TRUE]
        \/ \E rows \in {database.rows, TRUE} : database' = [database EXCEPT !.revision = "used", !.rows = rows]

LEMMA ServiceWrites ==
  ASSUME ProcessTypes, MigrationRight, SchemaRight, Writes, UNCHANGED migration, history'.first = history.first
  PROVE  /\ database' \in Database
         /\ MigrationRight' /\ SchemaRight'
         /\ ValidSchema(database) => ValidSchema(database')
<1>1. CASE UNCHANGED database
  <2>1. MigrationRight' BY <1>1, MigrationsAlone
  <2>2. SchemaRight' BY <1>1 DEF SchemaRight, MigrationWhole
  <2> QED BY <1>1, <2>1, <2>2 DEF ProcessTypes
<1>2. CASE ~UNCHANGED database
  <2>1. ValidSchema(database) /\ ~LockHeld BY <1>2 DEF Writes
  <2>2. MigrationRight' BY <2>1, WrittenBeside
  <2>3. database \in Database /\ history.first \in Database BY DEF ProcessTypes
  <2>4. CASE database' = [database EXCEPT !.revision = "used"]
    <3>1. database' \in Database BY <2>3, <2>4, DatabasesWritten
    <3>2. SchemaRight'
      BY <2>1, <2>3, <2>4 DEF SchemaRight, MigrationWhole, ValidSchema, Database
    <3>3. ValidSchema(database') BY <2>1, <2>3, <2>4 DEF ValidSchema, Database
    <3> QED BY <2>2, <3>1, <3>2, <3>3
  <2>5. CASE database' = [database EXCEPT !.rows = TRUE]
    <3>1. database' \in Database BY <2>3, <2>5, DatabasesWritten
    <3>2. SchemaRight' BY <2>1, <2>3, <2>5 DEF SchemaRight, MigrationWhole, Database
    <3>3. ValidSchema(database') BY <2>1, <2>3, <2>5 DEF ValidSchema, Database
    <3> QED BY <2>2, <3>1, <3>2, <3>3
  <2>6. CASE \E rows \in {database.rows, TRUE} : database' = [database EXCEPT !.revision = "used", !.rows = rows]
    <3>0. PICK rows \in {database.rows, TRUE} : database' = [database EXCEPT !.revision = "used", !.rows = rows]
      BY <2>6
    <3>1. database' \in Database BY <2>3, <3>0 DEF Database
    <3>2. SchemaRight'
      BY <2>1, <2>3, <3>0 DEF SchemaRight, MigrationWhole, ValidSchema, Database
    <3>3. ValidSchema(database') BY <2>1, <2>3, <3>0 DEF ValidSchema, Database
    <3> QED BY <2>2, <3>1, <3>2, <3>3
  <2> QED BY <1>2, <2>4, <2>5, <2>6 DEF Writes
<1> QED BY <1>1, <1>2
(* A migration that leaves the database alone and goes to e.               *)
Recorded(txn) ==
  \/ (database.versions = {1} /\ txn = Begun(database))
  \/ (1 \notin database.versions /\ MayAdopt(database) /\ txn = Adopted(Begun(database)))
MigrationTypes ==
  /\ DOMAIN migration = Migrators
  /\ \A m \in Migrators : DOMAIN migration[m] = {"pc", "txn"} /\ migration[m].pc \in MigrationStages

LEMMA MigratorMoves ==
  ASSUME ProcessTypes, MigrationRight, UNCHANGED database, NEW m \in Migrators, NEW e,
         migration' = [migration EXCEPT ![m] = e], DOMAIN e = {"pc", "txn"}, e.pc \in MigrationStages,
         e.pc = "locked" => (~LockHeld /\ e.txn = Begun(database)),
         e.pc = "recording" => (migration[m].pc = "locked" /\ Recorded(e.txn))
  PROVE  MigrationTypes' /\ MigrationRight'
<1>1. DOMAIN migration = Migrators BY DEF ProcessTypes
<1>2. migration'[m] = e /\ \A n \in Migrators \ {m} : migration'[n] = migration[n]
  BY <1>1
<1>3. MigrationTypes' BY <1>1, <1>2 DEF ProcessTypes, MigrationTypes
<1>4. ASSUME NEW n \in Migrators PROVE TxnRight(n)'
  <2>1. CASE n = m BY <1>2, <2>1 DEF TxnRight, Recorded
  <2>2. CASE n # m BY <1>2, <2>2 DEF MigrationRight, TxnRight
  <2> QED BY <2>1, <2>2
<1>5. OneWriter' BY <1>2 DEF MigrationRight, OneWriter, LockHeld
<1> QED BY <1>3, <1>4, <1>5 DEF MigrationRight

(* The commit: a schema that was there stays as it was, one that was not   *)
(* is there as a whole.                                                    *)
LEMMA MigratorCommits ==
  ASSUME ProcessTypes, MigrationRight, SchemaRight, NEW m \in Migrators, Commits(m)
  PROVE  /\ database' \in Database /\ MigrationTypes' /\ MigrationRight' /\ SchemaRight'
         /\ ValidSchema(database) => ValidSchema(database')
<1> DEFINE txn == migration[m].txn
<1>1. migration[m].pc = "recording" /\ database' = [txn EXCEPT !.versions = @ \cup {1}] /\ migration' = Ends(m, "committed")
  BY DEF Commits
<1>2. Recorded(txn) BY <1>1 DEF MigrationRight, TxnRight, Recorded
<1>3. database \in Database /\ history.first \in Database BY DEF ProcessTypes
<1>4. txn \in Database BY <1>2, <1>3, DatabasesWritten DEF Recorded
<1> HIDE DEF txn
<1>5. database' \in Database BY <1>1, <1>4, DatabasesWritten
<1>6. DOMAIN migration = Migrators BY DEF ProcessTypes
<1>7. migration'[m] = [pc |-> "committed", txn |-> NoTxn] /\ \A n \in Migrators \ {m} : migration'[n] = migration[n]
  BY <1>1, <1>6 DEF Ends
<1>8. MigrationTypes'
  BY <1>1, <1>6, <1>7 DEF ProcessTypes, MigrationTypes, Ends, MigrationStages
<1>9. \A n \in Migrators : migration'[n].pc \notin {"locked", "recording"}
  BY <1>1, <1>7 DEF MigrationRight, OneWriter
<1>10. MigrationRight' BY <1>9 DEF MigrationRight, TxnRight, OneWriter
<1>11. UNCHANGED history BY DEF Commits
<1>12. CASE database.versions = {1} /\ txn = Begun(database)
  <2>1. /\ database'.relay = database.relay /\ database'.indexes = database.indexes /\ database'.odd = database.odd
        /\ database'.marker = database.marker /\ database'.revision = database.revision
        /\ database'.rows = database.rows /\ database'.versions = {1} /\ database'.whole = database.whole
        /\ database'.ledgerTable = TRUE
    BY <1>1, <1>3, <1>12 DEF Begun, Database
  <2>2. SchemaRight' BY <1>11, <1>12, <2>1 DEF SchemaRight, MigrationWhole
  <2>3. ValidSchema(database) => ValidSchema(database') BY <2>1 DEF ValidSchema
  <2> QED BY <1>5, <1>8, <1>10, <2>2, <2>3
<1>13. CASE 1 \notin database.versions /\ MayAdopt(database) /\ txn = Adopted(Begun(database))
  <2>1. /\ database'.relay = "all" /\ database'.indexes = TRUE /\ database'.marker = "zero_based_v1"
        /\ database'.revision = IF database.revision = "none" THEN "zero" ELSE database.revision
        /\ database'.rows = database.rows /\ database'.versions = database.versions \cup {1}
    BY <1>1, <1>3, <1>13 DEF Begun, Adopted, Database
  <2>2. SchemaRight'
    BY <1>3, <1>11, <1>13, <2>1 DEF SchemaRight, MigrationWhole, MayAdopt, Database
  <2>3. ~ValidSchema(database) BY <1>13 DEF ValidSchema
  <2> QED BY <1>5, <1>8, <1>10, <2>2, <2>3
<1> QED BY <1>2, <1>12, <1>13 DEF Recorded

(* Every step of a migration.                                              *)
LEMMA MigratorSteps ==
  ASSUME ProcessTypes, MigrationRight, SchemaRight, NEW m \in Migrators,
         Opens(m) \/ Locks(m) \/ Migrates(m) \/ Commits(m) \/ Checks(m) \/ MigrationDies(m)
  PROVE  /\ database' \in Database /\ MigrationTypes' /\ MigrationRight' /\ SchemaRight'
         /\ ValidSchema(database) => ValidSchema(database')
         /\ UNCHANGED <<process, request, systemd, setting, history>>
<1>1. UNCHANGED <<process, request, systemd, setting, history>>
  BY DEF Opens, Locks, Migrates, Commits, Checks, MigrationDies, ProcessRest
<1>2. CASE Commits(m) BY <1>1, <1>2, MigratorCommits
<1>3. CASE Opens(m) \/ Locks(m) \/ Migrates(m) \/ Checks(m) \/ MigrationDies(m)
  <2>1. UNCHANGED database BY <1>3 DEF Opens, Locks, Migrates, Checks, MigrationDies
  <2>2. DOMAIN migration[m] = {"pc", "txn"} /\ migration[m].pc \in MigrationStages
    BY DEF ProcessTypes
  <2>10. SchemaRight' BY <1>1, <2>1 DEF SchemaRight, MigrationWhole
  <2>11. database' \in Database BY <2>1 DEF ProcessTypes
  <2> SUFFICES MigrationTypes' /\ MigrationRight' BY <1>1, <2>1, <2>10, <2>11
  <2>3. ASSUME NEW pc \in MigrationStages \ {"locked", "recording"}, migration' = Ends(m, pc)
        PROVE  MigrationTypes' /\ MigrationRight'
    <3> DEFINE e == [pc |-> pc, txn |-> NoTxn]
    <3>1. migration' = [migration EXCEPT ![m] = e] /\ DOMAIN e = {"pc", "txn"} /\ e.pc = pc
      BY <2>3 DEF Ends
    <3> HIDE DEF e
    <3> QED BY <2>1, <3>1, MigratorMoves
  <2>4. ASSUME NEW pc \in MigrationStages \ {"locked", "recording"}, migration' = MigrationStage(m, pc)
        PROVE  MigrationTypes' /\ MigrationRight'
    <3>1. PICK e : e = [migration[m] EXCEPT !.pc = pc]
      OBVIOUS
    <3>2. migration' = [migration EXCEPT ![m] = e] /\ DOMAIN e = {"pc", "txn"} /\ e.pc = pc
      BY <2>2, <2>4, <3>1 DEF MigrationStage
    <3> QED BY <2>1, <3>2, MigratorMoves
  <2>5. CASE Opens(m) BY <2>4, <2>5 DEF Opens, MigrationStages
  <2>6. CASE Locks(m)
    <3>1. CASE LockHeld BY <2>4, <2>6, <3>1 DEF Locks, MigrationStages
    <3>2. CASE ~LockHeld
      <4> DEFINE e == [pc |-> "locked", txn |-> Begun(database)]
      <4>1. migration' = [migration EXCEPT ![m] = e] /\ DOMAIN e = {"pc", "txn"} /\ e.pc = "locked" /\ e.txn = Begun(database)
        BY <2>6, <3>2 DEF Locks, Begun
      <4> HIDE DEF e
      <4> QED BY <2>1, <3>2, <4>1, MigratorMoves DEF MigrationStages
    <3> QED BY <3>1, <3>2
  <2>7. CASE Migrates(m)
    <3> DEFINE data == migration[m].txn
    <3>1. migration[m].pc = "locked" /\ data = Begun(database)
      BY <2>7 DEF Migrates, MigrationRight, TxnRight
    <3>2. /\ data.versions = database.versions /\ (MayAdopt(data) <=> MayAdopt(database))
          /\ database.versions \subseteq Int
      BY <3>1 DEF Begun, MayAdopt, ProcessTypes, Database
    <3>3. CASE \E v \in data.versions : v < 1 \/ v > 1
      BY <2>3, <2>7, <3>3 DEF Migrates, MigrationStages
    <3>4. CASE ~(\E v \in data.versions : v < 1 \/ v > 1) /\ 1 \in data.versions
      <4>1. database.versions = {1} BY <3>2, <3>4
      <4>2. PICK e : e = [migration[m] EXCEPT !.pc = "recording"]
        OBVIOUS
      <4>3. migration' = [migration EXCEPT ![m] = e]
        BY <2>7, <3>4, <4>2 DEF Migrates, MigrationStage
      <4>4. DOMAIN e = {"pc", "txn"} /\ e.pc = "recording" /\ e.txn = Begun(database)
        BY <2>2, <3>1, <4>2
      <4> QED
        BY <2>1, <3>1, <4>1, <4>3, <4>4, MigratorMoves DEF Recorded, MigrationStages
    <3>5. CASE ~(\E v \in data.versions : v < 1 \/ v > 1) /\ 1 \notin data.versions /\ MayAdopt(data)
      <4> DEFINE e == [pc |-> "recording", txn |-> Adopted(Begun(database))]
      <4>1. migration' = [migration EXCEPT ![m] = e] BY <2>7, <3>1, <3>5 DEF Migrates
      <4>2. DOMAIN e = {"pc", "txn"} /\ e.pc = "recording" /\ e.txn = Adopted(Begun(database))
        OBVIOUS
      <4> HIDE DEF e
      <4>3. Recorded(e.txn) BY <3>2, <3>5, <4>2 DEF Recorded
      <4> QED BY <2>1, <3>1, <4>1, <4>2, <4>3, MigratorMoves DEF MigrationStages
    <3>6. CASE ~(\E v \in data.versions : v < 1 \/ v > 1) /\ 1 \notin data.versions /\ ~MayAdopt(data)
      BY <2>3, <2>7, <3>6 DEF Migrates, MigrationStages
    <3> QED BY <3>3, <3>4, <3>5, <3>6
  <2>8. CASE Checks(m)
    <3>1. PICK pc \in {"done", "failed"} : migration' = Ends(m, pc) BY <2>8 DEF Checks
    <3> QED BY <2>3, <3>1 DEF MigrationStages
  <2>9. CASE MigrationDies(m) BY <2>3, <2>9 DEF MigrationDies, MigrationStages
  <2> QED BY <1>3, <2>5, <2>6, <2>7, <2>8, <2>9
<1> QED BY <1>2, <1>3
(* The state of the service, its requests and systemd.                     *)
ServiceTypes ==
  /\ process \in ServiceProcess
  /\ request \in [Clients -> RequestStages]
  /\ systemd \in [state : {"inactive", "starting", "running", "stopping"}, since : Nat, launches : Nat]
  /\ setting \in [deadline : Deadlines, listeners : SUBSET {"main", "admin"}]
  /\ history \in [first : Database, missed : BOOLEAN, unhealthy : Nat, held : Nat]
ServiceParts == ServiceRight /\ StageRight /\ HealthRight /\ BeatRight
ServiceHolds == ServiceTypes /\ ServiceParts
ServiceState == <<process, request, systemd, setting, history>>

(* Whatever ends the process leaves nothing of it.                         *)
LEMMA ServiceExits ==
  ASSUME ProcessTypes, Exits, UNCHANGED setting
  PROVE  ServiceHolds'
<1>1. /\ process' = Down /\ request' = [c \in Clients |-> ""]
      /\ systemd' = [systemd EXCEPT !.state = "inactive", !.since = 0]
      /\ history' = [history EXCEPT !.missed = FALSE, !.unhealthy = 0, !.held = 0] /\ setting' = setting
  BY DEF Exits
<1>2. ServiceTypes'
  BY <1>1 DEF ProcessTypes, ServiceTypes, RequestStages, ServiceProcess, ProcessStages, Down
<1>3. /\ process'.pc = "down" /\ process'.notify = "none" /\ process'.listening = {} /\ ~process'.heard /\ ~process'.publishing
      /\ process'.age = 0
      /\ systemd'.state = "inactive" /\ systemd'.since = 0 /\ history'.unhealthy = 0
  BY <1>1 DEF ProcessTypes, Down
<1>4. ServiceRight' BY <1>1, <1>3 DEF ServiceRight, Up
<1>5. StageRight' BY <1>3 DEF StageRight
<1>8. ~IsHealthy' BY <1>1 DEF Down, IsHealthy
<1>9. setting'.deadline \in Nat /\ NotifyLimit \in {1, 2} BY <1>1, Period
<1>6. HealthRight' BY <1>3, <1>8, <1>9 DEF HealthRight
<1>7. BeatRight'
  <2>1. process'.timer = 0 /\ TimerPeriod' \in Nat BY <1>1, Period DEF Down, TimerPeriod
  <2> QED BY <1>3, <2>1 DEF BeatRight
<1> QED BY <1>2, <1>4, <1>5, <1>6, <1>7 DEF ServiceHolds, ServiceParts

(* What leaves the service as it is.                                       *)
LEMMA ServiceStays ==
  ASSUME ProcessTypes, ServiceHolds, ValidSchema(database) => ValidSchema(database'), UNCHANGED ServiceState
  PROVE  ServiceHolds'
<1>1. /\ process' = process /\ request' = request /\ systemd' = systemd /\ setting' = setting /\ history' = history
  BY DEF ServiceState
<1>2. ServiceTypes' BY <1>1 DEF ServiceHolds, ServiceTypes
<1>3. ServiceRight' BY <1>1 DEF ServiceHolds, ServiceParts, ServiceRight, Up
<1>4. StageRight' BY <1>1 DEF ServiceHolds, ServiceParts, StageRight, Up, Watched
<1>5. HealthRight' BY <1>1 DEF ServiceHolds, ServiceParts, HealthRight, IsHealthy
<1>6. BeatRight' BY <1>1 DEF ServiceHolds, ServiceParts, BeatRight, TimerPeriod
<1> QED BY <1>2, <1>3, <1>4, <1>5, <1>6 DEF ServiceHolds, ServiceParts

(* Its start.                                                              *)
LEMMA ServiceLaunches ==
  ASSUME ProcessTypes, ServiceHolds, Launches,
         ValidSchema(database) => ValidSchema(database')
  PROVE  ServiceHolds'
<1>1. ServiceTypes /\ ServiceRight /\ StageRight /\ HealthRight /\ BeatRight
  BY DEF ServiceHolds, ServiceParts
<1>2. /\ TimerPeriod \in Nat /\ NotifyLimit \in {1, 2} /\ setting.deadline \in Nat
      /\ history.unhealthy \in Nat /\ systemd.since \in Nat
      /\ process.age \in Nat /\ process.timer \in Nat /\ process.refresh \in Nat /\ systemd.launches \in Nat
      /\ history.held \in Nat /\ process.hold \in Nat
  BY <1>1, Period DEF ServiceTypes, ServiceProcess
<1>3. /\ process'.pc = "booting" /\ process'.listening = {} /\ process'.healthy = FALSE
      /\ process'.stopped = FALSE /\ process'.notify = "none" /\ process'.age = 0
      /\ process'.timer = 0 /\ process'.refresh = 0
      /\ systemd'.state = "starting" /\ systemd'.since = 0
      /\ process'.heard <=> FALSE
      /\ process'.publishing <=> FALSE
      /\ history'.missed <=> history.missed
      /\ history'.unhealthy = history.unhealthy /\ history'.held = history.held
      /\ request' = request
  BY <1>1, <1>2 DEF Launches, Down, ServiceTypes, ServiceProcess, MigratorRest
<1>4. setting' = setting /\ TimerPeriod' = TimerPeriod
  BY DEF Launches, TimerPeriod, MigratorRest
<1>5. ServiceTypes'
  <2>1. process' \in ServiceProcess
    BY <1>1, <1>2, ProcessAssumption DEF Launches, Down, MigratorRest, ServiceTypes, ServiceProcess, ProcessStages
  <2>2. systemd' \in [state : {"inactive", "starting", "running", "stopping"}, since : Nat, launches : Nat]
    <3>1. systemd' = [state |-> "starting", since |-> 0, launches |-> systemd.launches + 1]
      BY DEF Launches
    <3>2. systemd.launches + 1 \in Nat BY <1>2
    <3> QED BY <3>1, <3>2
  <2>3. history' \in [first : Database, missed : BOOLEAN, unhealthy : Nat, held : Nat]
    BY <1>1, <1>2 DEF Launches, Down, MigratorRest, ServiceTypes
  <2> QED BY <1>1, <1>3, <1>4, <2>1, <2>2, <2>3 DEF ServiceTypes
<1>10. systemd.state = "inactive" BY DEF Launches
<1>6. ServiceRight'
  BY <1>1, <1>3, <1>4, <1>10 DEF ServiceRight, StageRight, Up, ServiceTypes
<1>7. StageRight'
  BY <1>1, <1>2, <1>3, <1>4, <1>10 DEF StageRight, ServiceRight, Up, Watched
<1>8. HealthRight'
  BY <1>1, <1>2, <1>3, <1>4, <1>10 DEF HealthRight, StageRight, IsHealthy
<1>9. BeatRight' BY <1>1, <1>2, <1>3, <1>4, <1>10 DEF BeatRight, StageRight, Up, Watched
<1> QED BY <1>5, <1>6, <1>7, <1>8, <1>9 DEF ServiceHolds, ServiceParts

(* A publication.                                                          *)
LEMMA ServicePublishes ==
  ASSUME ProcessTypes, ServiceHolds, Publishes,
         ValidSchema(database) => ValidSchema(database')
  PROVE  ServiceHolds'
<1>1. ServiceTypes /\ ServiceRight /\ StageRight /\ HealthRight /\ BeatRight
  BY DEF ServiceHolds, ServiceParts
<1>2. /\ TimerPeriod \in Nat /\ NotifyLimit \in {1, 2} /\ setting.deadline \in Nat
      /\ history.unhealthy \in Nat /\ systemd.since \in Nat
      /\ process.age \in Nat /\ process.timer \in Nat /\ process.refresh \in Nat /\ systemd.launches \in Nat
      /\ history.held \in Nat /\ process.hold \in Nat
  BY <1>1, Period DEF ServiceTypes, ServiceProcess
<1>0. PICK ok \in BOOLEAN : process' = [process EXCEPT !.healthy = ok, !.refresh = RefreshTime, !.publishing = FALSE, !.hold = 0]
                           /\ history' = [history EXCEPT !.unhealthy = IF ok THEN 0 ELSE @]
  BY DEF Publishes
<1>3. /\ process'.pc = process.pc /\ process'.listening = process.listening /\ process'.healthy = ok
      /\ process'.stopped = process.stopped /\ process'.notify = process.notify
      /\ process'.age = process.age /\ process'.timer = process.timer
      /\ process'.refresh = RefreshTime
      /\ systemd'.state = systemd.state /\ systemd'.since = systemd.since
      /\ process'.heard <=> process.heard
      /\ process'.publishing <=> FALSE
      /\ history'.missed <=> history.missed
      /\ history'.unhealthy = (IF ok THEN 0 ELSE history.unhealthy) /\ history'.held = history.held
      /\ request' = request
  BY <1>1, <1>2, <1>0 DEF Publishes, ServiceTypes, ServiceProcess, MigratorRest
<1>4. setting' = setting /\ TimerPeriod' = TimerPeriod
  BY DEF Publishes, TimerPeriod, MigratorRest
<1>5. ServiceTypes'
  <2>1. process' \in ServiceProcess
    BY <1>1, <1>2, <1>0, ProcessAssumption DEF Publishes, MigratorRest, ServiceTypes, ServiceProcess, ProcessStages
  <2>2. systemd' \in [state : {"inactive", "starting", "running", "stopping"}, since : Nat, launches : Nat]
    BY <1>1, <1>2, <1>0 DEF Publishes, MigratorRest, ServiceTypes
  <2>3. history' \in [first : Database, missed : BOOLEAN, unhealthy : Nat, held : Nat]
    BY <1>1, <1>2, <1>0 DEF Publishes, MigratorRest, ServiceTypes
  <2> QED BY <1>1, <1>3, <1>4, <2>1, <2>2, <2>3 DEF ServiceTypes
<1>6. ServiceRight' BY <1>1, <1>3, <1>4 DEF ServiceRight, StageRight, Up, ServiceTypes
<1>7. StageRight' BY <1>1, <1>2, <1>3, <1>4 DEF StageRight, ServiceRight, Up, Watched
<1>8. HealthRight' BY <1>1, <1>2, <1>3, <1>4 DEF HealthRight, StageRight, IsHealthy
<1>9. BeatRight' BY <1>1, <1>2, <1>3, <1>4 DEF BeatRight, StageRight, Up, Watched
<1> QED BY <1>5, <1>6, <1>7, <1>8, <1>9 DEF ServiceHolds, ServiceParts

(* It loses its health.                                                    *)
LEMMA ServiceDisturbed ==
  ASSUME ProcessTypes, ServiceHolds, Disturbed,
         ValidSchema(database) => ValidSchema(database')
  PROVE  ServiceHolds'
<1>1. ServiceTypes /\ ServiceRight /\ StageRight /\ HealthRight /\ BeatRight
  BY DEF ServiceHolds, ServiceParts
<1>2. /\ TimerPeriod \in Nat /\ NotifyLimit \in {1, 2} /\ setting.deadline \in Nat
      /\ history.unhealthy \in Nat /\ systemd.since \in Nat
      /\ process.age \in Nat /\ process.timer \in Nat /\ process.refresh \in Nat /\ systemd.launches \in Nat
      /\ history.held \in Nat /\ process.hold \in Nat
  BY <1>1, Period DEF ServiceTypes, ServiceProcess
<1>3. /\ process'.pc = process.pc /\ process'.listening = process.listening
      /\ process'.healthy = FALSE /\ process'.stopped = process.stopped
      /\ process'.notify = process.notify /\ process'.age = process.age
      /\ process'.timer = process.timer /\ process'.refresh = process.refresh
      /\ systemd'.state = systemd.state /\ systemd'.since = systemd.since
      /\ process'.heard <=> process.heard
      /\ process'.publishing <=> process.publishing
      /\ history'.missed <=> history.missed
      /\ history'.unhealthy = history.unhealthy /\ history'.held = history.held
      /\ request' = request
  BY <1>1, <1>2 DEF Disturbed, ServiceTypes, ServiceProcess, MigratorRest
<1>4. setting' = setting /\ TimerPeriod' = TimerPeriod
  BY DEF Disturbed, TimerPeriod, MigratorRest
<1>5. ServiceTypes'
  <2>1. process' \in ServiceProcess
    BY <1>1, <1>2, ProcessAssumption DEF Disturbed, MigratorRest, ServiceTypes, ServiceProcess, ProcessStages
  <2>2. systemd' \in [state : {"inactive", "starting", "running", "stopping"}, since : Nat, launches : Nat]
    BY <1>1, <1>2 DEF Disturbed, MigratorRest, ServiceTypes
  <2>3. history' \in [first : Database, missed : BOOLEAN, unhealthy : Nat, held : Nat]
    BY <1>1, <1>2 DEF Disturbed, MigratorRest, ServiceTypes
  <2> QED BY <1>1, <1>3, <1>4, <2>1, <2>2, <2>3 DEF ServiceTypes
<1>6. ServiceRight' BY <1>1, <1>3, <1>4 DEF ServiceRight, StageRight, Up, ServiceTypes
<1>7. StageRight' BY <1>1, <1>2, <1>3, <1>4 DEF StageRight, ServiceRight, Up, Watched
<1>8. HealthRight' BY <1>1, <1>2, <1>3, <1>4 DEF HealthRight, StageRight, IsHealthy
<1>9. BeatRight' BY <1>1, <1>2, <1>3, <1>4 DEF BeatRight, StageRight, Up, Watched
<1> QED BY <1>5, <1>6, <1>7, <1>8, <1>9 DEF ServiceHolds, ServiceParts

(* A publication waits for the lock.                                       *)
LEMMA ServicePublishWaits ==
  ASSUME ProcessTypes, ServiceHolds, PublishWaits,
         ValidSchema(database) => ValidSchema(database')
  PROVE  ServiceHolds'
<1>1. ServiceTypes /\ ServiceRight /\ StageRight /\ HealthRight /\ BeatRight
  BY DEF ServiceHolds, ServiceParts
<1>2. /\ TimerPeriod \in Nat /\ NotifyLimit \in {1, 2} /\ setting.deadline \in Nat
      /\ history.unhealthy \in Nat /\ systemd.since \in Nat
      /\ process.age \in Nat /\ process.timer \in Nat /\ process.refresh \in Nat /\ systemd.launches \in Nat
      /\ history.held \in Nat /\ process.hold \in Nat
  BY <1>1, Period DEF ServiceTypes, ServiceProcess
<1>3. /\ process'.pc = process.pc /\ process'.listening = process.listening
      /\ process'.healthy = FALSE /\ process'.stopped = process.stopped
      /\ process'.notify = process.notify /\ process'.age = process.age
      /\ process'.timer = process.timer /\ process'.refresh = process.refresh
      /\ systemd'.state = systemd.state /\ systemd'.since = systemd.since
      /\ process'.heard <=> process.heard
      /\ process'.publishing <=> TRUE
      /\ history'.missed <=> history.missed
      /\ history'.unhealthy = history.unhealthy /\ history'.held = history.held
      /\ request' = request
  BY <1>1, <1>2 DEF PublishWaits, ServiceTypes, ServiceProcess, MigratorRest
<1>4. setting' = setting /\ TimerPeriod' = TimerPeriod
  BY DEF PublishWaits, TimerPeriod, MigratorRest
<1>5. ServiceTypes'
  <2>1. process' \in ServiceProcess
    BY <1>1, <1>2, ProcessAssumption DEF PublishWaits, MigratorRest, ServiceTypes, ServiceProcess, ProcessStages
  <2>2. systemd' \in [state : {"inactive", "starting", "running", "stopping"}, since : Nat, launches : Nat]
    BY <1>1, <1>2 DEF PublishWaits, MigratorRest, ServiceTypes
  <2>3. history' \in [first : Database, missed : BOOLEAN, unhealthy : Nat, held : Nat]
    BY <1>1, <1>2 DEF PublishWaits, MigratorRest, ServiceTypes
  <2> QED BY <1>1, <1>3, <1>4, <2>1, <2>2, <2>3 DEF ServiceTypes
<1>10. Up BY DEF PublishWaits, PublishDue, Up
<1>6. ServiceRight'
  BY <1>1, <1>3, <1>4, <1>10 DEF ServiceRight, StageRight, Up, ServiceTypes
<1>7. StageRight' BY <1>1, <1>2, <1>3, <1>4 DEF StageRight, ServiceRight, Up, Watched
<1>8. HealthRight' BY <1>1, <1>2, <1>3, <1>4 DEF HealthRight, StageRight, IsHealthy
<1>9. BeatRight' BY <1>1, <1>2, <1>3, <1>4 DEF BeatRight, StageRight, Up, Watched
<1> QED BY <1>5, <1>6, <1>7, <1>8, <1>9 DEF ServiceHolds, ServiceParts

(* systemd hears a notification.                                           *)
LEMMA ServiceHears ==
  ASSUME ProcessTypes, ServiceHolds, Hears,
         ValidSchema(database) => ValidSchema(database')
  PROVE  ServiceHolds'
<1>1. ServiceTypes /\ ServiceRight /\ StageRight /\ HealthRight /\ BeatRight
  BY DEF ServiceHolds, ServiceParts
<1>2. /\ TimerPeriod \in Nat /\ NotifyLimit \in {1, 2} /\ setting.deadline \in Nat
      /\ history.unhealthy \in Nat /\ systemd.since \in Nat
      /\ process.age \in Nat /\ process.timer \in Nat /\ process.refresh \in Nat /\ systemd.launches \in Nat
      /\ history.held \in Nat /\ process.hold \in Nat
  BY <1>1, Period DEF ServiceTypes, ServiceProcess
<1>3. /\ process'.pc = process.pc /\ process'.listening = process.listening
      /\ process'.healthy = process.healthy /\ process'.stopped = process.stopped
      /\ process'.notify = process.notify /\ process'.age = process.age
      /\ process'.timer = process.timer /\ process'.refresh = process.refresh
      /\ systemd'.state = (IF process.notify = "ready" /\ systemd.state = "starting" THEN "running" ELSE systemd.state)
      /\ systemd'.since = 0
      /\ process'.heard <=> TRUE
      /\ process'.publishing <=> process.publishing
      /\ history'.missed <=> FALSE
      /\ history'.unhealthy = history.unhealthy /\ history'.held = 0
      /\ request' = request
  BY <1>1, <1>2 DEF Hears, ServiceTypes, ServiceProcess, MigratorRest
<1>4. setting' = setting /\ TimerPeriod' = TimerPeriod
  BY DEF Hears, TimerPeriod, MigratorRest
<1>5. ServiceTypes'
  <2>1. process' \in ServiceProcess
    BY <1>1, <1>2, ProcessAssumption DEF Hears, MigratorRest, ServiceTypes, ServiceProcess, ProcessStages
  <2>2. systemd' \in [state : {"inactive", "starting", "running", "stopping"}, since : Nat, launches : Nat]
    BY <1>1, <1>2 DEF Hears, MigratorRest, ServiceTypes
  <2>3. history' \in [first : Database, missed : BOOLEAN, unhealthy : Nat, held : Nat]
    BY <1>1, <1>2 DEF Hears, MigratorRest, ServiceTypes
  <2> QED BY <1>1, <1>3, <1>4, <2>1, <2>2, <2>3 DEF ServiceTypes
<1>10. process.notify # "none" /\ ~process.heard BY DEF Hears
<1>6. ServiceRight' BY <1>1, <1>3, <1>4 DEF ServiceRight, StageRight, Up, ServiceTypes
<1>7. StageRight'
  BY <1>1, <1>2, <1>3, <1>4, <1>10 DEF StageRight, ServiceRight, Up, Watched
<1>8. HealthRight'
  BY <1>1, <1>2, <1>3, <1>4, <1>10 DEF HealthRight, StageRight, IsHealthy
<1>9. BeatRight' BY <1>1, <1>2, <1>3, <1>4, <1>10 DEF BeatRight, StageRight, Up, Watched
<1> QED BY <1>5, <1>6, <1>7, <1>8, <1>9 DEF ServiceHolds, ServiceParts

(* systemd has a signal sent.                                              *)
LEMMA ServiceTerminates ==
  ASSUME ProcessTypes, ServiceHolds, Terminates,
         ValidSchema(database) => ValidSchema(database')
  PROVE  ServiceHolds'
<1>1. ServiceTypes /\ ServiceRight /\ StageRight /\ HealthRight /\ BeatRight
  BY DEF ServiceHolds, ServiceParts
<1>2. /\ TimerPeriod \in Nat /\ NotifyLimit \in {1, 2} /\ setting.deadline \in Nat
      /\ history.unhealthy \in Nat /\ systemd.since \in Nat
      /\ process.age \in Nat /\ process.timer \in Nat /\ process.refresh \in Nat /\ systemd.launches \in Nat
      /\ history.held \in Nat /\ process.hold \in Nat
  BY <1>1, Period DEF ServiceTypes, ServiceProcess
<1>3. /\ process'.pc = process.pc /\ process'.listening = process.listening
      /\ process'.healthy = process.healthy /\ process'.stopped = process.stopped
      /\ process'.notify = process.notify /\ process'.age = process.age
      /\ process'.timer = process.timer /\ process'.refresh = process.refresh
      /\ systemd'.state = "stopping" /\ systemd'.since = systemd.since
      /\ process'.heard <=> process.heard
      /\ process'.publishing <=> process.publishing
      /\ history'.missed <=> history.missed
      /\ history'.unhealthy = history.unhealthy /\ history'.held = history.held
      /\ request' = request
  BY <1>1, <1>2 DEF Terminates, ServiceTypes, ServiceProcess, MigratorRest
<1>4. setting' = setting /\ TimerPeriod' = TimerPeriod
  BY DEF Terminates, TimerPeriod, MigratorRest
<1>5. ServiceTypes'
  <2>1. process' \in ServiceProcess
    BY <1>1, <1>2, ProcessAssumption DEF Terminates, MigratorRest, ServiceTypes, ServiceProcess, ProcessStages
  <2>2. systemd' \in [state : {"inactive", "starting", "running", "stopping"}, since : Nat, launches : Nat]
    BY <1>1, <1>2 DEF Terminates, MigratorRest, ServiceTypes
  <2>3. history' \in [first : Database, missed : BOOLEAN, unhealthy : Nat, held : Nat]
    BY <1>1, <1>2 DEF Terminates, MigratorRest, ServiceTypes
  <2> QED BY <1>1, <1>3, <1>4, <2>1, <2>2, <2>3 DEF ServiceTypes
<1>10. process.pc \notin {"down", "booting"} BY DEF Terminates
<1>6. ServiceRight' BY <1>1, <1>3, <1>4 DEF ServiceRight, StageRight, Up, ServiceTypes
<1>7. StageRight'
  BY <1>1, <1>2, <1>3, <1>4, <1>10 DEF StageRight, ServiceRight, Up, Watched
<1>8. HealthRight'
  BY <1>1, <1>2, <1>3, <1>4, <1>10 DEF HealthRight, StageRight, IsHealthy
<1>9. BeatRight' BY <1>1, <1>2, <1>3, <1>4, <1>10 DEF BeatRight, StageRight, Up, Watched
<1> QED BY <1>5, <1>6, <1>7, <1>8, <1>9 DEF ServiceHolds, ServiceParts

(* The timer of the watchdog fires.                                        *)
LEMMA ServiceBeats ==
  ASSUME ProcessTypes, ServiceHolds, Beats,
         ValidSchema(database) => ValidSchema(database')
  PROVE  ServiceHolds'
<1>1. ServiceTypes /\ ServiceRight /\ StageRight /\ HealthRight /\ BeatRight
  BY DEF ServiceHolds, ServiceParts
<1>2. /\ TimerPeriod \in Nat /\ NotifyLimit \in {1, 2} /\ setting.deadline \in Nat
      /\ history.unhealthy \in Nat /\ systemd.since \in Nat
      /\ process.age \in Nat /\ process.timer \in Nat /\ process.refresh \in Nat /\ systemd.launches \in Nat
      /\ history.held \in Nat /\ process.hold \in Nat
  BY <1>1, Period DEF ServiceTypes, ServiceProcess
<1>3. /\ process'.pc = process.pc /\ process'.listening = process.listening
      /\ process'.healthy = process.healthy /\ process'.stopped = process.stopped
      /\ process'.notify = (IF MayPulse THEN "beat" ELSE process.notify)
      /\ process'.age = (IF MayPulse THEN 0 ELSE process.age) /\ process'.timer = TimerPeriod
      /\ process'.refresh = process.refresh
      /\ systemd'.state = systemd.state /\ systemd'.since = systemd.since
      /\ process'.heard <=> (~MayPulse /\ process.heard)
      /\ process'.publishing <=> process.publishing
      /\ history'.missed <=> (history.missed \/ ~IsHealthy)
      /\ history'.unhealthy = history.unhealthy /\ history'.held = history.held
      /\ request' = request
  BY <1>1, <1>2 DEF Beats, Pulse, ServiceTypes, ServiceProcess, MigratorRest
<1>4. setting' = setting /\ TimerPeriod' = TimerPeriod
  BY DEF Beats, TimerPeriod, MigratorRest
<1>5. ServiceTypes'
  <2>1. process' \in ServiceProcess
    BY <1>1, <1>2, ProcessAssumption DEF Beats, Pulse, MigratorRest, ServiceTypes, ServiceProcess, ProcessStages
  <2>2. systemd' \in [state : {"inactive", "starting", "running", "stopping"}, since : Nat, launches : Nat]
    BY <1>1, <1>2 DEF Beats, Pulse, MigratorRest, ServiceTypes
  <2>3. history' \in [first : Database, missed : BOOLEAN, unhealthy : Nat, held : Nat]
    BY <1>1, <1>2 DEF Beats, Pulse, MigratorRest, ServiceTypes
  <2> QED BY <1>1, <1>3, <1>4, <2>1, <2>2, <2>3 DEF ServiceTypes
<1>10. /\ process.pc = "serving" /\ Watched /\ ~process.stopped /\ process.timer = 0
       /\ MayPulse <=> (process.notify = "none" /\ IsHealthy)
  BY DEF Beats, MayPulse
<1>6. ServiceRight'
  BY <1>1, <1>3, <1>4, <1>10 DEF ServiceRight, StageRight, Up, ServiceTypes
<1>7. StageRight'
  BY <1>1, <1>2, <1>3, <1>4, <1>10 DEF StageRight, ServiceRight, Up, Watched
<1>8. HealthRight'
  BY <1>1, <1>2, <1>3, <1>4, <1>10 DEF HealthRight, StageRight, IsHealthy
<1>9. BeatRight' BY <1>1, <1>2, <1>3, <1>4, <1>10 DEF BeatRight, StageRight, Up, Watched
<1> QED BY <1>5, <1>6, <1>7, <1>8, <1>9 DEF ServiceHolds, ServiceParts

(* The loop is told that systemd heard of it.                              *)
LEMMA ServiceNotifies ==
  ASSUME ProcessTypes, ServiceHolds, Notifies,
         ValidSchema(database) => ValidSchema(database')
  PROVE  ServiceHolds'
<1>1. ServiceTypes /\ ServiceRight /\ StageRight /\ HealthRight /\ BeatRight
  BY DEF ServiceHolds, ServiceParts
<1>2. /\ TimerPeriod \in Nat /\ NotifyLimit \in {1, 2} /\ setting.deadline \in Nat
      /\ history.unhealthy \in Nat /\ systemd.since \in Nat
      /\ process.age \in Nat /\ process.timer \in Nat /\ process.refresh \in Nat /\ systemd.launches \in Nat
      /\ history.held \in Nat /\ process.hold \in Nat
  BY <1>1, Period DEF ServiceTypes, ServiceProcess
<1>3. /\ process'.pc = (IF process.notify = "ready" /\ ~process.stopped THEN "serving" ELSE process.pc)
      /\ process'.listening = process.listening /\ process'.healthy = process.healthy
      /\ process'.stopped = process.stopped /\ process'.notify = "none" /\ process'.age = 0
      /\ process'.timer = (IF process.notify = "ready" THEN IF process.stopped THEN 0 ELSE TimerPeriod ELSE process.timer)
      /\ process'.refresh = process.refresh
      /\ systemd'.state = systemd.state /\ systemd'.since = systemd.since
      /\ process'.heard <=> FALSE
      /\ process'.publishing <=> process.publishing
      /\ history'.missed <=> history.missed
      /\ history'.unhealthy = history.unhealthy /\ history'.held = history.held
      /\ request' = request
  BY <1>1, <1>2 DEF Notifies, NotifyEnded, AfterStart, ServiceTypes, ServiceProcess, MigratorRest
<1>4. setting' = setting /\ TimerPeriod' = TimerPeriod
  BY DEF Notifies, TimerPeriod, MigratorRest
<1>5. ServiceTypes'
  <2>1. process' \in ServiceProcess
    BY <1>1, <1>2, ProcessAssumption DEF Notifies, NotifyEnded, AfterStart, MigratorRest, ServiceTypes, ServiceProcess, ProcessStages
  <2>2. systemd' \in [state : {"inactive", "starting", "running", "stopping"}, since : Nat, launches : Nat]
    BY <1>1, <1>2 DEF Notifies, NotifyEnded, AfterStart, MigratorRest, ServiceTypes
  <2>3. history' \in [first : Database, missed : BOOLEAN, unhealthy : Nat, held : Nat]
    BY <1>1, <1>2 DEF Notifies, NotifyEnded, AfterStart, MigratorRest, ServiceTypes
  <2> QED BY <1>1, <1>3, <1>4, <2>1, <2>2, <2>3 DEF ServiceTypes
<1>10. process.heard BY DEF Notifies
<1>6. ServiceRight'
  BY <1>1, <1>3, <1>4, <1>10 DEF ServiceRight, StageRight, Up, ServiceTypes
<1>7. StageRight'
  BY <1>1, <1>2, <1>3, <1>4, <1>10 DEF StageRight, ServiceRight, Up, Watched
<1>8. HealthRight'
  BY <1>1, <1>2, <1>3, <1>4, <1>10 DEF HealthRight, StageRight, IsHealthy
<1>9. BeatRight' BY <1>1, <1>2, <1>3, <1>4, <1>10 DEF BeatRight, StageRight, Up, Watched
<1> QED BY <1>5, <1>6, <1>7, <1>8, <1>9 DEF ServiceHolds, ServiceParts

(* It is told to stop.                                                     *)
LEMMA ServiceStops ==
  ASSUME ProcessTypes, ServiceHolds, Stops,
         ValidSchema(database) => ValidSchema(database')
  PROVE  ServiceHolds'
<1>1. ServiceTypes /\ ServiceRight /\ StageRight /\ HealthRight /\ BeatRight
  BY DEF ServiceHolds, ServiceParts
<1>2. /\ TimerPeriod \in Nat /\ NotifyLimit \in {1, 2} /\ setting.deadline \in Nat
      /\ history.unhealthy \in Nat /\ systemd.since \in Nat
      /\ process.age \in Nat /\ process.timer \in Nat /\ process.refresh \in Nat /\ systemd.launches \in Nat
      /\ history.held \in Nat /\ process.hold \in Nat
  BY <1>1, Period DEF ServiceTypes, ServiceProcess
<1>3. /\ process'.pc = process.pc /\ process'.listening = process.listening
      /\ process'.healthy = process.healthy /\ process'.stopped = TRUE
      /\ process'.notify = process.notify /\ process'.age = process.age /\ process'.timer = 0
      /\ process'.refresh = 0
      /\ systemd'.state = systemd.state /\ systemd'.since = systemd.since
      /\ process'.heard <=> process.heard
      /\ process'.publishing <=> process.publishing
      /\ history'.missed <=> history.missed
      /\ history'.unhealthy = history.unhealthy /\ history'.held = history.held
      /\ request' = request
  BY <1>1, <1>2 DEF Stops, ServiceTypes, ServiceProcess, MigratorRest
<1>4. setting' = setting /\ TimerPeriod' = TimerPeriod
  BY DEF Stops, TimerPeriod, MigratorRest
<1>5. ServiceTypes'
  <2>1. process' \in ServiceProcess
    BY <1>1, <1>2, ProcessAssumption DEF Stops, MigratorRest, ServiceTypes, ServiceProcess, ProcessStages
  <2>2. systemd' \in [state : {"inactive", "starting", "running", "stopping"}, since : Nat, launches : Nat]
    BY <1>1, <1>2 DEF Stops, MigratorRest, ServiceTypes
  <2>3. history' \in [first : Database, missed : BOOLEAN, unhealthy : Nat, held : Nat]
    BY <1>1, <1>2 DEF Stops, MigratorRest, ServiceTypes
  <2> QED BY <1>1, <1>3, <1>4, <2>1, <2>2, <2>3 DEF ServiceTypes
<1>10. process.pc \notin {"down", "booting"} BY DEF Stops
<1>6. ServiceRight'
  BY <1>1, <1>3, <1>4, <1>10 DEF ServiceRight, StageRight, Up, ServiceTypes
<1>7. StageRight'
  BY <1>1, <1>2, <1>3, <1>4, <1>10 DEF StageRight, ServiceRight, Up, Watched
<1>8. HealthRight'
  BY <1>1, <1>2, <1>3, <1>4, <1>10 DEF HealthRight, StageRight, IsHealthy
<1>9. BeatRight' BY <1>1, <1>2, <1>3, <1>4, <1>10 DEF BeatRight, StageRight, Up, Watched
<1> QED BY <1>5, <1>6, <1>7, <1>8, <1>9 DEF ServiceHolds, ServiceParts

(* A second passes.                                                        *)
LEMMA ServiceTicks ==
  ASSUME ProcessTypes, ServiceHolds, Second,
         ValidSchema(database) => ValidSchema(database')
  PROVE  ServiceHolds'
<1>1. ServiceTypes /\ ServiceRight /\ StageRight /\ HealthRight /\ BeatRight
  BY DEF ServiceHolds, ServiceParts
<1>2. /\ TimerPeriod \in Nat /\ NotifyLimit \in {1, 2} /\ setting.deadline \in Nat
      /\ history.unhealthy \in Nat /\ systemd.since \in Nat
      /\ process.age \in Nat /\ process.timer \in Nat /\ process.refresh \in Nat /\ systemd.launches \in Nat
      /\ history.held \in Nat /\ process.hold \in Nat
  BY <1>1, Period DEF ServiceTypes, ServiceProcess
<1>3. /\ process'.pc = process.pc /\ process'.listening = process.listening
      /\ process'.healthy = process.healthy /\ process'.stopped = process.stopped
      /\ process'.notify = process.notify
      /\ process'.age = (IF process.notify = "none" THEN 0 ELSE IF process.age < NotifyLimit THEN process.age + 1 ELSE NotifyLimit)
      /\ process'.timer = (IF process.timer = 0 THEN 0 ELSE process.timer - 1)
      /\ process'.refresh = (IF process.refresh = 0 THEN 0 ELSE process.refresh - 1)
      /\ systemd'.state = systemd.state
      /\ systemd'.since = (IF systemd.state = "running" /\ Watched THEN systemd.since + 1 ELSE 0)
      /\ process'.heard <=> process.heard
      /\ process'.publishing <=> process.publishing
      /\ history'.missed <=> history.missed
      /\ history'.unhealthy = (IF IsHealthy \/ ~(systemd.state = "running" /\ Watched) THEN 0
                               ELSE IF ~Free /\ process.notify # "none" /\ ~process.heard THEN history.unhealthy
                               ELSE history.unhealthy + 1)
      /\ history'.held = (IF ~(systemd.state = "running" /\ Watched) THEN 0 ELSE IF Free THEN history.held ELSE history.held + 1)
      /\ request' = request
  BY <1>1, <1>2 DEF Second, Less, ServiceTypes, ServiceProcess, MigratorRest
<1>4. setting' = setting /\ TimerPeriod' = TimerPeriod
  BY DEF Second, TimerPeriod, MigratorRest
<1>5. ServiceTypes'
  <2>1. process' \in ServiceProcess
    <3> DEFINE timer == Less(process.timer)
               refresh == Less(process.refresh)
               age == IF process.notify = "none" THEN 0 ELSE IF process.age < NotifyLimit THEN process.age + 1 ELSE NotifyLimit
               hold == IF Free THEN 0 ELSE process.hold + 1
    <3>1. timer \in Nat /\ refresh \in Nat /\ age \in Nat /\ hold \in Nat
      BY <1>2 DEF Less
    <3>2. process' = [process EXCEPT !.timer = timer, !.refresh = refresh, !.age = age, !.hold = hold]
      BY DEF Second
    <3> HIDE DEF timer, refresh, age, hold
    <3> QED BY <1>1, <3>1, <3>2 DEF ServiceTypes, ServiceProcess
  <2>2. systemd' \in [state : {"inactive", "starting", "running", "stopping"}, since : Nat, launches : Nat]
    <3>1. PICK since \in Nat : systemd' = [systemd EXCEPT !.since = since]
      BY <1>2 DEF Second
    <3> QED BY <1>1, <3>1 DEF ServiceTypes
  <2>3. history' \in [first : Database, missed : BOOLEAN, unhealthy : Nat, held : Nat]
    <3>0. history'.unhealthy \in Nat /\ history'.held \in Nat BY <1>2, <1>3
    <3>1. PICK u, h : history' = [history EXCEPT !.unhealthy = u, !.held = h]
      BY DEF Second
    <3>2. history'.unhealthy = u /\ history'.held = h BY <1>1, <3>1 DEF ServiceTypes
    <3> QED BY <1>1, <3>0, <3>1, <3>2 DEF ServiceTypes
  <2> QED BY <1>1, <1>3, <1>4, <2>1, <2>2, <2>3 DEF ServiceTypes
<1>10. /\ Free /\ process.pc = "serving" /\ Watched /\ ~process.stopped => process.timer # 0
       /\ Free => ~process.heard
       /\ Free /\ process.notify # "none" => process.age # NotifyLimit
       /\ systemd.state = "running" /\ Watched => systemd.since < setting.deadline
  <2>1. ~Due BY DEF Second
  <2> QED BY <1>2, <2>1 DEF Due, LoopDue, WatchdogExpired
<1>6. ServiceRight'
  BY <1>1, <1>3, <1>4, <1>10 DEF ServiceRight, StageRight, Up, ServiceTypes
<1>7. StageRight'
  BY <1>1, <1>2, <1>3, <1>4, <1>10 DEF StageRight, ServiceRight, Up, Watched
<1>8. HealthRight'
  BY <1>1, <1>2, <1>3, <1>4, <1>10 DEF HealthRight, StageRight, IsHealthy
<1>9. BeatRight'
  <2>1. process'.timer <= TimerPeriod' /\ (process.timer # 0 => process'.timer = process.timer - 1) /\ process'.timer <= process.timer
    BY <1>1, <1>2, <1>3, <1>4 DEF BeatRight
  <2> SUFFICES ASSUME systemd.state = "running", ~process.stopped, ~history.missed
               PROVE  /\ process.notify = "none" => systemd'.since + process'.timer <= TimerPeriod + history'.held
                      /\ process.notify # "none" /\ ~process.heard => systemd'.since <= TimerPeriod + process'.age + history'.held
                      /\ process.heard => systemd'.since <= history'.held
    BY <1>3, <1>4, <2>1 DEF BeatRight
  <2>2. Watched /\ (process.notify = "none" => process.pc = "serving")
    BY <1>1 DEF StageRight
  <2>3. systemd'.since = systemd.since + 1 /\ history'.held = IF Free THEN history.held ELSE history.held + 1
    BY <1>3, <2>2
  <2>4. CASE process.notify = "none"
    <3>1. systemd.since + process.timer <= TimerPeriod + history.held /\ ~process.heard /\ (Free => process.timer # 0)
      BY <1>1, <1>10, <2>2, <2>4 DEF BeatRight, StageRight
    <3>2. systemd'.since + process'.timer <= TimerPeriod + history'.held
      BY <1>2, <1>3, <2>1, <2>3, <3>1
    <3> QED BY <2>4, <3>1, <3>2
  <2>5. CASE process.notify # "none" /\ ~process.heard
    <3>1. systemd.since <= TimerPeriod + process.age + history.held /\ process.age <= NotifyLimit
      BY <1>1, <2>5 DEF BeatRight, HealthRight
    <3>2. systemd'.since <= TimerPeriod + process'.age + history'.held
      BY <1>2, <1>3, <1>10, <2>3, <2>5, <3>1
    <3> QED BY <2>5, <3>2
  <2>6. CASE process.heard
    <3>1. systemd.since <= history.held /\ ~Free /\ process.notify # "none"
      BY <1>1, <1>10, <2>6 DEF BeatRight, StageRight
    <3>2. systemd'.since <= history'.held BY <1>2, <2>3, <3>1
    <3> QED BY <2>6, <3>1, <3>2
  <2> QED BY <2>4, <2>5, <2>6
<1> QED BY <1>5, <1>6, <1>7, <1>8, <1>9 DEF ServiceHolds, ServiceParts

(* It has checked the schema and its settings, and published.              *)
LEMMA ServiceListening ==
  ASSUME ProcessTypes, ServiceHolds, process.pc = "booting", setting.deadline \notin {1, 2}, ValidSchema(database'),
         process' = [process EXCEPT !.pc = "listening", !.healthy = TRUE, !.refresh = RefreshTime],
         UNCHANGED <<request, systemd, history, setting>>,
         ValidSchema(database) => ValidSchema(database')
  PROVE  ServiceHolds'
<1>1. ServiceTypes /\ ServiceRight /\ StageRight /\ HealthRight /\ BeatRight
  BY DEF ServiceHolds, ServiceParts
<1>2. /\ TimerPeriod \in Nat /\ NotifyLimit \in {1, 2} /\ setting.deadline \in Nat
      /\ history.unhealthy \in Nat /\ systemd.since \in Nat
      /\ process.age \in Nat /\ process.timer \in Nat /\ process.refresh \in Nat /\ systemd.launches \in Nat
      /\ history.held \in Nat /\ process.hold \in Nat
  BY <1>1, Period DEF ServiceTypes, ServiceProcess
<1>3. /\ process'.pc = "listening" /\ process'.listening = process.listening
      /\ process'.healthy = TRUE /\ process'.stopped = process.stopped
      /\ process'.notify = process.notify /\ process'.age = process.age
      /\ process'.timer = process.timer /\ process'.refresh = RefreshTime
      /\ systemd'.state = systemd.state /\ systemd'.since = systemd.since
      /\ process'.heard <=> process.heard
      /\ process'.publishing <=> process.publishing
      /\ history'.missed <=> history.missed
      /\ history'.unhealthy = history.unhealthy /\ history'.held = history.held
      /\ request' = request
  BY <1>1, <1>2 DEF Watched, ServiceTypes, ServiceProcess, MigratorRest
<1>4. setting' = setting /\ TimerPeriod' = TimerPeriod
  BY DEF Watched, TimerPeriod, MigratorRest
<1>5. ServiceTypes'
  <2>1. process' \in ServiceProcess
    BY <1>1, <1>2, ProcessAssumption DEF Watched, MigratorRest, ServiceTypes, ServiceProcess, ProcessStages
  <2>2. systemd' \in [state : {"inactive", "starting", "running", "stopping"}, since : Nat, launches : Nat]
    BY <1>1, <1>2 DEF Watched, MigratorRest, ServiceTypes
  <2>3. history' \in [first : Database, missed : BOOLEAN, unhealthy : Nat, held : Nat]
    BY <1>1, <1>2 DEF Watched, MigratorRest, ServiceTypes
  <2> QED BY <1>1, <1>3, <1>4, <2>1, <2>2, <2>3 DEF ServiceTypes
<1>6. ServiceRight' BY <1>1, <1>3, <1>4 DEF ServiceRight, StageRight, Up, ServiceTypes
<1>7. StageRight' BY <1>1, <1>2, <1>3, <1>4 DEF StageRight, ServiceRight, Up, Watched
<1>8. HealthRight' BY <1>1, <1>2, <1>3, <1>4 DEF HealthRight, StageRight, IsHealthy
<1>9. BeatRight' BY <1>1, <1>2, <1>3, <1>4 DEF BeatRight, StageRight, Up, Watched
<1> QED BY <1>5, <1>6, <1>7, <1>8, <1>9 DEF ServiceHolds, ServiceParts

(* It opens a listener.                                                    *)
LEMMA ServiceListens ==
  ASSUME ProcessTypes, ServiceHolds, process.pc = "listening", NEW open \in SUBSET {"main", "admin"}, NEW pc \in {"listening", "announcing"},
         process' = [process EXCEPT !.listening = open, !.pc = pc],
         UNCHANGED <<request, systemd, history, setting>>,
         ValidSchema(database) => ValidSchema(database')
  PROVE  ServiceHolds'
<1>1. ServiceTypes /\ ServiceRight /\ StageRight /\ HealthRight /\ BeatRight
  BY DEF ServiceHolds, ServiceParts
<1>2. /\ TimerPeriod \in Nat /\ NotifyLimit \in {1, 2} /\ setting.deadline \in Nat
      /\ history.unhealthy \in Nat /\ systemd.since \in Nat
      /\ process.age \in Nat /\ process.timer \in Nat /\ process.refresh \in Nat /\ systemd.launches \in Nat
      /\ history.held \in Nat /\ process.hold \in Nat
  BY <1>1, Period DEF ServiceTypes, ServiceProcess
<1>3. /\ process'.pc = pc /\ process'.listening = open /\ process'.healthy = process.healthy
      /\ process'.stopped = process.stopped /\ process'.notify = process.notify
      /\ process'.age = process.age /\ process'.timer = process.timer
      /\ process'.refresh = process.refresh
      /\ systemd'.state = systemd.state /\ systemd'.since = systemd.since
      /\ process'.heard <=> process.heard
      /\ process'.publishing <=> process.publishing
      /\ history'.missed <=> history.missed
      /\ history'.unhealthy = history.unhealthy /\ history'.held = history.held
      /\ request' = request
  BY <1>1, <1>2 DEF Watched, ServiceTypes, ServiceProcess, MigratorRest
<1>4. setting' = setting /\ TimerPeriod' = TimerPeriod
  BY DEF Watched, TimerPeriod, MigratorRest
<1>5. ServiceTypes'
  <2>1. process' \in ServiceProcess
    BY <1>1, <1>2, ProcessAssumption DEF Watched, MigratorRest, ServiceTypes, ServiceProcess, ProcessStages
  <2>2. systemd' \in [state : {"inactive", "starting", "running", "stopping"}, since : Nat, launches : Nat]
    BY <1>1, <1>2 DEF Watched, MigratorRest, ServiceTypes
  <2>3. history' \in [first : Database, missed : BOOLEAN, unhealthy : Nat, held : Nat]
    BY <1>1, <1>2 DEF Watched, MigratorRest, ServiceTypes
  <2> QED BY <1>1, <1>3, <1>4, <2>1, <2>2, <2>3 DEF ServiceTypes
<1>6. ServiceRight' BY <1>1, <1>3, <1>4 DEF ServiceRight, StageRight, Up, ServiceTypes
<1>7. StageRight' BY <1>1, <1>2, <1>3, <1>4 DEF StageRight, ServiceRight, Up, Watched
<1>8. HealthRight' BY <1>1, <1>2, <1>3, <1>4 DEF HealthRight, StageRight, IsHealthy
<1>9. BeatRight' BY <1>1, <1>2, <1>3, <1>4 DEF BeatRight, StageRight, Up, Watched
<1> QED BY <1>5, <1>6, <1>7, <1>8, <1>9 DEF ServiceHolds, ServiceParts

(* Without systemd there is nothing to announce.                           *)
LEMMA ServiceUnwatched ==
  ASSUME ProcessTypes, ServiceHolds, process.pc = "announcing", process' = [process EXCEPT !.pc = "serving"],
         UNCHANGED <<request, systemd, history, setting>>,
         ValidSchema(database) => ValidSchema(database')
  PROVE  ServiceHolds'
<1>1. ServiceTypes /\ ServiceRight /\ StageRight /\ HealthRight /\ BeatRight
  BY DEF ServiceHolds, ServiceParts
<1>2. /\ TimerPeriod \in Nat /\ NotifyLimit \in {1, 2} /\ setting.deadline \in Nat
      /\ history.unhealthy \in Nat /\ systemd.since \in Nat
      /\ process.age \in Nat /\ process.timer \in Nat /\ process.refresh \in Nat /\ systemd.launches \in Nat
      /\ history.held \in Nat /\ process.hold \in Nat
  BY <1>1, Period DEF ServiceTypes, ServiceProcess
<1>3. /\ process'.pc = "serving" /\ process'.listening = process.listening
      /\ process'.healthy = process.healthy /\ process'.stopped = process.stopped
      /\ process'.notify = process.notify /\ process'.age = process.age
      /\ process'.timer = process.timer /\ process'.refresh = process.refresh
      /\ systemd'.state = systemd.state /\ systemd'.since = systemd.since
      /\ process'.heard <=> process.heard
      /\ process'.publishing <=> process.publishing
      /\ history'.missed <=> history.missed
      /\ history'.unhealthy = history.unhealthy /\ history'.held = history.held
      /\ request' = request
  BY <1>1, <1>2 DEF Watched, ServiceTypes, ServiceProcess, MigratorRest
<1>4. setting' = setting /\ TimerPeriod' = TimerPeriod
  BY DEF Watched, TimerPeriod, MigratorRest
<1>5. ServiceTypes'
  <2>1. process' \in ServiceProcess
    BY <1>1, <1>2, ProcessAssumption DEF Watched, MigratorRest, ServiceTypes, ServiceProcess, ProcessStages
  <2>2. systemd' \in [state : {"inactive", "starting", "running", "stopping"}, since : Nat, launches : Nat]
    BY <1>1, <1>2 DEF Watched, MigratorRest, ServiceTypes
  <2>3. history' \in [first : Database, missed : BOOLEAN, unhealthy : Nat, held : Nat]
    BY <1>1, <1>2 DEF Watched, MigratorRest, ServiceTypes
  <2> QED BY <1>1, <1>3, <1>4, <2>1, <2>2, <2>3 DEF ServiceTypes
<1>6. ServiceRight' BY <1>1, <1>3, <1>4 DEF ServiceRight, StageRight, Up, ServiceTypes
<1>7. StageRight' BY <1>1, <1>2, <1>3, <1>4 DEF StageRight, ServiceRight, Up, Watched
<1>8. HealthRight' BY <1>1, <1>2, <1>3, <1>4 DEF HealthRight, StageRight, IsHealthy
<1>9. BeatRight' BY <1>1, <1>2, <1>3, <1>4 DEF BeatRight, StageRight, Up, Watched
<1> QED BY <1>5, <1>6, <1>7, <1>8, <1>9 DEF ServiceHolds, ServiceParts

(* It tells systemd that it is ready.                                      *)
LEMMA ServiceAnnounces ==
  ASSUME ProcessTypes, ServiceHolds, process.pc = "announcing", Watched, process' = [Pulse("ready") EXCEPT !.pc = "ready"],
         UNCHANGED <<request, systemd, history, setting>>,
         ValidSchema(database) => ValidSchema(database')
  PROVE  ServiceHolds'
<1>1. ServiceTypes /\ ServiceRight /\ StageRight /\ HealthRight /\ BeatRight
  BY DEF ServiceHolds, ServiceParts
<1>2. /\ TimerPeriod \in Nat /\ NotifyLimit \in {1, 2} /\ setting.deadline \in Nat
      /\ history.unhealthy \in Nat /\ systemd.since \in Nat
      /\ process.age \in Nat /\ process.timer \in Nat /\ process.refresh \in Nat /\ systemd.launches \in Nat
      /\ history.held \in Nat /\ process.hold \in Nat
  BY <1>1, Period DEF ServiceTypes, ServiceProcess
<1>3. /\ process'.pc = "ready" /\ process'.listening = process.listening
      /\ process'.healthy = process.healthy /\ process'.stopped = process.stopped
      /\ process'.notify = "ready" /\ process'.age = 0 /\ process'.timer = process.timer
      /\ process'.refresh = process.refresh
      /\ systemd'.state = systemd.state /\ systemd'.since = systemd.since
      /\ process'.heard <=> FALSE
      /\ process'.publishing <=> process.publishing
      /\ history'.missed <=> history.missed
      /\ history'.unhealthy = history.unhealthy /\ history'.held = history.held
      /\ request' = request
  BY <1>1, <1>2 DEF Watched, Pulse, ServiceTypes, ServiceProcess, MigratorRest
<1>4. setting' = setting /\ TimerPeriod' = TimerPeriod
  BY DEF Watched, TimerPeriod, MigratorRest
<1>5. ServiceTypes'
  <2>1. process' \in ServiceProcess
    BY <1>1, <1>2, ProcessAssumption DEF Watched, Pulse, MigratorRest, ServiceTypes, ServiceProcess, ProcessStages
  <2>2. systemd' \in [state : {"inactive", "starting", "running", "stopping"}, since : Nat, launches : Nat]
    BY <1>1, <1>2 DEF Watched, Pulse, MigratorRest, ServiceTypes
  <2>3. history' \in [first : Database, missed : BOOLEAN, unhealthy : Nat, held : Nat]
    BY <1>1, <1>2 DEF Watched, Pulse, MigratorRest, ServiceTypes
  <2> QED BY <1>1, <1>3, <1>4, <2>1, <2>2, <2>3 DEF ServiceTypes
<1>6. ServiceRight' BY <1>1, <1>3, <1>4 DEF ServiceRight, StageRight, Up, ServiceTypes
<1>7. StageRight' BY <1>1, <1>2, <1>3, <1>4 DEF StageRight, ServiceRight, Up, Watched
<1>8. HealthRight' BY <1>1, <1>2, <1>3, <1>4 DEF HealthRight, StageRight, IsHealthy
<1>9. BeatRight' BY <1>1, <1>2, <1>3, <1>4 DEF BeatRight, StageRight, Up, Watched
<1> QED BY <1>5, <1>6, <1>7, <1>8, <1>9 DEF ServiceHolds, ServiceParts

(* A beat fails.                                                           *)
LEMMA ServiceMisses ==
  ASSUME ProcessTypes, ServiceHolds, process.notify = "beat", process' = NotifyEnded,
         history' = [history EXCEPT !.missed = @ \/ ~process.heard],
         UNCHANGED <<request, systemd, setting>>,
         ValidSchema(database) => ValidSchema(database')
  PROVE  ServiceHolds'
<1>1. ServiceTypes /\ ServiceRight /\ StageRight /\ HealthRight /\ BeatRight
  BY DEF ServiceHolds, ServiceParts
<1>2. /\ TimerPeriod \in Nat /\ NotifyLimit \in {1, 2} /\ setting.deadline \in Nat
      /\ history.unhealthy \in Nat /\ systemd.since \in Nat
      /\ process.age \in Nat /\ process.timer \in Nat /\ process.refresh \in Nat /\ systemd.launches \in Nat
      /\ history.held \in Nat /\ process.hold \in Nat
  BY <1>1, Period DEF ServiceTypes, ServiceProcess
<1>3. /\ process'.pc = process.pc /\ process'.listening = process.listening
      /\ process'.healthy = process.healthy /\ process'.stopped = process.stopped
      /\ process'.notify = "none" /\ process'.age = 0 /\ process'.timer = process.timer
      /\ process'.refresh = process.refresh
      /\ systemd'.state = systemd.state /\ systemd'.since = systemd.since
      /\ process'.heard <=> FALSE
      /\ process'.publishing <=> process.publishing
      /\ history'.missed <=> (history.missed \/ ~process.heard)
      /\ history'.unhealthy = history.unhealthy /\ history'.held = history.held
      /\ request' = request
  BY <1>1, <1>2 DEF Watched, NotifyEnded, ServiceTypes, ServiceProcess, MigratorRest
<1>4. setting' = setting /\ TimerPeriod' = TimerPeriod
  BY DEF Watched, TimerPeriod, MigratorRest
<1>5. ServiceTypes'
  <2>1. process' \in ServiceProcess
    BY <1>1, <1>2, ProcessAssumption DEF Watched, NotifyEnded, MigratorRest, ServiceTypes, ServiceProcess, ProcessStages
  <2>2. systemd' \in [state : {"inactive", "starting", "running", "stopping"}, since : Nat, launches : Nat]
    BY <1>1, <1>2 DEF Watched, MigratorRest, ServiceTypes
  <2>3. history' \in [first : Database, missed : BOOLEAN, unhealthy : Nat, held : Nat]
    BY <1>1, <1>2 DEF Watched, MigratorRest, ServiceTypes
  <2> QED BY <1>1, <1>3, <1>4, <2>1, <2>2, <2>3 DEF ServiceTypes
<1>6. ServiceRight' BY <1>1, <1>3, <1>4 DEF ServiceRight, StageRight, Up, ServiceTypes
<1>7. StageRight' BY <1>1, <1>2, <1>3, <1>4 DEF StageRight, ServiceRight, Up, Watched
<1>8. HealthRight' BY <1>1, <1>2, <1>3, <1>4 DEF HealthRight, StageRight, IsHealthy
<1>9. BeatRight' BY <1>1, <1>2, <1>3, <1>4 DEF BeatRight, StageRight, Up, Watched
<1> QED BY <1>5, <1>6, <1>7, <1>8, <1>9 DEF ServiceHolds, ServiceParts

(* A request arrives, goes on or ends.                                     *)
LEMMA ServiceRequests ==
  ASSUME ProcessTypes, ServiceHolds, NEW c \in Clients, NEW v \in RequestStages, v # "" => Up,
         request' = [request EXCEPT ![c] = v],
         UNCHANGED <<process, systemd, history, setting>>,
         ValidSchema(database) => ValidSchema(database')
  PROVE  ServiceHolds'
<1>1. ServiceTypes /\ ServiceRight /\ StageRight /\ HealthRight /\ BeatRight
  BY DEF ServiceHolds, ServiceParts
<1>2. /\ TimerPeriod \in Nat /\ NotifyLimit \in {1, 2} /\ setting.deadline \in Nat
      /\ history.unhealthy \in Nat /\ systemd.since \in Nat
      /\ process.age \in Nat /\ process.timer \in Nat /\ process.refresh \in Nat /\ systemd.launches \in Nat
      /\ history.held \in Nat /\ process.hold \in Nat
  BY <1>1, Period DEF ServiceTypes, ServiceProcess
<1>3. /\ process'.pc = process.pc /\ process'.listening = process.listening
      /\ process'.healthy = process.healthy /\ process'.stopped = process.stopped
      /\ process'.notify = process.notify /\ process'.age = process.age
      /\ process'.timer = process.timer /\ process'.refresh = process.refresh
      /\ systemd'.state = systemd.state /\ systemd'.since = systemd.since
      /\ process'.heard <=> process.heard
      /\ process'.publishing <=> process.publishing
      /\ history'.missed <=> history.missed
      /\ history'.unhealthy = history.unhealthy /\ history'.held = history.held
      /\ request' = [request EXCEPT ![c] = v]
  BY <1>1, <1>2 DEF Watched, ServiceTypes, ServiceProcess, MigratorRest
<1>4. setting' = setting /\ TimerPeriod' = TimerPeriod
  BY DEF Watched, TimerPeriod, MigratorRest
<1>5. ServiceTypes'
  <2>1. process' \in ServiceProcess
    BY <1>1, <1>2, ProcessAssumption DEF Watched, MigratorRest, ServiceTypes, ServiceProcess, ProcessStages
  <2>2. systemd' \in [state : {"inactive", "starting", "running", "stopping"}, since : Nat, launches : Nat]
    BY <1>1, <1>2 DEF Watched, MigratorRest, ServiceTypes
  <2>3. history' \in [first : Database, missed : BOOLEAN, unhealthy : Nat, held : Nat]
    BY <1>1, <1>2 DEF Watched, MigratorRest, ServiceTypes
  <2>4. request' \in [Clients -> RequestStages] BY <1>1 DEF ServiceTypes
  <2> QED BY <1>1, <1>4, <2>1, <2>2, <2>3, <2>4 DEF ServiceTypes
<1>6. ServiceRight'
  <2>1. Up' <=> Up BY <1>3 DEF Up
  <2>2. ASSUME NEW d \in Clients, request'[d] # "" PROVE Up
    <3>1. request'[d] = request[d] \/ request'[d] = v BY <1>1, <1>3 DEF ServiceTypes
    <3> QED BY <1>1, <2>2, <3>1 DEF ServiceRight
  <2>3. (Up => ValidSchema(database)) /\ (Up => setting.deadline \notin {1, 2}) /\ (process.listening # {} \/ process.publishing => Up)
    BY <1>1 DEF ServiceRight
  <2> QED BY <1>3, <1>4, <2>1, <2>2, <2>3 DEF ServiceRight
<1>7. StageRight' BY <1>1, <1>2, <1>3, <1>4 DEF StageRight, ServiceRight, Up, Watched
<1>8. HealthRight' BY <1>1, <1>2, <1>3, <1>4 DEF HealthRight, StageRight, IsHealthy
<1>9. BeatRight' BY <1>1, <1>2, <1>3, <1>4 DEF BeatRight, StageRight, Up, Watched
<1> QED BY <1>5, <1>6, <1>7, <1>8, <1>9 DEF ServiceHolds, ServiceParts

(* A request writes, or waits for the lock.                                *)
LEMMA ServiceHandles ==
  ASSUME ProcessTypes, ServiceHolds, NEW c \in Clients, NEW v \in RequestStages, Up,
         request' = [request EXCEPT ![c] = v],
         NEW ok \in BOOLEAN, NEW unhealthy, unhealthy = 0 \/ unhealthy = history.unhealthy, ok /\ ~process.healthy => unhealthy = 0,
         process' = [process EXCEPT !.healthy = ok, !.hold = 0], history' = [history EXCEPT !.unhealthy = unhealthy],
         UNCHANGED <<systemd, setting>>,
         ValidSchema(database) => ValidSchema(database')
  PROVE  ServiceHolds'
<1>1. ServiceTypes /\ ServiceRight /\ StageRight /\ HealthRight /\ BeatRight
  BY DEF ServiceHolds, ServiceParts
<1>2. /\ TimerPeriod \in Nat /\ NotifyLimit \in {1, 2} /\ setting.deadline \in Nat
      /\ history.unhealthy \in Nat /\ systemd.since \in Nat
      /\ process.age \in Nat /\ process.timer \in Nat /\ process.refresh \in Nat /\ systemd.launches \in Nat
      /\ history.held \in Nat /\ process.hold \in Nat
  BY <1>1, Period DEF ServiceTypes, ServiceProcess
<1>3. /\ process'.pc = process.pc /\ process'.listening = process.listening
      /\ process'.healthy = ok /\ process'.stopped = process.stopped
      /\ process'.notify = process.notify /\ process'.age = process.age
      /\ process'.timer = process.timer /\ process'.refresh = process.refresh
      /\ systemd'.state = systemd.state /\ systemd'.since = systemd.since
      /\ process'.heard <=> process.heard
      /\ process'.publishing <=> process.publishing
      /\ history'.missed <=> history.missed
      /\ history'.unhealthy = unhealthy /\ history'.held = history.held
      /\ request' = [request EXCEPT ![c] = v]
  BY <1>1, <1>2 DEF Watched, ServiceTypes, ServiceProcess, MigratorRest
<1>4. setting' = setting /\ TimerPeriod' = TimerPeriod
  BY DEF Watched, TimerPeriod, MigratorRest
<1>5. ServiceTypes'
  <2>1. process' \in ServiceProcess
    BY <1>1, <1>2, ProcessAssumption DEF Watched, MigratorRest, ServiceTypes, ServiceProcess, ProcessStages
  <2>2. systemd' \in [state : {"inactive", "starting", "running", "stopping"}, since : Nat, launches : Nat]
    BY <1>1, <1>2 DEF Watched, MigratorRest, ServiceTypes
  <2>3. history' \in [first : Database, missed : BOOLEAN, unhealthy : Nat, held : Nat]
    <3>1. unhealthy \in Nat BY <1>2
    <3> QED BY <1>1, <3>1 DEF ServiceTypes
  <2>4. request' \in [Clients -> RequestStages] BY <1>1 DEF ServiceTypes
  <2> QED BY <1>1, <1>4, <2>1, <2>2, <2>3, <2>4 DEF ServiceTypes
<1>10. unhealthy \in Nat /\ unhealthy <= history.unhealthy /\ (unhealthy = 0 \/ unhealthy = history.unhealthy)
  BY <1>2
<1>6. ServiceRight' BY <1>1, <1>3, <1>4 DEF ServiceRight, StageRight, Up, ServiceTypes
<1>7. StageRight' BY <1>1, <1>2, <1>3, <1>4 DEF StageRight, ServiceRight, Up, Watched
<1>8. HealthRight'
  <2>1. /\ history.unhealthy <= systemd.since + NotifyLimit
        /\ process.notify # "none" /\ ~process.heard => history.unhealthy <= process.age
        /\ process.age <= NotifyLimit /\ systemd.since <= setting.deadline
        /\ IsHealthy => history.unhealthy = 0
    BY <1>1 DEF HealthRight
  <2>2. IsHealthy' => unhealthy = 0 BY <1>2, <1>3, <1>4, <2>1 DEF IsHealthy
  <2>3. unhealthy <= systemd.since + NotifyLimit /\ (process.notify # "none" /\ ~process.heard => unhealthy <= process.age)
    BY <1>2, <1>10, <2>1
  <2> QED BY <1>3, <1>4, <2>1, <2>2, <2>3 DEF HealthRight
<1>9. BeatRight' BY <1>1, <1>2, <1>3, <1>4 DEF BeatRight, StageRight, Up, Watched
<1> QED BY <1>5, <1>6, <1>7, <1>8, <1>9 DEF ServiceHolds, ServiceParts

(* Every step of the service, of its requests and of systemd.              *)
ServiceAction ==
  \/ Launches \/ Boots \/ Listens \/ PublishWaits \/ Publishes \/ Disturbed
  \/ Announces \/ Hears \/ Notifies \/ NotifyFails \/ Beats
  \/ \E c \in Clients : Arrives(c) \/ AdminArrives(c) \/ Accepts(c) \/ Waits(c) \/ Handles(c) \/ RequestEnds(c)
  \/ Terminates \/ Stops \/ Drained \/ Kills \/ Dies \/ Second

(* It writes only what it may, keeps the migrations and their first        *)
(* database as they are, and holds what it must.                           *)
LEMMA FirstStays ==
  ASSUME ServiceTypes, ServiceAction
  PROVE  history'.first = history.first
<1>1. history \in [first : Database, missed : BOOLEAN, unhealthy : Nat, held : Nat]
  BY DEF ServiceTypes
<1>2. Exits => history'.first = history.first BY <1>1 DEF Exits
<1>3. CASE UNCHANGED history BY <1>3
<1>4. CASE Publishes BY <1>1, <1>4 DEF Publishes
<1>5. CASE Hears BY <1>1, <1>5 DEF Hears
<1>6. CASE NotifyFails BY <1>1, <1>2, <1>6 DEF NotifyFails
<1>7. CASE Beats BY <1>1, <1>7 DEF Beats
<1>8. CASE Second BY <1>1, <1>8 DEF Second
<1>9. CASE Boots \/ Listens \/ Announces \/ Drained \/ Kills \/ Dies
  BY <1>2, <1>3, <1>9 DEF Boots, Listens, Announces, Drained, Kills, Dies
<1>10. CASE Launches \/ PublishWaits \/ Disturbed \/ Notifies \/ Terminates \/ Stops
  BY <1>3, <1>10 DEF Launches, PublishWaits, Disturbed, Notifies, Terminates, Stops
<1>11. ASSUME NEW c \in Clients, Arrives(c) \/ AdminArrives(c) \/ Accepts(c) \/ Waits(c) \/ RequestEnds(c)
       PROVE  history'.first = history.first
  BY <1>3, <1>11 DEF Arrives, AdminArrives, Accepts, Waits, RequestEnds
<1>12. ASSUME NEW c \in Clients, Handles(c)
       PROVE  history'.first = history.first
  BY <1>1, <1>12 DEF Handles
<1> QED BY <1>4, <1>5, <1>6, <1>7, <1>8, <1>9, <1>10, <1>11, <1>12 DEF ServiceAction

LEMMA ServiceWritesRight ==
  ASSUME ServiceHolds, ServiceAction
  PROVE  Writes /\ UNCHANGED <<migration, setting>> /\ history'.first = history.first
<1>1. /\ ServiceTypes /\ (Up => ValidSchema(database))
      /\ (process.publishing => Up) /\ \A c \in Clients : request[c] # "" => Up
  BY DEF ServiceHolds, ServiceParts, ServiceRight
<1> SUFFICES Writes /\ UNCHANGED <<migration, setting>> BY <1>1, FirstStays
<1>2. UNCHANGED <<migration, setting>>
  <2>1. CASE \E c \in Clients : Arrives(c) \/ AdminArrives(c) \/ Accepts(c) \/ Waits(c) \/ Handles(c) \/ RequestEnds(c)
    BY <2>1 DEF Arrives, AdminArrives, Accepts, Waits, Handles, RequestEnds, MigratorRest
  <2>2. CASE Launches \/ Boots \/ Listens \/ PublishWaits \/ Publishes \/ Disturbed \/ Announces
    BY <2>2 DEF Launches, Boots, Listens, PublishWaits, Publishes, Disturbed, Announces, MigratorRest
  <2>3. CASE Hears \/ Notifies \/ NotifyFails \/ Beats \/ Terminates \/ Stops \/ Drained \/ Kills \/ Dies \/ Second
    BY <2>3 DEF Hears, Terminates, Notifies, NotifyFails, Beats, Stops, Drained, Kills, Dies, Second, MigratorRest
  <2> QED BY <2>1, <2>2, <2>3 DEF ServiceAction
<1>3. ASSUME NEW ok \in BOOLEAN, Published(ok), ValidSchema(database)
      PROVE  Writes
  BY <1>3 DEF Published, Writes
<1>4. UNCHANGED database => Writes BY DEF Writes
<1>5. CASE Boots
  <2>1. UNCHANGED database \/ (ValidSchema(database) /\ Published(TRUE))
    BY <1>5 DEF Boots
  <2> QED BY <1>2, <1>3, <1>4, <2>1
<1>6. CASE Publishes
  <2>1. PICK ok \in BOOLEAN : Published(ok) BY <1>6 DEF Publishes
  <2>2. Up BY <1>1, <1>6 DEF Publishes, PublishDue, Up
  <2> QED BY <1>1, <1>2, <1>3, <2>1, <2>2
<1>7. ASSUME NEW c \in Clients, Handles(c)
      PROVE  Writes
  BY <1>1, <1>7 DEF Handles, Writes
<1>8. CASE Launches \/ Listens \/ PublishWaits \/ Disturbed \/ Announces \/ Hears \/ Notifies \/ NotifyFails \/ Beats
  BY <1>2, <1>4, <1>8 DEF Launches, Listens, PublishWaits, Disturbed, Announces, Hears, Notifies, NotifyFails, Beats
<1>9. CASE Terminates \/ Stops \/ Drained \/ Kills \/ Dies \/ Second
  BY <1>2, <1>4, <1>9 DEF Terminates, Stops, Drained, Kills, Dies, Second
<1>10. ASSUME NEW c \in Clients, Arrives(c) \/ AdminArrives(c) \/ Accepts(c) \/ Waits(c) \/ RequestEnds(c)
       PROVE  Writes
  BY <1>4, <1>10 DEF Arrives, AdminArrives, Accepts, Waits, RequestEnds
<1> QED BY <1>2, <1>5, <1>6, <1>7, <1>8, <1>9, <1>10 DEF ServiceAction

LEMMA ServiceStepsRight ==
  ASSUME ProcessTypes, ServiceHolds, ServiceAction, ValidSchema(database) => ValidSchema(database')
  PROVE  ServiceHolds'
<1>1. UNCHANGED setting BY ServiceWritesRight
<1>2. Exits => ServiceHolds' BY <1>1, ServiceExits
<1>3. ServiceTypes /\ ServiceRight /\ StageRight BY DEF ServiceHolds, ServiceParts
<1>4. CASE Launches BY <1>4, ServiceLaunches
<1>5. CASE Boots
  <2>1. CASE Exits BY <1>2, <2>1
  <2>2. CASE ~Exits
    <3>1. /\ process.pc = "booting" /\ ValidSchema(database) /\ setting.deadline \notin {1, 2}
          /\ process' = [process EXCEPT !.pc = "listening", !.healthy = TRUE, !.refresh = RefreshTime]
          /\ UNCHANGED <<request, systemd, history>>
      BY <1>5, <2>2 DEF Boots
    <3> QED BY <1>1, <3>1, ServiceListening
  <2> QED BY <2>1, <2>2
<1>6. CASE Listens
  <2>1. CASE Exits BY <1>2, <2>1
  <2>2. CASE ~Exits
    <3> DEFINE open == process.listening \cup {IF process.listening = {} THEN "main" ELSE "admin"}
               pc == IF open = setting.listeners THEN "announcing" ELSE process.pc
    <3>1. process.pc = "listening" /\ process' = [process EXCEPT !.listening = open, !.pc = pc]
      BY <1>6, <2>2 DEF Listens
    <3>2. open \in SUBSET {"main", "admin"} /\ pc \in {"listening", "announcing"}
      BY <1>3, <3>1 DEF ServiceTypes, ServiceProcess
    <3>3. UNCHANGED <<request, systemd, history>> BY <1>6, <2>2 DEF Listens
    <3> HIDE DEF open, pc
    <3> QED BY <1>1, <3>1, <3>2, <3>3, ServiceListens
  <2> QED BY <2>1, <2>2
<1>7. CASE Publishes BY <1>7, ServicePublishes
<1>8. CASE Disturbed BY <1>8, ServiceDisturbed
<1>9. CASE Announces
  <2>1. CASE Exits BY <1>2, <2>1
  <2>2. CASE ~Exits /\ ~Watched
    <3>1. process.pc = "announcing" /\ process' = [process EXCEPT !.pc = "serving"] /\ UNCHANGED <<request, systemd, history>>
      BY <1>9, <2>2 DEF Announces
    <3> QED BY <1>1, <3>1, ServiceUnwatched
  <2>3. CASE ~Exits /\ Watched
    <3>1. /\ process.pc = "announcing" /\ process' = [Pulse("ready") EXCEPT !.pc = "ready"]
          /\ UNCHANGED <<request, systemd, history>>
      BY <1>9, <2>3 DEF Announces
    <3> QED BY <1>1, <2>3, <3>1, ServiceAnnounces
  <2> QED BY <2>1, <2>2, <2>3
<1>10. CASE Notifies BY <1>10, ServiceNotifies
<1>11. CASE NotifyFails
  <2>1. CASE Exits BY <1>2, <2>1
  <2>2. CASE ~Exits
    <3>1. /\ process.notify = "beat" /\ process' = NotifyEnded
          /\ history' = [history EXCEPT !.missed = @ \/ ~process.heard] /\ UNCHANGED <<request, systemd>>
      BY <1>11, <2>2 DEF NotifyFails
    <3> QED BY <1>1, <3>1, ServiceMisses
  <2> QED BY <2>1, <2>2
<1>12. CASE Beats BY <1>12, ServiceBeats
<1>13. ASSUME NEW c \in Clients, Arrives(c) \/ AdminArrives(c) \/ Accepts(c) \/ RequestEnds(c)
       PROVE  ServiceHolds'
  <2>1. UNCHANGED <<process, systemd, history>>
    BY <1>13 DEF Arrives, AdminArrives, Accepts, RequestEnds
  <2>2. (process.listening # {} => Up) /\ (request[c] # "" => Up)
    BY <1>3 DEF ServiceRight
  <2>3. PICK v \in RequestStages : request' = [request EXCEPT ![c] = v] /\ (v # "" => Up)
    BY <1>13, <2>2 DEF Arrives, AdminArrives, Accepts, RequestEnds, RequestStages
  <2> QED BY <1>1, <2>1, <2>3, ServiceRequests
<1>17. ASSUME NEW c \in Clients, Waits(c) \/ Handles(c)
       PROVE  ServiceHolds'
  <2>1. UNCHANGED <<systemd, setting>> BY <1>1, <1>17 DEF Waits, Handles
  <2>2. Up BY <1>3, <1>17 DEF ServiceRight, Waits, Handles
  <2>3. PICK v \in RequestStages : request' = [request EXCEPT ![c] = v]
    BY <1>17 DEF Waits, Handles, RequestStages
  <2>4. CASE Waits(c)
    <3>1. process' = [process EXCEPT !.hold = 0] /\ history' = history BY <2>4 DEF Waits
    <3>2. process.healthy \in BOOLEAN /\ process' = [process EXCEPT !.healthy = process.healthy, !.hold = 0]
      BY <1>3, <3>1 DEF ServiceTypes, ServiceProcess
    <3>3. history' = [history EXCEPT !.unhealthy = history.unhealthy]
      BY <1>3, <3>1 DEF ServiceTypes
    <3> QED BY <2>1, <2>2, <2>3, <3>2, <3>3, ServiceHandles
  <2>5. CASE Handles(c)
    <3>1. PICK ok \in BOOLEAN : /\ process' = [process EXCEPT !.healthy = ok, !.hold = 0]
                               /\ history' = [history EXCEPT !.unhealthy = IF ok /\ ~process.healthy THEN 0 ELSE @]
      BY <2>5 DEF Handles
    <3>2. PICK unhealthy : /\ unhealthy = 0 \/ unhealthy = history.unhealthy
                         /\ ok /\ ~process.healthy => unhealthy = 0
                         /\ history' = [history EXCEPT !.unhealthy = unhealthy]
      BY <3>1
    <3> QED BY <2>1, <2>2, <2>3, <3>1, <3>2, ServiceHandles
  <2> QED BY <1>17, <2>4, <2>5
<1>18. CASE PublishWaits BY <1>18, ServicePublishWaits
<1>19. CASE Hears BY <1>19, ServiceHears
<1>20. CASE Terminates BY <1>20, ServiceTerminates
<1>14. CASE Stops BY <1>14, ServiceStops
<1>15. CASE Drained \/ Kills \/ Dies BY <1>2, <1>15 DEF Drained, Kills, Dies
<1>16. CASE Second BY <1>16, ServiceTicks
<1> QED
  BY <1>4, <1>5, <1>6, <1>7, <1>8, <1>9, <1>10, <1>11, <1>12, <1>13, <1>14, <1>15, <1>16, <1>17, <1>18, <1>19, <1>20 DEF ServiceAction

LEMMA ProcessInitRight == ProcessInit => ProcessInv
<1> SUFFICES ASSUME ProcessInit PROVE ProcessInv
  OBVIOUS
<1>1. /\ database \in Database /\ history = [first |-> database, missed |-> FALSE, unhealthy |-> 0, held |-> 0]
      /\ migration = [m \in Migrators |-> [pc |-> "idle", txn |-> NoTxn]]
      /\ process = Down /\ request = [c \in Clients |-> ""]
      /\ systemd = [state |-> "inactive", since |-> 0, launches |-> 0]
      /\ setting \in [deadline : Deadlines, listeners : SUBSET {"main", "admin"}]
  BY ProcessAssumption DEF ProcessInit
<1>2. ProcessTypes
  BY <1>1 DEF ProcessTypes, RequestStages, MigrationStages, ServiceProcess, ProcessStages, Down
<1>3. /\ process.pc = "down" /\ process.notify = "none" /\ process.listening = {} /\ process.timer = 0
      /\ ~process.heard /\ ~process.publishing /\ process.age = 0
      /\ systemd.state = "inactive" /\ systemd.since = 0 /\ history.unhealthy = 0 /\ ~process.healthy
  BY <1>1 DEF Down
<1>4. \A m \in Migrators : TxnRight(m) BY <1>1 DEF TxnRight
<1>5. OneWriter BY <1>1 DEF OneWriter
<1>6. ServiceRight BY <1>1, <1>3 DEF ServiceRight, Up
<1>7. SchemaRight BY <1>1 DEF SchemaRight, MigrationWhole
<1>8. StageRight BY <1>3 DEF StageRight
<1>9. HealthRight BY <1>2, <1>3, Period DEF HealthRight, IsHealthy
<1>10. BeatRight BY <1>2, <1>3, Period DEF BeatRight
<1> QED BY <1>2, <1>4, <1>5, <1>6, <1>7, <1>8, <1>9, <1>10 DEF ProcessInv

LEMMA ProcessStep == ProcessInv /\ [ProcessNext]_controlProcessVars => ProcessInv'
<1> SUFFICES ASSUME ProcessInv, [ProcessNext]_controlProcessVars PROVE ProcessInv'
  OBVIOUS
<1>1. ProcessTypes /\ MigrationRight /\ SchemaRight /\ ServiceHolds
  BY DEF ProcessInv, MigrationRight, ServiceHolds, ServiceTypes, ServiceParts, ProcessTypes
<1>2. MigrationTypes BY <1>1 DEF ProcessTypes, MigrationTypes
<1>3. ASSUME database' \in Database, MigrationTypes', MigrationRight', SchemaRight', ServiceHolds'
      PROVE  ProcessInv'
  <2>1. ServiceTypes' BY <1>3 DEF ServiceHolds
  <2>2. ProcessTypes' BY <1>3, <2>1 DEF ServiceTypes, MigrationTypes, ProcessTypes
  <2> QED BY <1>3, <2>2 DEF ServiceHolds, ServiceParts, MigrationRight, ProcessInv
<1>4. ASSUME NEW m \in Migrators, Opens(m) \/ Locks(m) \/ Migrates(m) \/ Commits(m) \/ Checks(m) \/ MigrationDies(m)
      PROVE  ProcessInv'
  <2>1. /\ database' \in Database /\ MigrationTypes' /\ MigrationRight' /\ SchemaRight'
        /\ ValidSchema(database) => ValidSchema(database')
        /\ UNCHANGED ServiceState
    BY <1>1, <1>4, MigratorSteps DEF ServiceState
  <2>2. ServiceHolds' BY <1>1, <2>1, ServiceStays
  <2> QED BY <1>3, <2>1, <2>2
<1>5. CASE ServiceAction
  <2>1. Writes /\ UNCHANGED migration /\ history'.first = history.first
    BY <1>1, <1>5, ServiceWritesRight
  <2>2. /\ database' \in Database /\ MigrationRight' /\ SchemaRight'
        /\ ValidSchema(database) => ValidSchema(database')
    BY <1>1, <2>1, ServiceWrites
  <2>3. ServiceHolds' BY <1>1, <1>5, <2>2, ServiceStepsRight
  <2>4. MigrationTypes' BY <1>2, <2>1 DEF MigrationTypes
  <2> QED BY <1>3, <2>2, <2>3, <2>4
<1>6. CASE UNCHANGED controlProcessVars
  <2>1. UNCHANGED database /\ UNCHANGED migration /\ UNCHANGED history /\ UNCHANGED ServiceState
    BY <1>6 DEF controlProcessVars, ServiceState
  <2>2. MigrationTypes' /\ MigrationRight'
    BY <1>1, <1>2, <2>1, MigrationsAlone DEF MigrationTypes
  <2>3. SchemaRight' /\ database' \in Database
    BY <1>1, <2>1 DEF SchemaRight, MigrationWhole, ProcessTypes
  <2>4. ServiceHolds' BY <1>1, <2>1, ServiceStays
  <2> QED BY <1>3, <2>2, <2>3, <2>4
<1>7. (\E m \in Migrators : Opens(m) \/ Locks(m) \/ Migrates(m) \/ Commits(m) \/ Checks(m) \/ MigrationDies(m))
        \/ ServiceAction \/ UNCHANGED controlProcessVars
  BY DEF ProcessNext, ServiceAction
<1> QED BY <1>4, <1>5, <1>6, <1>7

LEMMA ProcessInvSafe == ProcessInv => ProcessSafe
<1> SUFFICES ASSUME ProcessInv PROVE ProcessSafe
  OBVIOUS
<1>1. ProcessTypes /\ ServiceRight /\ SchemaRight /\ StageRight /\ HealthRight /\ BeatRight
  BY DEF ProcessInv
<1>2. ServesValid BY <1>1 DEF ServesValid, ServiceRight
<1>3. MigrationWhole BY <1>1 DEF SchemaRight
<1>4. /\ TimerPeriod \in Nat /\ NotifyLimit \in {1, 2} /\ setting.deadline \in Nat
      /\ process.age \in Nat /\ process.timer \in Nat /\ systemd.since \in Nat /\ history.unhealthy \in Nat /\ history.held \in Nat
  BY <1>1, Period DEF ProcessTypes, ServiceProcess
<1>5. WatchdogTrue BY <1>1, <1>4 DEF WatchdogTrue, HealthRight
<1>6. HealthyKept
  <2> SUFFICES ASSUME WatchdogExpired, ~history.missed, ~TimedOut, ~process.stopped, ~HeldTooLong PROVE FALSE
    BY DEF HealthyKept
  <2>1. systemd.state = "running" /\ systemd.since >= setting.deadline
    BY DEF WatchdogExpired
  <2>2. history.held + TimerPeriod + NotifyLimit <= setting.deadline
    BY <1>4 DEF HeldTooLong
  <2>3. CASE process.notify = "none" BY <1>1, <1>4, <2>1, <2>2, <2>3 DEF BeatRight
  <2>4. CASE process.notify # "none" /\ ~process.heard
    <3>1. process.age <= NotifyLimit /\ process.age # NotifyLimit
      BY <1>1, <2>4 DEF HealthRight, TimedOut
    <3>2. systemd.since <= TimerPeriod + process.age + history.held
      BY <1>1, <2>1, <2>4 DEF BeatRight
    <3> QED BY <1>4, <2>1, <2>2, <3>1, <3>2
  <2>5. CASE process.heard BY <1>1, <1>4, <2>1, <2>2, <2>5 DEF BeatRight
  <2> QED BY <2>3, <2>4, <2>5
<1> QED BY <1>2, <1>3, <1>5, <1>6 DEF ProcessSafe

(* The service, its database and its watchdog keep what they promise       *)
(* (control/src/server): it serves a valid schema only, whatever a         *)
(* migration does beside it; a migration invents nothing for a database    *)
(* with data and leaves a whole schema or none; no beat stands for a       *)
(* health that is gone; and a healthy service is killed only after a       *)
(* notification that timed out, or if waits for a migration's lock left    *)
(* its timer less than a period and a notification of the watchdog time.   *)
THEOREM ProcessKept == ProcessSpec => []ProcessSafe
<1>1. ProcessInit => ProcessInv BY ProcessInitRight
<1>2. ProcessInv /\ [ProcessNext]_controlProcessVars => ProcessInv' BY ProcessStep
<1>3. ProcessInv => ProcessSafe BY ProcessInvSafe
<1> QED BY <1>1, <1>2, <1>3, PTL DEF ProcessSpec
=============================================================================
