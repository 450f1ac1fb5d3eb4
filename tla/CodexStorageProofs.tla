-------------------------- MODULE CodexStorageProofs --------------------------
(***************************************************************************)
(* Proofs about the storage checks of a Codex submission (CodexStorage)    *)
(* and about guided setup and its journal (SetupJournal).                  *)
(*                                                                         *)
(* The plan of a command is not computed: what is needed of it (every      *)
(* effect directly follows its last checks, after the version was asked    *)
(* for) holds of its parts and is kept when sequences are joined.          *)
(*                                                                         *)
(* Guided setup rests on SetupInv: who is past the start of a command      *)
(* holds the lock, a generated identity leaves a trace, and the journal    *)
(* says at each step of a command what it had done before that step.       *)
(***************************************************************************)
EXTENDS CodexStorage, SetupJournal, FiniteSetTheorems, SequenceTheorems, WellFoundedInduction, TLAPS

-----------------------------------------------------------------------------
JobFields == {"pc", "wake", "dry", "at", "ordinary"}
JobTyped ==
  /\ DOMAIN job = JobFields /\ job.wake \in BOOLEAN /\ job.dry \in BOOLEAN /\ job.ordinary \in BOOLEAN
  /\ job.pc \in {"idle", "runs", "refused", "over"} /\ job.at \in Nat

(* While nothing was edited since the last checks began, what they found   *)
(* still holds.                                                            *)
OfAt(n) == Plan[n].of
OrdinaryAt(n) == IF Plan[n].prefs = "plan" THEN job.ordinary ELSE Plan[n].prefs = "all"
StillPassed(n) ==
  \A at \in {"queue", "thread", "consumer"}, o \in BOOLEAN : at = OfAt(n) /\ o = OrdinaryAt(n) => ~Fails(at, o)
AtPlan == job.pc = "runs" => job.at \in 1 .. Len(Plan)
QueueStands ==
  job.pc = "runs" /\ late = {} =>
    \A n \in 1 .. Len(Plan) : n = job.at /\ n > 2 /\ OfAt(n - 2) = "last" /\ OfAt(n - 1) \in {"queue", "thread"}
      => StillPassed(n - 1)
BothStand ==
  job.pc = "runs" /\ late = {} =>
    \A n \in 1 .. Len(Plan) : /\ n = job.at /\ n > 3 /\ OfAt(n - 3) = "last" /\ OfAt(n - 2) = "queue"
                              /\ OfAt(n - 1) = "consumer"
      => StillPassed(n - 2) /\ StillPassed(n - 1)
(* The version that was heard is the one that runs, unless it was changed. *)
VersionHeard ==
  job.pc = "runs" /\ (\E k \in 1 .. job.at - 1 : OfAt(k) = "version") /\ "version" \notin late =>
    job.ordinary \/ version = "reviewed"

ConfTyped ==
  /\ DOMAIN conf = {"path", "writes"} /\ conf.path \in 1 .. MaxFileWrites + 1
  /\ conf.writes \in [1 .. MaxFileWrites + 1 -> Nat]
ReaderFields == {"pc", "before", "of", "data", "after"}
Since(c) == c[1] \in 1 .. conf.path /\ c[2] \in 0 .. conf.writes[c[1]] /\ c = <<c[1], c[2]>>
(* What was read is between what was there first and what is there now.    *)
ReaderKept ==
  /\ DOMAIN reader = ReaderFields
  /\ reader.pc \in {"idle", "open", "read", "after", "compare", "accepted", "refused"}
  /\ reader.pc \in {"idle", "open"} => reader.data = {}
  /\ reader.pc \in {"open", "read", "after", "compare"} => Since(reader.before)
  /\ reader.pc \in {"read", "after", "compare"} =>
       /\ reader.of \in 1 .. conf.path
       /\ \A c \in reader.data : /\ Pinned /\ Since(c) /\ c[1] = reader.of
                                 /\ reader.before[2] <= c[2]
  /\ reader.pc \in {"after", "compare"} => reader.data # {}
  /\ reader.pc = "compare" => /\ Since(reader.after) /\ reader.after[1] = reader.of
                              /\ \A c \in reader.data : c[2] <= reader.after[2]

(* A set of numbers that is not empty has a least one.                     *)
LEMMA Least ==
  ASSUME NEW T, T \subseteq Nat, T # {}
  PROVE  \E x \in T : \A y \in T : x <= y
<1> DEFINE R == {ss \in Nat \X Nat : ss[1] < ss[2]}
<1>1. R = OpToRel(<, Nat) BY DEF OpToRel
<1>2. IsWellFoundedOn(R, Nat) BY <1>1, NatLessThanWellFounded
<1>3. ASSUME NEW x \in Nat, NEW y \in Nat, y < x PROVE <<y, x>> \in R
  <2>1. PICK p : p = <<y, x>> OBVIOUS
  <2>2. p \in Nat \X Nat BY <2>1
  <2>3. p[1] = y /\ p[2] = x BY <2>1
  <2>4. p[1] < p[2] BY <1>3, <2>3
  <2>5. p \in R BY <2>2, <2>4
  <2> QED BY <2>1, <2>5
<1> HIDE DEF R
<1>4. PICK x \in T : \A y \in T : ~(<<y, x>> \in R) BY <1>2, WFMin
<1>5. \A y \in T : ~(y < x) BY <1>3, <1>4
<1> QED BY <1>5

(* The nearest root is one, and no root is nearer.                         *)
LEMMA NearestFound ==
  ASSUME NEW w \in DOMAIN Walks, NEW M, RootsOf(Walks[w], M) # {}
  PROVE  /\ Nearest(Walks[w], M) \in RootsOf(Walks[w], M)
         /\ \A m \in RootsOf(Walks[w], M) : Nearest(Walks[w], M) <= m
<1> DEFINE T == RootsOf(Walks[w], M)
<1>1. Len(Walks[w]) \in Nat BY StorageAssumption, LenProperties
<1>2. T \subseteq Nat BY <1>1 DEF RootsOf
<1>3. \E n \in T : \A m \in T : n <= m BY <1>2, Least
<1> QED BY <1>3 DEF Nearest

(* With the layers in order, as a check sees them, the native loader uses  *)
(* the database of the home.                                               *)
LEMMA HomeUsed ==
  ASSUME NEW w \in DOMAIN Walks, NEW o \in BOOLEAN, o \/ version = "reviewed",
         ~FixedRefused(o), ~ProjectRefused(w, o)
  PROVE  Database(w) = "home"
<1> DEFINE walk == Walks[w]
           two == RootsOf(walk, {"repo", "file"})
           three == RootsOf(walk, {"repo", "file", "link"})
<1>1. Len(walk) \in Nat \ {0} BY StorageAssumption, EmptySeq
<1>2. NativeKnown \subseteq KnownLayers(o) BY DEF NativeKnown, KnownLayers
<1>3. \A l \in NativeKnown : layer[l] # "storage" BY <1>2 DEF FixedRefused, Refuses
<1>4. ToSet(walk) = {walk[k] : k \in 1 .. Len(walk)}
  <2>1. DOMAIN walk = 1 .. Len(walk) BY StorageAssumption, LenProperties
  <2> QED BY <2>1 DEF ToSet
<1>5. two \subseteq 1 .. Len(walk) /\ three \subseteq 1 .. Len(walk) /\ two \subseteq three BY DEF RootsOf
<1>6. CustomMarkers(NativeKnown) => CustomMarkers(KnownLayers(o)) BY <1>2 DEF CustomMarkers
<1>7. NativeDirs(w) \subseteq ProjectDirs(w, o)
  <2>1. CASE CustomMarkers(KnownLayers(o))
    <3>1. ProjectDirs(w, o) = ToSet(walk) BY <2>1 DEF ProjectDirs
    <3>2. walk[1] \in ToSet(walk) BY <1>1, <1>4
    <3>3. ASSUME three # {} PROVE {walk[k] : k \in 1 .. Nearest(walk, {"repo", "file", "link"})} \subseteq ToSet(walk)
      <4>1. Nearest(walk, {"repo", "file", "link"}) \in 1 .. Len(walk) BY <3>3, <1>5, NearestFound
      <4> QED BY <4>1, <1>1, <1>4
    <3> QED BY <3>1, <3>2, <3>3 DEF NativeDirs
  <2>2. CASE ~CustomMarkers(KnownLayers(o)) /\ three = {}
    <3>1. two = {} BY <2>2, <1>5
    <3> QED BY <2>2, <3>1, <1>6 DEF NativeDirs, ProjectDirs
  <2>3. CASE ~CustomMarkers(KnownLayers(o)) /\ three # {}
    <3>1. ~LinkMet(w, o) BY DEF ProjectRefused
    <3>2. two # {}
      <4>1. SUFFICES ASSUME two = {} PROVE FALSE OBVIOUS
      <4>2. RootsOf(walk, {"link"}) # {} BY <2>3, <4>1 DEF RootsOf
      <4> QED BY <2>3, <3>1, <4>1, <4>2 DEF LinkMet
    <3> DEFINE a == Nearest(walk, {"repo", "file"})
               b == Nearest(walk, {"repo", "file", "link"})
    <3>3. a \in two /\ b \in three /\ \A m \in three : b <= m BY <2>3, <3>2, NearestFound
    <3>4. a \in 1 .. Len(walk) /\ b \in 1 .. Len(walk) /\ b <= a BY <3>3, <1>5
    <3>5. NativeDirs(w) = {walk[k] : k \in 1 .. b} BY <2>3, <1>6 DEF NativeDirs
    <3>6. ProjectDirs(w, o) = {walk[k] : k \in 1 .. a} BY <2>3, <3>2 DEF ProjectDirs, UpTo
    <3> QED BY <1>1, <3>4, <3>5, <3>6
  <2> QED BY <2>1, <2>2, <2>3
<1>8. \A l \in NativeDirs(w) \ HomeDirs : layer[l] # "storage" BY <1>7 DEF ProjectRefused, Refuses
<1> QED BY <1>3, <1>8 DEF Database

(* The steps of the command, and what is true of the sequence of them:     *)
(* every effect comes after its last checks, with one choice of the        *)
(* preferences, and after the query of the version where that choice is    *)
(* left to it; the sequence ends with an effect or with the dry run's end. *)
StepSet == [of : {"home", "queue", "thread", "consumer", "version", "last", "hand over", "wake", "end"},
            prefs : {"forced", "plan", "all"}]
Of(s, a) == s \in Seq(StepSet) /\ Len(s) = a
Covered(s, a, p) ==
  \A n \in 1 .. a :
    /\ s[n].of = "hand over" =>
         /\ n > 3 /\ s[n - 3].of = "last" /\ s[n - 2].of = "queue" /\ s[n - 1].of = "consumer"
         /\ s[n - 2].prefs = p /\ s[n - 1].prefs = p
    /\ s[n].of = "wake" => n > 2 /\ s[n - 2].of = "last" /\ s[n - 1].of = "thread" /\ s[n - 1].prefs = p
Calm(s, a) == \A n \in 1 .. a : s[n].of \notin {"hand over", "wake"}
Asked(s, a) ==
  \A n \in 1 .. a : s[n].of \in {"hand over", "wake"} => \E k \in 1 .. n - 1 : s[k].of = "version"

(* One sequence after another.                                             *)
After(u, s, a, t, b) == /\ \A n \in 1 .. a : u[n] = s[n]
                        /\ \A n \in 1 .. b : u[a + n] = t[n]
LEMMA Joined ==
  ASSUME NEW s, NEW t, NEW a \in Nat, NEW b \in Nat, Of(s, a), Of(t, b)
  PROVE  Of(s \o t, a + b) /\ After(s \o t, s, a, t, b)
<1>1. s \in Seq(StepSet) /\ t \in Seq(StepSet) /\ Len(s) = a /\ Len(t) = b BY DEF Of
<1>2. /\ s \o t \in Seq(StepSet) /\ Len(s \o t) = Len(s) + Len(t)
      /\ \A i \in 1 .. Len(s) + Len(t) : (s \o t)[i] = IF i <= Len(s) THEN s[i] ELSE t[i - Len(s)]
  BY <1>1, ConcatProperties
<1>3. /\ s \o t \in Seq(StepSet) /\ Len(s \o t) = a + b
      /\ \A i \in 1 .. a + b : (s \o t)[i] = IF i <= a THEN s[i] ELSE t[i - a]
  BY <1>1, <1>2
<1> DEFINE u == s \o t
<1>4. \A i \in 1 .. a + b : u[i] = IF i <= a THEN s[i] ELSE t[i - a] BY <1>3
<1> HIDE DEF u
<1>5. \A n \in 1 .. a : u[n] = s[n] BY <1>4
<1>6. ASSUME NEW n \in 1 .. b PROVE u[a + n] = t[n]
  <2>1. a + n \in 1 .. a + b /\ ~(a + n <= a) /\ (a + n) - a = n OBVIOUS
  <2> QED BY <1>4, <2>1
<1> QED BY <1>3, <1>5, <1>6 DEF u, Of, After

LEMMA CalmJoined ==
  ASSUME NEW s, NEW t, NEW u, NEW a \in Nat, NEW b \in Nat, Calm(s, a), Calm(t, b), After(u, s, a, t, b)
  PROVE  Calm(u, a + b)
<1> USE DEF After
<1> SUFFICES ASSUME NEW n \in 1 .. a + b PROVE u[n].of \notin {"hand over", "wake"} BY DEF Calm
<1>1. CASE n \in 1 .. a BY <1>1 DEF Calm
<1>2. CASE n \notin 1 .. a
  <2>1. n - a \in 1 .. b /\ a + (n - a) = n BY <1>2
  <2>2. u[n] = t[n - a] BY <2>1
  <2> QED BY <2>1, <2>2 DEF Calm
<1> QED BY <1>1, <1>2

LEMMA CalmCovered == ASSUME NEW s, NEW a, NEW p, Calm(s, a) PROVE Covered(s, a, p)
BY DEF Calm, Covered

LEMMA CoveredJoined ==
  ASSUME NEW s, NEW t, NEW u, NEW p, NEW a \in Nat, NEW b \in Nat, Covered(s, a, p), Covered(t, b, p),
         After(u, s, a, t, b)
  PROVE  Covered(u, a + b, p)
<1> USE DEF After
<1> SUFFICES ASSUME NEW n \in 1 .. a + b
             PROVE  /\ u[n].of = "hand over" =>
                         /\ n > 3 /\ u[n - 3].of = "last" /\ u[n - 2].of = "queue" /\ u[n - 1].of = "consumer"
                         /\ u[n - 2].prefs = p /\ u[n - 1].prefs = p
                    /\ u[n].of = "wake" => /\ n > 2 /\ u[n - 2].of = "last" /\ u[n - 1].of = "thread"
                                           /\ u[n - 1].prefs = p
  BY DEF Covered
<1>1. CASE n \in 1 .. a
  <2>1. n > 3 => u[n - 3] = s[n - 3] BY <1>1
  <2>2. n > 2 => u[n - 2] = s[n - 2] /\ u[n - 1] = s[n - 1] BY <1>1
  <2>3. u[n] = s[n] BY <1>1
  <2>4. /\ s[n].of = "hand over" =>
             /\ n > 3 /\ s[n - 3].of = "last" /\ s[n - 2].of = "queue" /\ s[n - 1].of = "consumer"
             /\ s[n - 2].prefs = p /\ s[n - 1].prefs = p
        /\ s[n].of = "wake" => n > 2 /\ s[n - 2].of = "last" /\ s[n - 1].of = "thread" /\ s[n - 1].prefs = p
    BY <1>1 DEF Covered
  <2>5. n > 3 => n > 2 BY <1>1
  <2> QED BY <2>1, <2>2, <2>3, <2>4, <2>5
<1>2. CASE n \notin 1 .. a
  <2> DEFINE m == n - a
  <2>1. m \in 1 .. b /\ n = a + m BY <1>2
  <2> HIDE DEF m
  <2>2. m > 3 => u[n - 3] = t[m - 3]
    <3>1. m > 3 => m - 3 \in 1 .. b /\ n - 3 = a + (m - 3) BY <2>1
    <3> QED BY <3>1
  <2>3. m > 2 => u[n - 2] = t[m - 2] /\ u[n - 1] = t[m - 1]
    <3>1. m > 2 => /\ m - 2 \in 1 .. b /\ n - 2 = a + (m - 2) /\ m - 1 \in 1 .. b /\ n - 1 = a + (m - 1) BY <2>1
    <3> QED BY <3>1
  <2>4. u[n] = t[m] BY <2>1
  <2>5. (m > 3 => n > 3) /\ (m > 2 => n > 2) /\ (m > 3 => m > 2) BY <2>1
  <2>6. /\ t[m].of = "hand over" =>
             /\ m > 3 /\ t[m - 3].of = "last" /\ t[m - 2].of = "queue" /\ t[m - 1].of = "consumer"
             /\ t[m - 2].prefs = p /\ t[m - 1].prefs = p
        /\ t[m].of = "wake" => m > 2 /\ t[m - 2].of = "last" /\ t[m - 1].of = "thread" /\ t[m - 1].prefs = p
    BY <2>1 DEF Covered
  <2> QED BY <2>2, <2>3, <2>4, <2>5, <2>6
<1> QED BY <1>1, <1>2

LEMMA OneOnly == \A n \in 1 .. 1 : n = 1
OBVIOUS

(* One step.                                                               *)
LEMMA Single ==
  ASSUME NEW c \in StepSet
  PROVE  Of(<<c>>, 1) /\ <<c>>[1] = c
BY DEF Of

Checks == {"home", "queue", "thread", "consumer"}
LEMMA OneCheck ==
  ASSUME NEW at \in Checks, NEW p \in {"forced", "plan", "all"}
  PROVE  /\ Of(Check(at, p), 1) /\ Calm(Check(at, p), 1)
         /\ Check(at, p)[1].of = at /\ Check(at, p)[1].prefs = p
<1> DEFINE c == [of |-> at, prefs |-> p]
<1>1. c \in StepSet /\ c.of = at /\ c.prefs = p BY DEF StepSet, Checks
<1>2. Check(at, p) = <<c>> BY DEF Check
<1> HIDE DEF c
<1>3. Of(<<c>>, 1) /\ <<c>>[1] = c BY <1>1, Single
<1>4. \A n \in 1 .. 1 : n = 1 BY OneOnly
<1>5. c.of \notin {"hand over", "wake"} BY <1>1 DEF Checks
<1>6. Calm(<<c>>, 1) BY <1>3, <1>4, <1>5 DEF Calm
<1> QED BY <1>1, <1>2, <1>3, <1>6

LEMMA OneName ==
  ASSUME NEW name \in {"version", "last", "hand over", "wake", "end"}
  PROVE  /\ Of(OneStep(name), 1) /\ OneStep(name)[1].of = name
         /\ name \notin {"hand over", "wake"} => Calm(OneStep(name), 1)
<1> DEFINE c == [of |-> name, prefs |-> "plan"]
<1>1. c \in StepSet /\ c.of = name BY DEF StepSet
<1>2. OneStep(name) = <<c>> BY DEF OneStep
<1> HIDE DEF c
<1>3. Of(<<c>>, 1) /\ <<c>>[1] = c BY <1>1, Single
<1>4. \A n \in 1 .. 1 : n = 1 BY OneOnly
<1>5. name \notin {"hand over", "wake"} => Calm(<<c>>, 1) BY <1>1, <1>3, <1>4 DEF Calm
<1> QED BY <1>1, <1>2, <1>3, <1>5

LEMMA CheckPair ==
  ASSUME NEW p \in {"forced", "plan", "all"}
  PROVE  /\ Of(QueueCheck(p), 2) /\ Calm(QueueCheck(p), 2)
         /\ QueueCheck(p)[1].of = "queue" /\ QueueCheck(p)[1].prefs = p
         /\ QueueCheck(p)[2].of = "consumer" /\ QueueCheck(p)[2].prefs = p
<1> DEFINE a == Check("queue", p)
           b == Check("consumer", p)
           u == a \o b
<1>1. /\ Of(a, 1) /\ Calm(a, 1) /\ a[1].of = "queue" /\ a[1].prefs = p
      /\ Of(b, 1) /\ Calm(b, 1) /\ b[1].of = "consumer" /\ b[1].prefs = p
  BY OneCheck DEF Checks
<1>2. QueueCheck(p) = u BY DEF QueueCheck
<1> HIDE DEF a, b
<1>3. Of(u, 1 + 1) /\ After(u, a, 1, b, 1) BY <1>1, Joined
<1> HIDE DEF u
<1>4. Calm(u, 1 + 1) BY <1>1, <1>3, CalmJoined
<1>5. u[1] = a[1] /\ u[1 + 1] = b[1] BY <1>3 DEF After
<1>6. 1 + 1 = 2 OBVIOUS
<1> QED BY <1>1, <1>2, <1>3, <1>4, <1>5, <1>6

(* The last checks and the effect they are for.                            *)
Final(p) == FinalCheck(p) \o OneStep("hand over")
LEMMA FinalCovered ==
  ASSUME NEW p \in {"forced", "plan", "all"}
  PROVE  /\ Of(Final(p), 4) /\ Covered(Final(p), 4, p) /\ Final(p)[4].of = "hand over"
<1> DEFINE a == OneStep("last")
           b == QueueCheck(p)
           c == OneStep("hand over")
           d == a \o b
           e == d \o c
<1>1. Of(a, 1) /\ a[1].of = "last" /\ Of(c, 1) /\ c[1].of = "hand over" BY OneName
<1>2. /\ Of(b, 2) /\ b[1].of = "queue" /\ b[1].prefs = p
      /\ b[2].of = "consumer" /\ b[2].prefs = p
  BY CheckPair
<1>3. Final(p) = e BY DEF Final, FinalCheck
<1> HIDE DEF a, b, c
<1>4. Of(d, 1 + 2) /\ After(d, a, 1, b, 2) BY <1>1, <1>2, Joined
<1> HIDE DEF d
<1>5. d[1] = a[1] /\ d[2] = b[1] /\ d[3] = b[2]
  <2>1. d[1 + 1] = b[1] /\ d[1 + 2] = b[2] /\ d[1] = a[1] BY <1>4 DEF After
  <2> QED BY <1>4, <2>1
<1>6. Of(d, 3) BY <1>4
<1>7. Of(e, 3 + 1) /\ After(e, d, 3, c, 1) BY <1>1, <1>6, Joined
<1> HIDE DEF e
<1>8. e[1] = d[1] /\ e[2] = d[2] /\ e[3] = d[3] /\ e[4] = c[1]
  <2>1. e[3 + 1] = c[1] /\ e[1] = d[1] /\ e[2] = d[2] /\ e[3] = d[3] BY <1>7 DEF After
  <2> QED BY <1>7, <2>1
<1>9. \A n \in 1 .. 4 : n = 1 \/ n = 2 \/ n = 3 \/ n = 4 OBVIOUS
<1>10. /\ e[1].of = "last" /\ e[2].of = "queue" /\ e[2].prefs = p /\ e[3].of = "consumer" /\ e[3].prefs = p
       /\ e[4].of = "hand over"
  BY <1>1, <1>2, <1>5, <1>8
<1>11. Covered(e, 4, p)
  <2>1. 4 > 3 /\ 4 - 3 = 1 /\ 4 - 2 = 2 /\ 4 - 1 = 3 OBVIOUS
  <2>2. /\ e[1].of \notin {"hand over", "wake"} /\ e[2].of \notin {"hand over", "wake"}
        /\ e[3].of \notin {"hand over", "wake"} /\ e[4].of # "wake"
    BY <1>10
  <2> SUFFICES ASSUME NEW n \in 1 .. 4, e[n].of \in {"hand over", "wake"}
               PROVE  /\ n = 4 /\ n > 3 /\ e[n - 3] = e[1] /\ e[n - 2] = e[2] /\ e[n - 1] = e[3]
    BY <1>10, <2>2 DEF Covered
  <2>3. n = 4 BY <1>9, <2>2
  <2> QED BY <2>1, <2>3
<1>12. Of(e, 4) BY <1>7
<1> QED BY <1>3, <1>10, <1>11, <1>12

LEMMA CoveredPart ==
  ASSUME NEW s, NEW t, NEW u, NEW p, NEW a \in Nat, Covered(s, a, p), After(u, s, a, t, 1),
         a > 1, s[a - 1].of = "last", s[a].of = "thread", s[a].prefs = p, t[1].of = "wake"
  PROVE  Covered(u, a + 1, p)
<1> USE DEF After
<1> SUFFICES ASSUME NEW n \in 1 .. a + 1
             PROVE  /\ u[n].of = "hand over" =>
                         /\ n > 3 /\ u[n - 3].of = "last" /\ u[n - 2].of = "queue" /\ u[n - 1].of = "consumer"
                         /\ u[n - 2].prefs = p /\ u[n - 1].prefs = p
                    /\ u[n].of = "wake" => /\ n > 2 /\ u[n - 2].of = "last" /\ u[n - 1].of = "thread"
                                           /\ u[n - 1].prefs = p
  BY DEF Covered
<1>1. CASE n \in 1 .. a
  <2>1. n > 3 => u[n - 3] = s[n - 3] BY <1>1
  <2>2. n > 2 => u[n - 2] = s[n - 2] /\ u[n - 1] = s[n - 1] BY <1>1
  <2>3. u[n] = s[n] BY <1>1
  <2>4. /\ s[n].of = "hand over" =>
             /\ n > 3 /\ s[n - 3].of = "last" /\ s[n - 2].of = "queue" /\ s[n - 1].of = "consumer"
             /\ s[n - 2].prefs = p /\ s[n - 1].prefs = p
        /\ s[n].of = "wake" => n > 2 /\ s[n - 2].of = "last" /\ s[n - 1].of = "thread" /\ s[n - 1].prefs = p
    BY <1>1 DEF Covered
  <2>5. n > 3 => n > 2 BY <1>1
  <2> QED BY <2>1, <2>2, <2>3, <2>4, <2>5
<1>2. CASE n \notin 1 .. a
  <2>1. n = a + 1 /\ n - 1 = a /\ n - 2 = a - 1 /\ n > 2 BY <1>2
  <2>2. 1 \in 1 .. 1 BY OneOnly
  <2>3. u[n] = t[1] BY <2>1, <2>2
  <2>4. u[n - 1] = s[a] /\ u[n - 2] = s[a - 1]
    <3>1. a \in 1 .. a /\ a - 1 \in 1 .. a OBVIOUS
    <3> QED BY <2>1, <3>1
  <2> QED BY <2>1, <2>3, <2>4
<1> QED BY <1>1, <1>2

LEMMA DryTail ==
  ASSUME NEW p \in {"plan", "all"}
  PROVE  /\ Of(Check("home", p) \o OneStep("end"), 2) /\ Calm(Check("home", p) \o OneStep("end"), 2)
         /\ (Check("home", p) \o OneStep("end"))[2].of = "end"
<1> DEFINE a == Check("home", p)
           b == OneStep("end")
           u == a \o b
<1>1. Of(a, 1) /\ Calm(a, 1) /\ Of(b, 1) /\ Calm(b, 1) /\ b[1].of = "end" BY OneCheck, OneName DEF Checks
<1> HIDE DEF a, b
<1>2. Of(u, 1 + 1) /\ After(u, a, 1, b, 1) BY <1>1, Joined
<1> HIDE DEF u
<1>3. Calm(u, 1 + 1) BY <1>1, <1>2, CalmJoined
<1>4. u[1 + 1] = b[1] BY <1>2 DEF After
<1>5. 1 + 1 = 2 OBVIOUS
<1>6. Of(u, 2) /\ Calm(u, 2) /\ u[2].of = "end" BY <1>1, <1>2, <1>3, <1>4, <1>5
<1> QED BY <1>6 DEF u, a, b

LEMMA VersionAsked ==
  /\ Of(VersionQuery, 2) /\ Calm(VersionQuery, 2) /\ VersionQuery[2].of = "version"
<1> DEFINE a == Check("queue", "forced")
           b == OneStep("version")
           u == a \o b
<1>1. Of(a, 1) /\ Calm(a, 1) /\ Of(b, 1) /\ Calm(b, 1) /\ b[1].of = "version" BY OneCheck, OneName DEF Checks
<1>2. VersionQuery = u BY DEF VersionQuery
<1> HIDE DEF a, b
<1>3. Of(u, 1 + 1) /\ After(u, a, 1, b, 1) BY <1>1, Joined
<1> HIDE DEF u
<1>4. Calm(u, 1 + 1) BY <1>1, <1>3, CalmJoined
<1>5. u[1 + 1] = b[1] BY <1>3 DEF After
<1>6. 1 + 1 = 2 OBVIOUS
<1> QED BY <1>1, <1>2, <1>3, <1>4, <1>5, <1>6

(* The calm part of a plan, and its end.                                   *)
Closing(t, b, p, L) == Of(t, b) /\ Covered(t, b, p) /\ t[b].of \in L
LEMMA Closed ==
  ASSUME NEW s, NEW t, NEW p, NEW L, NEW a \in Nat, NEW b \in Nat \ {0}, Of(s, a), Calm(s, a), Closing(t, b, p, L)
  PROVE  Closing(s \o t, a + b, p, L) /\ After(s \o t, s, a, t, b)
<1>1. Of(t, b) /\ Covered(t, b, p) /\ t[b].of \in L BY DEF Closing
<1> DEFINE u == s \o t
<1>2. Of(u, a + b) /\ After(u, s, a, t, b) BY <1>1, Joined
<1> HIDE DEF u
<1>3. Covered(u, a + b, p) BY <1>1, <1>2, CalmCovered, CoveredJoined
<1>4. u[a + b] = t[b]
  <2>1. b \in 1 .. b OBVIOUS
  <2> QED BY <1>2, <2>1 DEF After
<1> QED BY <1>1, <1>2, <1>3, <1>4 DEF u, Closing

LEMMA PlainSound ==
  ASSUME NEW dry \in BOOLEAN
  PROVE  \E n \in Nat \ {0} : /\ Closing(PlainPlan(dry), n, "plan", {"hand over", "end"})
                              /\ Asked(PlainPlan(dry), n)
<1> DEFINE q == QueueCheck("forced")
           v == VersionQuery
           r == QueueCheck("plan")
           t == IF dry THEN Check("home", "plan") \o OneStep("end") ELSE FinalCheck("plan") \o OneStep("hand over")
           qv == q \o v
           s == qv \o r
           u == s \o t
<1>1. PlainPlan(dry) = u BY DEF PlainPlan
<1>2. Of(q, 2) /\ Calm(q, 2) /\ Of(r, 2) /\ Calm(r, 2) BY CheckPair
<1>3. Of(v, 2) /\ Calm(v, 2) /\ v[2].of = "version" BY VersionAsked
<1>4. \E b \in Nat \ {0} : Closing(t, b, "plan", {"hand over", "end"})
  <2>1. CASE dry
    <3>1. Of(t, 2) /\ Calm(t, 2) /\ t[2].of = "end" BY <2>1, DryTail
    <3>2. Closing(t, 2, "plan", {"hand over", "end"}) BY <3>1, CalmCovered DEF Closing
    <3>3. 2 \in Nat \ {0} OBVIOUS
    <3> QED BY <3>2, <3>3
  <2>2. CASE ~dry
    <3>1. t = Final("plan") BY <2>2 DEF Final
    <3>2. Closing(t, 4, "plan", {"hand over", "end"}) BY <3>1, FinalCovered DEF Closing
    <3>3. 4 \in Nat \ {0} OBVIOUS
    <3> QED BY <3>2, <3>3
  <2> QED BY <2>1, <2>2
<1> HIDE DEF q, v, r, t
<1>5. PICK b \in Nat \ {0} : Closing(t, b, "plan", {"hand over", "end"}) BY <1>4
<1>6. Of(qv, 2 + 2) /\ After(qv, q, 2, v, 2) BY <1>2, <1>3, Joined
<1> HIDE DEF qv
<1>7. Of(qv, 4) /\ Calm(qv, 4) /\ qv[4].of = "version"
  <2>1. Calm(qv, 2 + 2) BY <1>2, <1>3, <1>6, CalmJoined
  <2>2. qv[2 + 2] = v[2] BY <1>6 DEF After
  <2>3. 2 + 2 = 4 OBVIOUS
  <2> QED BY <1>3, <1>6, <2>1, <2>2, <2>3
<1>8. Of(s, 4 + 2) /\ After(s, qv, 4, r, 2) BY <1>2, <1>7, Joined
<1> HIDE DEF s
<1>9. Of(s, 6) /\ Calm(s, 6) /\ s[4].of = "version"
  <2>1. Calm(s, 4 + 2) BY <1>2, <1>7, <1>8, CalmJoined
  <2>2. s[4] = qv[4] BY <1>8 DEF After
  <2>3. 4 + 2 = 6 OBVIOUS
  <2> QED BY <1>7, <1>8, <2>1, <2>2, <2>3
<1>10. Closing(u, 6 + b, "plan", {"hand over", "end"}) /\ After(u, s, 6, t, b) BY <1>5, <1>9, Closed
<1> HIDE DEF u
<1>11. Asked(u, 6 + b)
  <2>1. SUFFICES ASSUME NEW n \in 1 .. 6 + b, u[n].of \in {"hand over", "wake"}
               PROVE \E k \in 1 .. n - 1 : u[k].of = "version"
    BY DEF Asked
  <2>2. u[4] = s[4]
    <3>1. 4 \in 1 .. 6 OBVIOUS
    <3> QED BY <3>1, <1>10 DEF After
  <2>3. ~(n \in 1 .. 6)
    <3>1. SUFFICES ASSUME n \in 1 .. 6 PROVE FALSE OBVIOUS
    <3>2. u[n] = s[n] BY <3>1, <1>10 DEF After
    <3>3. s[n].of \notin {"hand over", "wake"} BY <3>1, <1>9 DEF Calm
    <3> QED BY <2>1, <3>2, <3>3
  <2>4. 4 \in 1 .. n - 1 BY <2>3
  <2> QED BY <1>9, <2>2, <2>4
<1>12. 6 + b \in Nat \ {0} OBVIOUS
<1> QED BY <1>1, <1>10, <1>11, <1>12

(* What a wake hands over and then starts.                                 *)
LEMMA WakeTail ==
  Closing(FinalCheck("all") \o OneStep("hand over") \o OneStep("last") \o Check("thread", "all") \o OneStep("wake"),
          7, "all", {"wake", "end"})
<1> DEFINE f == Final("all")
           l == OneStep("last")
           c == Check("thread", "all")
           w == OneStep("wake")
           fl == f \o l
           g == fl \o c
           u == g \o w
<1>1. Of(f, 4) /\ Covered(f, 4, "all") BY FinalCovered
<1>2. Of(l, 1) /\ Calm(l, 1) /\ l[1].of = "last" /\ Of(w, 1) /\ w[1].of = "wake" BY OneName
<1>3. Of(c, 1) /\ Calm(c, 1) /\ c[1].of = "thread" /\ c[1].prefs = "all" BY OneCheck DEF Checks
<1>4. u = FinalCheck("all") \o OneStep("hand over") \o OneStep("last") \o Check("thread", "all") \o OneStep("wake")
  BY DEF Final
<1> HIDE DEF f, l, c, w
<1>5. Of(fl, 4 + 1) /\ After(fl, f, 4, l, 1) BY <1>1, <1>2, Joined
<1> HIDE DEF fl
<1>6. Of(fl, 5) /\ Covered(fl, 5, "all") /\ fl[5].of = "last"
  <2>1. Covered(fl, 4 + 1, "all") BY <1>1, <1>2, <1>5, CalmCovered, CoveredJoined
  <2>2. fl[4 + 1] = l[1] BY <1>5 DEF After
  <2>3. 4 + 1 = 5 OBVIOUS
  <2> QED BY <1>2, <1>5, <2>1, <2>2, <2>3
<1>7. Of(g, 5 + 1) /\ After(g, fl, 5, c, 1) BY <1>3, <1>6, Joined
<1> HIDE DEF g
<1>8. Of(g, 6) /\ Covered(g, 6, "all") /\ g[5].of = "last" /\ g[6].of = "thread" /\ g[6].prefs = "all"
  <2>1. Covered(g, 5 + 1, "all") BY <1>3, <1>6, <1>7, CalmCovered, CoveredJoined
  <2>2. g[5 + 1] = c[1] /\ g[5] = fl[5] BY <1>7 DEF After
  <2>3. 5 + 1 = 6 OBVIOUS
  <2> QED BY <1>3, <1>6, <1>7, <2>1, <2>2, <2>3
<1>9. Of(u, 6 + 1) /\ After(u, g, 6, w, 1) BY <1>2, <1>8, Joined
<1> HIDE DEF u
<1>10. Of(u, 7) /\ Covered(u, 7, "all") /\ u[7].of = "wake"
  <2>1. 6 - 1 = 5 /\ 6 > 1 /\ 6 + 1 = 7 OBVIOUS
  <2>2. Covered(u, 6 + 1, "all") BY <1>2, <1>8, <1>9, <2>1, CoveredPart
  <2>3. u[6 + 1] = w[1] BY <1>9 DEF After
  <2> QED BY <1>2, <1>9, <2>1, <2>2, <2>3
<1> QED BY <1>4, <1>10 DEF Closing

LEMMA WakeSound ==
  ASSUME NEW dry \in BOOLEAN
  PROVE  \E n \in Nat \ {0} : Closing(WakePlan(dry), n, "all", {"wake", "end"})
<1> DEFINE m == WakePreflight
           q == QueueCheck("all")
           x == IF dry THEN <<>> ELSE m \o q
           t == IF dry THEN Check("home", "all") \o OneStep("end")
                ELSE FinalCheck("all") \o OneStep("hand over") \o OneStep("last") \o Check("thread", "all") \o OneStep("wake")
           s == ((m \o x) \o q) \o q
<1>1. WakePlan(dry) = s \o t BY DEF WakePlan
<1>2. Of(q, 2) /\ Calm(q, 2) BY CheckPair
<1>3. Of(m, 3) /\ Calm(m, 3)
  <2> DEFINE a == Check("home", "forced")
             b == Check("home", "all")
             c == Check("thread", "all")
             d == a \o b
  <2>1. Of(a, 1) /\ Calm(a, 1) /\ Of(b, 1) /\ Calm(b, 1) /\ Of(c, 1) /\ Calm(c, 1) BY OneCheck DEF Checks
  <2>2. m = d \o c BY DEF WakePreflight
  <2> HIDE DEF a, b, c
  <2>3. Of(d, 1 + 1) /\ Calm(d, 1 + 1)
    <3>1. Of(d, 1 + 1) /\ After(d, a, 1, b, 1) BY <2>1, Joined
    <3> HIDE DEF d
    <3> QED BY <2>1, <3>1, CalmJoined
  <2> HIDE DEF d
  <2>4. Of(d, 2) /\ Calm(d, 2) BY <2>3
  <2>5. Of(m, 2 + 1) /\ After(m, d, 2, c, 1) BY <2>1, <2>2, <2>4, Joined
  <2>6. Calm(m, 2 + 1) BY <2>1, <2>4, <2>5, CalmJoined
  <2>7. 2 + 1 = 3 OBVIOUS
  <2> QED BY <2>5, <2>6, <2>7
<1> HIDE DEF m, q
<1>4. \E n \in Nat : Of(x, n) /\ Calm(x, n)
  <2>1. CASE dry
    <3>1. Of(<<>>, 0) BY EmptySeq DEF Of
    <3>2. Calm(<<>>, 0)
      <4>1. \A n \in 1 .. 0 : FALSE OBVIOUS
      <4> QED BY <4>1 DEF Calm
    <3> QED BY <2>1, <3>1, <3>2
  <2>2. CASE ~dry
    <3> DEFINE y == m \o q
    <3>1. Of(y, 3 + 2) /\ After(y, m, 3, q, 2) BY <1>2, <1>3, Joined
    <3> HIDE DEF y
    <3>2. Calm(y, 3 + 2) BY <1>2, <1>3, <3>1, CalmJoined
    <3>3. x = y BY <2>2 DEF y
    <3>4. 3 + 2 \in Nat OBVIOUS
    <3> QED BY <3>1, <3>2, <3>3, <3>4
  <2> QED BY <2>1, <2>2
<1>5. \E b \in Nat \ {0} : Closing(t, b, "all", {"wake", "end"})
  <2>1. CASE dry
    <3>1. Of(t, 2) /\ Calm(t, 2) /\ t[2].of = "end" BY <2>1, DryTail
    <3>2. Closing(t, 2, "all", {"wake", "end"}) BY <3>1, CalmCovered DEF Closing
    <3>3. 2 \in Nat \ {0} OBVIOUS
    <3> QED BY <3>2, <3>3
  <2>2. CASE ~dry
    <3>1. Closing(t, 7, "all", {"wake", "end"}) BY <2>2, WakeTail
    <3>3. 7 \in Nat \ {0} OBVIOUS
    <3> QED BY <3>1, <3>3
  <2> QED BY <2>1, <2>2
<1> HIDE DEF x, t
<1>6. PICK n \in Nat : Of(x, n) /\ Calm(x, n) BY <1>4
<1>7. PICK b \in Nat \ {0} : Closing(t, b, "all", {"wake", "end"}) BY <1>5
<1>8. ASSUME NEW y, NEW z, NEW a \in Nat, NEW c \in Nat, Of(y, a), Calm(y, a), Of(z, c), Calm(z, c)
      PROVE  \E d \in Nat : Of(y \o z, d) /\ Calm(y \o z, d)
  <2> DEFINE yz == y \o z
  <2>1. Of(yz, a + c) /\ After(yz, y, a, z, c) BY <1>8, Joined
  <2> HIDE DEF yz
  <2>2. Calm(yz, a + c) /\ a + c \in Nat BY <1>8, <2>1, CalmJoined
  <2> QED BY <2>1, <2>2 DEF yz
<1>9. PICK a1 \in Nat : Of(m \o x, a1) /\ Calm(m \o x, a1) BY <1>3, <1>6, <1>8
<1>10. PICK a2 \in Nat : Of((m \o x) \o q, a2) /\ Calm((m \o x) \o q, a2) BY <1>2, <1>8, <1>9
<1>11. PICK a3 \in Nat : Of(s, a3) /\ Calm(s, a3) BY <1>2, <1>8, <1>10
<1> HIDE DEF s
<1>12. a3 + b \in Nat \ {0} OBVIOUS
<1>13. Closing(s \o t, a3 + b, "all", {"wake", "end"}) BY <1>7, <1>11, Closed
<1> QED BY <1>1, <1>12, <1>13

-----------------------------------------------------------------------------
(* The command.                                                            *)

LEMMA SameVerdicts ==
  ASSUME UNCHANGED <<layer, mark>>, NEW at, NEW o
  PROVE  Fails(at, o)' = Fails(at, o)
<1>1. layer' = layer /\ mark' = mark OBVIOUS
<1>2. \A L : Refuses(L)' = Refuses(L) BY <1>1 DEF Refuses
<1>3. \A known : CustomMarkers(known)' = CustomMarkers(known) BY <1>1 DEF CustomMarkers
<1>4. \A walk, M : RootsOf(walk, M)' = RootsOf(walk, M) BY <1>1 DEF RootsOf
<1>5. \A walk, M : Nearest(walk, M)' = Nearest(walk, M) BY <1>4 DEF Nearest
<1>6. \A w : ProjectDirs(w, o)' = ProjectDirs(w, o) BY <1>3, <1>4, <1>5 DEF ProjectDirs, UpTo
<1>7. \A w : LinkMet(w, o)' = LinkMet(w, o) BY <1>3, <1>4, <1>5 DEF LinkMet
<1>8. FixedRefused(o)' = FixedRefused(o) BY <1>2 DEF FixedRefused
<1>9. \A w : ProjectRefused(w, o)' = ProjectRefused(w, o) BY <1>1, <1>2, <1>6, <1>7 DEF ProjectRefused
<1> QED BY <1>8, <1>9 DEF Fails

(* The plan of the command that runs.                                      *)
LEMMA PlanSound ==
  ASSUME JobTyped
  PROVE  /\ Len(Plan) \in Nat \ {0}
         /\ Covered(Plan, Len(Plan), IF job.wake THEN "all" ELSE "plan")
         /\ Plan[Len(Plan)].of \in {"hand over", "wake", "end"} /\ (job.wake => Plan[Len(Plan)].of # "hand over")
         /\ ~job.wake => Asked(Plan, Len(Plan))
<1>1. job.wake \in BOOLEAN /\ job.dry \in BOOLEAN BY DEF JobTyped
<1>2. CASE job.wake
  <2>1. PICK n \in Nat \ {0} : Closing(WakePlan(job.dry), n, "all", {"wake", "end"}) BY <1>1, WakeSound
  <2>2. Plan = WakePlan(job.dry) BY <1>2 DEF Plan
  <2>3. Len(Plan) = n /\ Covered(Plan, n, "all") /\ Plan[n].of \in {"wake", "end"} BY <2>1, <2>2 DEF Closing, Of
  <2> QED BY <1>2, <2>3
<1>3. CASE ~job.wake
  <2>1. PICK n \in Nat \ {0} : /\ Closing(PlainPlan(job.dry), n, "plan", {"hand over", "end"})
                               /\ Asked(PlainPlan(job.dry), n)
    BY <1>1, PlainSound
  <2>2. Plan = PlainPlan(job.dry) BY <1>3 DEF Plan
  <2>3. /\ Len(Plan) = n /\ Covered(Plan, n, "plan") /\ Plan[n].of \in {"hand over", "end"}
        /\ Asked(Plan, n)
    BY <2>1, <2>2 DEF Closing, Of
  <2> QED BY <1>3, <2>3
<1> QED BY <1>1, <1>2, <1>3

(* What an effect rests on.                                                *)
LEMMA HandedRight ==
  ASSUME JobTyped, AtPlan, QueueStands, BothStand, VersionHeard, job.pc = "runs", late = {}
  PROVE  /\ Now.of = "hand over" => /\ Database("queue") = "home" /\ Database("thread") = "home"
                                    /\ Database("lexical") = "home"
         /\ Now.of = "wake" => Database("thread") = "home"
<1> DEFINE n == job.at
           p == IF job.wake THEN "all" ELSE "plan"
           o == IF job.wake THEN TRUE ELSE job.ordinary
<1>1. /\ Len(Plan) \in Nat \ {0} /\ Covered(Plan, Len(Plan), p) /\ (~job.wake => Asked(Plan, Len(Plan)))
  BY PlanSound
<1>2. n \in 1 .. Len(Plan) BY DEF AtPlan
<1>3. /\ Plan[n].of = "hand over" =>
           /\ n > 3 /\ Plan[n - 3].of = "last" /\ Plan[n - 2].of = "queue" /\ Plan[n - 1].of = "consumer"
           /\ Plan[n - 2].prefs = p /\ Plan[n - 1].prefs = p
      /\ Plan[n].of = "wake" => /\ n > 2 /\ Plan[n - 2].of = "last" /\ Plan[n - 1].of = "thread"
                                /\ Plan[n - 1].prefs = p
  BY <1>1, <1>2 DEF Covered
<1>4. o \in BOOLEAN BY DEF JobTyped
<1>5. \A k : Plan[k].prefs = p => OrdinaryAt(k) = o BY DEF OrdinaryAt
<1>6. DOMAIN Walks = {"queue", "thread", "lexical"} BY StorageAssumption
<1>7. CASE Now.of = "hand over"
  <2>1. /\ n > 3 /\ OfAt(n - 3) = "last" /\ OfAt(n - 2) = "queue" /\ OfAt(n - 1) = "consumer"
        /\ OrdinaryAt(n - 2) = o /\ OrdinaryAt(n - 1) = o
    BY <1>3, <1>5, <1>7 DEF Now, OfAt
  <2>2. ~Fails("queue", o) /\ ~Fails("consumer", o)
    <3>1. StillPassed(n - 2) /\ StillPassed(n - 1) BY <1>2, <2>1 DEF BothStand
    <3> QED BY <1>4, <2>1, <3>1 DEF StillPassed
  <2>3. o \/ version = "reviewed"
    <3>1. CASE job.wake BY <3>1
    <3>2. CASE ~job.wake
      <4>1. \E k \in 1 .. n - 1 : OfAt(k) = "version" BY <1>1, <1>2, <1>7, <3>2 DEF Asked, Now, OfAt
      <4> QED BY <3>2, <4>1 DEF VersionHeard
    <3> QED BY <3>1, <3>2
  <2>4. /\ ~FixedRefused(o) /\ ~ProjectRefused("queue", o) /\ ~ProjectRefused("thread", o)
        /\ ~ProjectRefused("lexical", o)
    BY <2>2 DEF Fails
  <2>5. \A w \in DOMAIN Walks : ~ProjectRefused(w, o) => Database(w) = "home" BY <1>4, <2>3, <2>4, HomeUsed
  <2> QED BY <1>6, <1>7, <2>4, <2>5
<1>8. CASE Now.of = "wake"
  <2>1. n > 2 /\ OfAt(n - 2) = "last" /\ OfAt(n - 1) = "thread" /\ OrdinaryAt(n - 1) = o
    BY <1>3, <1>5, <1>8 DEF Now, OfAt
  <2>2. ~Fails("thread", o)
    <3>1. StillPassed(n - 1) BY <1>2, <2>1 DEF QueueStands
    <3> QED BY <1>4, <2>1, <3>1 DEF StillPassed
  <2>3. ~FixedRefused(o) /\ ~ProjectRefused("thread", o) BY <2>2 DEF Fails
  <2>4. o \/ version = "reviewed"
    <3>1. CASE job.wake BY <3>1
    <3>2. CASE ~job.wake
      <4>1. \E k \in 1 .. n - 1 : OfAt(k) = "version" BY <1>1, <1>2, <1>8, <3>2 DEF Asked, Now, OfAt
      <4> QED BY <3>2, <4>1 DEF VersionHeard
    <3> QED BY <3>1, <3>2
  <2>5. Database("thread") = "home" BY <1>4, <1>6, <2>3, <2>4, HomeUsed
  <2> QED BY <1>8, <2>5
<1> QED BY <1>7, <1>8

LEMMA NextIn ==
  ASSUME NEW m \in Nat, NEW a \in 1 .. m, NEW b, a # m, b = a + 1
  PROVE  a \in Nat /\ b \in Nat /\ b - 1 = a /\ b \in 1 .. m
OBVIOUS
LEMMA Earlier ==
  ASSUME NEW b \in Nat, NEW k \in 1 .. b, k # b
  PROVE  k \in 1 .. b - 1
OBVIOUS

(* A step of the command that goes on to the next one of its plan.         *)
Advances ==
  /\ job.pc = "runs" /\ job'.pc = "runs" /\ job'.wake = job.wake /\ job'.dry = job.dry
  /\ job'.at = job.at + 1 /\ DOMAIN job' = JobFields
  /\ UNCHANGED <<layer, mark, version, layerEdits, fileVars>>
(* One that does not.                                                      *)
Stops == job'.pc # "runs"
JobAsserts == JobTyped /\ AtPlan /\ QueueStands /\ BothStand /\ VersionHeard

LEMMA PlanKept ==
  ASSUME job'.wake = job.wake, job'.dry = job.dry
  PROVE  Plan' = Plan /\ \A n : OfAt(n)' = OfAt(n)
BY DEF Plan, OfAt

LEMMA StartsKeeps ==
  ASSUME NEW wake \in BOOLEAN, NEW dry \in BOOLEAN, StartsJob(wake, dry)
  PROVE  JobAsserts'
<1>1. /\ DOMAIN job' = JobFields /\ job'.pc = "runs" /\ job'.wake = wake /\ job'.dry = dry /\ job'.at = 1
      /\ job'.ordinary = FALSE
  <2>1. job' = [NoJob EXCEPT !.pc = "runs", !.wake = wake, !.dry = dry] BY DEF StartsJob
  <2> QED BY <2>1 DEF NoJob, JobFields
<1>2. JobTyped'
  <2>1. 1 \in Nat /\ FALSE \in BOOLEAN OBVIOUS
  <2> QED BY <1>1, <2>1 DEF JobTyped
<1>3. AtPlan'
  <2>1. Plan' = IF wake THEN WakePlan(dry) ELSE PlainPlan(dry) BY <1>1 DEF Plan
  <2>2. \E m \in Nat \ {0} : Len(Plan') = m
    <3>1. CASE wake
      <4>1. PICK m \in Nat \ {0} : Closing(WakePlan(dry), m, "all", {"wake", "end"}) BY WakeSound
      <4> QED BY <2>1, <3>1, <4>1 DEF Closing, Of
    <3>2. CASE ~wake
      <4>1. PICK m \in Nat \ {0} : Closing(PlainPlan(dry), m, "plan", {"hand over", "end"}) BY PlainSound
      <4> QED BY <2>1, <3>2, <4>1 DEF Closing, Of
    <3> QED BY <3>1, <3>2
  <2>3. PICK m \in Nat \ {0} : Len(Plan') = m BY <2>2
  <2>4. 1 \in 1 .. m BY <2>3
  <2> QED BY <1>1, <2>3, <2>4 DEF AtPlan
<1>4. ~(1 > 2) /\ ~(1 > 3) /\ \A k \in 1 .. 1 - 1 : FALSE OBVIOUS
<1>5. QueueStands' BY <1>1, <1>4 DEF QueueStands
<1>6. BothStand' BY <1>1, <1>4 DEF BothStand
<1>7. VersionHeard'
  <2>1. ~(\E k \in 1 .. job'.at - 1 : TRUE) BY <1>1, <1>4
  <2> QED BY <2>1 DEF VersionHeard
<1> QED BY <1>2, <1>3, <1>5, <1>6, <1>7 DEF JobAsserts

LEMMA StoppedKeeps ==
  ASSUME Stops, JobTyped'
  PROVE  JobAsserts'
BY DEF JobAsserts, Stops, AtPlan, QueueStands, BothStand, VersionHeard

(* What every advance has in common; the last step of a plan does not      *)
(* advance.                                                                *)
LEMMA AdvancesOn ==
  ASSUME JobTyped, AtPlan, Advances, Now.of \notin {"end", "wake"}, Now.of = "hand over" => job.wake
  PROVE  /\ AtPlan' /\ Plan' = Plan /\ (\A n : OfAt(n)' = OfAt(n)) /\ job.at \in 1 .. Len(Plan)
         /\ job.at \in Nat /\ job'.at - 1 = job.at /\ job'.at \in Nat
<1>1. /\ Len(Plan) \in Nat \ {0} /\ Plan[Len(Plan)].of \in {"hand over", "wake", "end"}
      /\ (job.wake => Plan[Len(Plan)].of # "hand over")
  BY PlanSound
<1>2. job.at \in 1 .. Len(Plan) BY DEF AtPlan, Advances
<1>3. job.at # Len(Plan) BY <1>1 DEF Now
<1>4. job'.wake = job.wake /\ job'.dry = job.dry /\ job'.at = job.at + 1 BY DEF Advances
<1>5. Plan' = Plan /\ \A n : OfAt(n)' = OfAt(n) BY <1>4, PlanKept
<1> DEFINE m == Len(Plan)
<1>9. m \in Nat /\ job.at \in 1 .. m /\ job.at # m BY <1>1, <1>2, <1>3
<1> HIDE DEF m
<1>8. job.at \in Nat /\ job'.at \in Nat /\ job'.at - 1 = job.at /\ job'.at \in 1 .. m BY <1>4, <1>9, NextIn
<1>6. job'.at \in 1 .. Len(Plan) BY <1>8 DEF m
<1>7. AtPlan' BY <1>5, <1>6 DEF AtPlan
<1> QED BY <1>2, <1>5, <1>6, <1>7, <1>8

(* An advance that is not a check, and not the query.                      *)
LEMMA AdvancesPast ==
  ASSUME JobAsserts, Advances, Now.of \in {"last", "hand over"}, Now.of = "hand over" => job.wake,
         job'.ordinary = job.ordinary, "version" \in late => "version" \in late'
  PROVE  JobAsserts'
<1> USE DEF JobAsserts
<1>1. /\ AtPlan' /\ (\A n : OfAt(n)' = OfAt(n)) /\ job.at \in Nat /\ job'.at - 1 = job.at /\ job'.at \in Nat
  BY AdvancesOn
<1>2. OfAt(job.at) \in {"last", "hand over"} BY DEF OfAt, Now
<1>3. \A n : n = job'.at => OfAt(n - 1)' \in {"last", "hand over"} BY <1>1, <1>2
<1>4. JobTyped'
  <2>1. /\ DOMAIN job' = JobFields /\ job'.wake = job.wake /\ job'.dry = job.dry /\ job'.pc = "runs"
    BY DEF Advances
  <2> QED BY <1>1, <2>1 DEF JobTyped
<1>5. QueueStands' BY <1>3 DEF QueueStands
<1>6. BothStand' BY <1>3 DEF BothStand
<1>7. VersionHeard'
  <2>1. SUFFICES ASSUME NEW k \in 1 .. job'.at - 1, OfAt(k)' = "version", "version" \notin late'
                 PROVE  job'.ordinary \/ version' = "reviewed"
    BY DEF VersionHeard
  <2>2. OfAt(k) = "version" BY <1>1, <2>1
  <2>3. k # job.at BY <1>2, <2>2
  <2>4. k \in 1 .. job.at - 1
    <3>1. job.at \in Nat /\ k \in 1 .. job.at BY <1>1
    <3> QED BY <2>3, <3>1, Earlier
  <2>5. job.pc = "runs" /\ version' = version BY DEF Advances
  <2> QED BY <2>1, <2>2, <2>4, <2>5 DEF VersionHeard
<1> QED BY <1>1, <1>4, <1>5, <1>6, <1>7

(* The query of the version.                                               *)
LEMMA AsksKeeps ==
  ASSUME JobAsserts, AsksVersion
  PROVE  JobAsserts'
<1> USE DEF JobAsserts
<1>1. job.pc = "runs" /\ Now.of = "version" BY DEF AsksVersion
<1>2. PICK heard \in {version, "other"} : job' = [job EXCEPT !.at = @ + 1, !.ordinary = heard # "reviewed"]
  BY DEF AsksVersion
<1>3. /\ job'.pc = "runs" /\ job'.wake = job.wake /\ job'.dry = job.dry /\ job'.at = job.at + 1
      /\ DOMAIN job' = JobFields /\ job'.ordinary = (heard # "reviewed")
  BY <1>1, <1>2 DEF JobTyped, JobFields
<1>4. Advances BY <1>1, <1>3 DEF Advances, AsksVersion
<1>5. /\ AtPlan' /\ (\A n : OfAt(n)' = OfAt(n)) /\ job.at \in Nat /\ job'.at - 1 = job.at /\ job'.at \in Nat
  BY <1>1, <1>4, AdvancesOn
<1>6. \A n : n = job'.at => OfAt(n - 1)' = "version"
  <2>1. OfAt(job.at) = "version" BY <1>1 DEF OfAt, Now
  <2> QED BY <1>5, <2>1
<1>7. JobTyped'
  <2>1. job'.ordinary \in BOOLEAN /\ job'.wake \in BOOLEAN /\ job'.dry \in BOOLEAN BY <1>3 DEF JobTyped
  <2> QED BY <1>3, <1>5, <2>1 DEF JobTyped
<1>8. QueueStands' BY <1>6 DEF QueueStands
<1>9. BothStand' BY <1>6 DEF BothStand
<1>10. VersionHeard'
  <2>1. version' = version BY DEF AsksVersion
  <2>2. CASE heard = "reviewed" 
    <3>1. version' = "reviewed" BY <1>2, <2>1, <2>2
    <3> QED BY <3>1 DEF VersionHeard
  <2>3. CASE heard # "reviewed"
    <3>1. job'.ordinary BY <1>3, <2>3
    <3> QED BY <3>1 DEF VersionHeard
  <2> QED BY <2>2, <2>3
<1> QED BY <1>5, <1>7, <1>8, <1>9, <1>10

(* A check that is passed.                                                 *)
LEMMA PassedKeeps ==
  ASSUME JobAsserts, ChecksLayers, ~Fails(Now.of, Ordinary)
  PROVE  JobAsserts'
<1> USE DEF JobAsserts
<1>1. job.pc = "runs" /\ Now.of \in {"home", "queue", "thread", "consumer"} /\ job' = [job EXCEPT !.at = @ + 1]
  BY DEF ChecksLayers, Proceeds
<1>2. /\ job'.pc = "runs" /\ job'.wake = job.wake /\ job'.dry = job.dry /\ job'.at = job.at + 1
      /\ DOMAIN job' = JobFields /\ job'.ordinary = job.ordinary
  BY <1>1 DEF JobTyped, JobFields
<1>3. Advances BY <1>1, <1>2 DEF Advances, ChecksLayers
<1>4. /\ AtPlan' /\ Plan' = Plan /\ (\A n : OfAt(n)' = OfAt(n)) /\ job.at \in 1 .. Len(Plan)
      /\ job.at \in Nat /\ job'.at - 1 = job.at /\ job'.at \in Nat
  BY <1>1, <1>3, AdvancesOn
<1>5. \A n : StillPassed(n) => StillPassed(n)'
  <2>1. UNCHANGED <<layer, mark>> BY DEF ChecksLayers
  <2>2. \A at, o : Fails(at, o)' = Fails(at, o) BY <2>1, SameVerdicts
  <2>3. \A n : OrdinaryAt(n)' = OrdinaryAt(n) BY <1>2, <1>4 DEF OrdinaryAt
  <2> QED BY <1>4, <2>2, <2>3 DEF StillPassed
<1>6. StillPassed(job.at)
  <2>1. OfAt(job.at) = Now.of /\ OrdinaryAt(job.at) = Ordinary BY DEF OfAt, Now, OrdinaryAt, Ordinary
  <2> QED BY <2>1 DEF StillPassed
<1>7. JobTyped' BY <1>2, <1>4 DEF JobTyped
<1>8. late' = late /\ version' = version BY DEF ChecksLayers
<1>9. QueueStands'
  <2>1. SUFFICES ASSUME NEW n \in 1 .. Len(Plan)', n = job'.at PROVE StillPassed(n - 1)' BY DEF QueueStands
  <2> QED BY <1>4, <1>5, <1>6, <2>1
<1>10. BothStand'
  <2>1. SUFFICES ASSUME NEW n \in 1 .. Len(Plan)', n = job'.at, late' = {}, n > 3, OfAt(n - 3)' = "last",
                        OfAt(n - 2)' = "queue"
                 PROVE  StillPassed(n - 2)' /\ StillPassed(n - 1)'
    BY DEF BothStand
  <2>2. StillPassed(n - 1)' BY <1>4, <1>5, <1>6, <2>1
  <2> DEFINE m == n - 1
  <2>3. m = job.at /\ m > 2 /\ m - 2 = n - 3 /\ m - 1 = n - 2 BY <1>4, <2>1
  <2>4. OfAt(m - 2) = "last" /\ OfAt(m - 1) = "queue" BY <1>4, <2>1, <2>3
  <2>5. StillPassed(m - 1) BY <1>1, <1>4, <1>8, <2>1, <2>3, <2>4 DEF QueueStands
  <2> QED BY <1>5, <2>2, <2>3, <2>5
<1>11. VersionHeard'
  <2>1. SUFFICES ASSUME NEW k \in 1 .. job'.at - 1, OfAt(k)' = "version", "version" \notin late'
                 PROVE  job'.ordinary \/ version' = "reviewed"
    BY DEF VersionHeard
  <2>2. OfAt(k) = "version" BY <1>4, <2>1
  <2>3. k # job.at BY <1>1, <2>2 DEF OfAt, Now
  <2>4. k \in 1 .. job.at - 1 BY <1>4, <2>3
  <2> QED BY <1>1, <1>2, <1>8, <2>1, <2>2, <2>4 DEF VersionHeard
<1> QED BY <1>4, <1>7, <1>9, <1>10, <1>11

(* Every step of the command and of those who edit.                        *)
LEMMA JobKept ==
  ASSUME JobAsserts, [StorageNext]_storageVars
  PROVE  JobAsserts'
<1>1. JobTyped BY DEF JobAsserts
<1>2. ASSUME NEW wake \in BOOLEAN, NEW dry \in BOOLEAN, StartsJob(wake, dry) PROVE JobAsserts' BY <1>2, StartsKeeps
<1>3. CASE ChecksLayers
  <2>1. CASE ~Fails(Now.of, Ordinary) BY <1>3, <2>1, PassedKeeps
  <2>2. CASE Fails(Now.of, Ordinary)
    <3>1. job' = [job EXCEPT !.pc = "refused"] BY <1>3, <2>2 DEF ChecksLayers, GivesRefusal
    <3>2. JobTyped' /\ Stops BY <1>1, <3>1 DEF JobTyped, JobFields, Stops
    <3> QED BY <3>2, StoppedKeeps
  <2> QED BY <2>1, <2>2
<1>4. CASE AsksVersion BY <1>4, AsksKeeps
<1>5. CASE LastChecks
  <2>1. job.pc = "runs" /\ Now.of = "last" /\ job' = [job EXCEPT !.at = @ + 1] BY <1>5 DEF LastChecks, Proceeds
  <2>2. /\ job'.pc = "runs" /\ job'.wake = job.wake /\ job'.dry = job.dry /\ job'.at = job.at + 1
        /\ DOMAIN job' = JobFields /\ job'.ordinary = job.ordinary
    BY <1>1, <2>1 DEF JobTyped, JobFields
  <2>3. Advances BY <1>5, <2>1, <2>2 DEF Advances, LastChecks
  <2>4. late' = late \cap {"version"} BY <1>5 DEF LastChecks
  <2>5. "version" \in late => "version" \in late' BY <2>4
  <2> QED BY <2>1, <2>2, <2>3, <2>5, AdvancesPast
<1>6. CASE HandsOver
  <2>1. CASE job.wake /\ Now.of = "hand over"
    <3>1. job.pc = "runs" /\ job' = [job EXCEPT !.at = @ + 1] BY <1>6, <2>1 DEF HandsOver
    <3>2. /\ job'.pc = "runs" /\ job'.wake = job.wake /\ job'.dry = job.dry /\ job'.at = job.at + 1
          /\ DOMAIN job' = JobFields /\ job'.ordinary = job.ordinary
      BY <1>1, <3>1 DEF JobTyped, JobFields
    <3>3. Advances /\ late' = late BY <1>6, <3>1, <3>2 DEF Advances, HandsOver
    <3> QED BY <2>1, <3>2, <3>3, AdvancesPast
  <2>2. CASE ~(job.wake /\ Now.of = "hand over")
    <3>1. job' = [job EXCEPT !.pc = "over"] BY <1>6, <2>2 DEF HandsOver
    <3>2. JobTyped' /\ Stops BY <1>1, <3>1 DEF JobTyped, JobFields, Stops
    <3> QED BY <3>2, StoppedKeeps
  <2> QED BY <2>1, <2>2
<1>7. CASE DryRunEnds
  <2>1. job' = [job EXCEPT !.pc = "over"] BY <1>7 DEF DryRunEnds
  <2>2. JobTyped' /\ Stops BY <1>1, <2>1 DEF JobTyped, JobFields, Stops
  <2> QED BY <2>2, StoppedKeeps
<1>8. CASE Edits
  <2>1. job' = job BY <1>8 DEF Edits
  <2>2. Plan' = Plan /\ \A n : OfAt(n)' = OfAt(n) BY <2>1, PlanKept
  <2>3. late' # {} /\ (version' = version \/ "version" \in late') /\ ("version" \in late => "version" \in late')
    <3>1. CASE \E l \in Layers, c \in Contents : /\ layer[l] # c /\ layer' = [layer EXCEPT ![l] = c]
                                                 /\ late' = late \cup {l} /\ UNCHANGED <<mark, version>>
      BY <3>1
    <3>2. CASE \E d \in Dirs, m \in Marks : /\ mark[d] # m /\ mark' = [mark EXCEPT ![d] = m]
                                            /\ late' = late \cup {"marks"} /\ UNCHANGED <<layer, version>>
      BY <3>2
    <3>3. CASE \E v \in {"reviewed", "other"} \ {version} :
                 /\ ~job.wake /\ version' = v /\ late' = late \cup {"version"} /\ UNCHANGED <<layer, mark>>
      BY <3>3
    <3> QED BY <1>8, <3>1, <3>2, <3>3 DEF Edits
  <2>4. JobTyped' /\ AtPlan' BY <2>1, <2>2 DEF JobAsserts, JobTyped, AtPlan
  <2>5. QueueStands' /\ BothStand' BY <2>3 DEF QueueStands, BothStand
  <2>6. VersionHeard' BY <2>1, <2>2, <2>3 DEF JobAsserts, VersionHeard
  <2> QED BY <2>4, <2>5, <2>6 DEF JobAsserts
<1>9. CASE FileNext \/ UNCHANGED storageVars
  <2>1. UNCHANGED <<layer, mark, version, job, late>> BY <1>9 DEF FileNext, storageVars
  <2>2. Plan' = Plan /\ \A n : OfAt(n)' = OfAt(n) BY <2>1, PlanKept
  <2>3. \A n : StillPassed(n) => StillPassed(n)'
    <3>1. \A at, o : Fails(at, o)' = Fails(at, o) BY <2>1, SameVerdicts
    <3>2. \A n : OrdinaryAt(n)' = OrdinaryAt(n) BY <2>1, <2>2 DEF OrdinaryAt
    <3> QED BY <2>2, <3>1, <3>2 DEF StillPassed
  <2>4. JobTyped' /\ AtPlan' BY <2>1, <2>2 DEF JobAsserts, JobTyped, AtPlan
  <2>5. QueueStands' BY <2>1, <2>2, <2>3 DEF JobAsserts, QueueStands
  <2>6. BothStand' BY <2>1, <2>2, <2>3 DEF JobAsserts, BothStand
  <2>7. VersionHeard' BY <2>1, <2>2 DEF JobAsserts, VersionHeard
  <2> QED BY <2>4, <2>5, <2>6, <2>7 DEF JobAsserts
<1> QED BY <1>2, <1>3, <1>4, <1>5, <1>6, <1>7, <1>8, <1>9 DEF StorageNext

(* An effect with nothing edited late is in the home.                      *)
LEMMA LateKept ==
  ASSUME JobAsserts, MovedOnlyLate, [StorageNext]_storageVars
  PROVE  MovedOnlyLate'
<1>1. CASE HandsOver
  <2> DEFINE own == Database(IF Now.of = "wake" THEN "thread" ELSE "queue")
             others == IF Now.of = "wake" THEN {} ELSE {Database("thread"), Database("lexical")}
             h == [used |-> {own} \cup others, late |-> late]
  <2>1. handed' = handed \cup {h} /\ job.pc = "runs" /\ Now.of \in {"hand over", "wake"} BY <1>1 DEF HandsOver
  <2>2. ASSUME late = {} PROVE "elsewhere" \notin h.used
    <3>1. /\ Now.of = "hand over" => /\ Database("queue") = "home" /\ Database("thread") = "home"
                                      /\ Database("lexical") = "home"
          /\ Now.of = "wake" => Database("thread") = "home"
      BY <2>1, <2>2, HandedRight DEF JobAsserts
    <3> QED BY <2>1, <3>1
  <2>3. h.late = late OBVIOUS
  <2> HIDE DEF h
  <2> QED BY <2>1, <2>2, <2>3 DEF MovedOnlyLate
<1>2. CASE ~HandsOver
  <2>1. handed' = handed
    BY <1>2 DEF StorageNext, StartsJob, ChecksLayers, AsksVersion, LastChecks, DryRunEnds, Edits, FileNext, storageVars
  <2> QED BY <2>1 DEF MovedOnlyLate
<1> QED BY <1>1, <1>2

-----------------------------------------------------------------------------
(* The file.                                                               *)
FileAsserts == ConfTyped /\ ReaderKept /\ ReadWhole
(* What was there stays in the past.                                       *)
Grows ==
  /\ conf'.path \in 1 .. MaxFileWrites + 1 /\ conf.path <= conf'.path
  /\ \A i \in 1 .. MaxFileWrites + 1 : conf'.writes[i] \in Nat /\ conf.writes[i] <= conf'.writes[i]

LEMMA SinceKept ==
  ASSUME ConfTyped, Grows, NEW c, Since(c)
  PROVE  Since(c)'
<1>1. MaxFileWrites \in Nat BY StorageAssumption
<1>2. c[1] \in 1 .. conf.path /\ c[2] \in 0 .. conf.writes[c[1]] /\ c = <<c[1], c[2]>> BY DEF Since
<1>3. conf.path \in 1 .. MaxFileWrites + 1 BY DEF ConfTyped
<1>4. c[1] \in 1 .. MaxFileWrites + 1 /\ c[1] \in 1 .. conf'.path BY <1>1, <1>2, <1>3 DEF Grows
<1>5. conf.writes[c[1]] \in Nat BY <1>4 DEF ConfTyped
<1>6. conf'.writes[c[1]] \in Nat /\ conf.writes[c[1]] <= conf'.writes[c[1]] BY <1>4 DEF Grows
<1>7. c[2] \in 0 .. conf'.writes[c[1]] BY <1>2, <1>5, <1>6
<1> QED BY <1>2, <1>4, <1>7 DEF Since

(* What is in a file now is in the past too, and nothing of that file that *)
(* was seen is later.                                                      *)
LEMMA ContainedSince ==
  ASSUME ConfTyped, NEW i \in 1 .. conf.path
  PROVE  /\ Since(Contained(i)) /\ Contained(i)[1] = i /\ Contained(i)[2] = conf.writes[i]
<1>1. MaxFileWrites \in Nat /\ conf.path \in 1 .. MaxFileWrites + 1 BY StorageAssumption DEF ConfTyped
<1>2. i \in 1 .. MaxFileWrites + 1 BY <1>1
<1>3. conf.writes[i] \in Nat BY <1>2 DEF ConfTyped
<1>4. conf.writes[i] \in 0 .. conf.writes[i] BY <1>3
<1>5. Contained(i) = <<i, conf.writes[i]>> /\ Contained(i)[1] = i /\ Contained(i)[2] = conf.writes[i]
  BY DEF Contained
<1> QED BY <1>4, <1>5 DEF Since

LEMMA ConfMoves ==
  ASSUME ConfTyped, Replaces \/ WritesFile
  PROVE  ConfTyped' /\ Grows
<1>1. MaxFileWrites \in Nat /\ conf.path \in 1 .. MaxFileWrites + 1 /\ conf.writes \in [1 .. MaxFileWrites + 1 -> Nat]
      /\ DOMAIN conf = {"path", "writes"}
  BY StorageAssumption DEF ConfTyped
<1>2. CASE Replaces
  <2>1. conf.path \in 1 .. MaxFileWrites /\ conf'.path = conf.path + 1 /\ conf'.writes = conf.writes
        /\ DOMAIN conf' = {"path", "writes"}
    BY <1>1, <1>2 DEF Replaces
  <2>2. conf'.path \in 1 .. MaxFileWrites + 1 /\ conf.path <= conf'.path BY <1>1, <2>1
  <2>3. \A i \in 1 .. MaxFileWrites + 1 : conf'.writes[i] \in Nat /\ conf.writes[i] <= conf'.writes[i] BY <1>1, <2>1
  <2> QED BY <1>1, <2>1, <2>2, <2>3 DEF ConfTyped, Grows
<1>3. CASE WritesFile
  <2>1. PICK i \in 1 .. conf.path : conf' = [conf EXCEPT !.writes[i] = @ + 1] BY <1>3 DEF WritesFile
  <2>2. i \in 1 .. MaxFileWrites + 1 BY <1>1
  <2>3. /\ conf'.path = conf.path /\ conf'.writes = [conf.writes EXCEPT ![i] = @ + 1]
        /\ DOMAIN conf' = {"path", "writes"}
    BY <1>1, <2>1
  <2>4. \A j \in 1 .. MaxFileWrites + 1 : conf'.writes[j] \in Nat /\ conf.writes[j] <= conf'.writes[j]
    BY <1>1, <2>2, <2>3
  <2>5. conf'.writes \in [1 .. MaxFileWrites + 1 -> Nat] BY <1>1, <2>2, <2>3
  <2>6. conf.path <= conf.path BY <1>1
  <2> QED BY <1>1, <2>3, <2>4, <2>5, <2>6 DEF ConfTyped, Grows
<1> QED BY <1>2, <1>3

LEMMA ReaderOutlives ==
  ASSUME ConfTyped, Grows, ReaderKept, ReadWhole, reader' = reader
  PROVE  ReaderKept' /\ ReadWhole'
<1>1. \A c : Since(c) => Since(c)' BY SinceKept
<1>2. MaxFileWrites \in Nat /\ conf.path \in 1 .. MaxFileWrites + 1 BY StorageAssumption DEF ConfTyped
<1>3. \A i \in 1 .. conf.path : i \in 1 .. conf'.path BY <1>2 DEF Grows
<1>4. Since(reader.before) => Since(reader.before)'
  <2>1. PICK c : c = reader.before OBVIOUS
  <2> QED BY <1>1, <2>1 DEF Since
<1>5. Since(reader.after) => Since(reader.after)'
  <2>1. PICK c : c = reader.after OBVIOUS
  <2> QED BY <1>1, <2>1 DEF Since
<1>6. ReaderKept' BY <1>1, <1>3, <1>4, <1>5 DEF ReaderKept, Pinned
<1> QED BY <1>6 DEF ReadWhole

LEMMA ReaderMoves ==
  ASSUME FileAsserts, Looks \/ Opens \/ ReadsPiece \/ LooksAgain \/ Compares
  PROVE  FileAsserts'
<1> USE DEF FileAsserts
<1>1. conf' = conf BY DEF Looks, Opens, ReadsPiece, LooksAgain, Compares
<1>2. ConfTyped' BY <1>1 DEF ConfTyped
<1>3. \A c : Since(c)' <=> Since(c) BY <1>1 DEF Since
<1>4. MaxFileWrites \in Nat /\ conf.path \in 1 .. MaxFileWrites + 1 BY StorageAssumption DEF ConfTyped
<1>5. conf.path \in 1 .. conf.path BY <1>4
<1>6. DOMAIN reader = ReaderFields BY DEF ReaderKept
<1>7. CASE Looks
  <2> DEFINE c == Contained(conf.path)
  <2>1. reader.pc = "idle" /\ reader' = [reader EXCEPT !.pc = "open", !.before = c] BY <1>7 DEF Looks
  <2>2. Since(c) BY <1>5, ContainedSince
  <2> HIDE DEF c
  <2>3. DOMAIN reader' = ReaderFields /\ reader'.pc = "open" /\ reader'.before = c /\ reader'.data = reader.data
    BY <1>6, <2>1 DEF ReaderFields
  <2>4. reader.data = {} BY <2>1 DEF ReaderKept
  <2>5. Since(reader.before)' BY <1>1, <2>2, <2>3 DEF Since
  <2>6. ReaderKept' BY <2>3, <2>4, <2>5 DEF ReaderKept
  <2>7. ReadWhole' BY <2>3 DEF ReadWhole
  <2> QED BY <1>2, <2>6, <2>7
<1>8. CASE Opens
  <2>1. reader.pc = "open" /\ reader' = [reader EXCEPT !.pc = "read", !.of = conf.path] BY <1>8 DEF Opens
  <2>2. /\ DOMAIN reader' = ReaderFields /\ reader'.pc = "read" /\ reader'.before = reader.before
        /\ reader'.data = reader.data /\ reader'.of = conf.path
    BY <1>6, <2>1 DEF ReaderFields
  <2>3. reader.data = {} /\ Since(reader.before) BY <2>1 DEF ReaderKept
  <2>4. Since(reader.before)' BY <1>1, <2>2, <2>3 DEF Since
  <2>5. reader'.of \in 1 .. conf'.path BY <1>1, <1>5, <2>2
  <2>6. ReaderKept' BY <2>2, <2>3, <2>4, <2>5 DEF ReaderKept
  <2>7. ReadWhole' BY <2>2 DEF ReadWhole
  <2> QED BY <1>2, <2>6, <2>7
<1>9. CASE ReadsPiece
  <2> DEFINE d == Contained(reader.of)
  <2>1. PICK pc \in {"read", "after"} : reader' = [reader EXCEPT !.pc = pc, !.data = @ \cup {d}] BY <1>9 DEF ReadsPiece
  <2>2. reader.pc = "read" /\ Pinned BY <1>9 DEF ReadsPiece
  <2>3. /\ Since(reader.before) /\ reader.of \in 1 .. conf.path
        /\ \A c \in reader.data : Since(c) /\ c[1] = reader.of /\ reader.before[2] <= c[2]
    BY <2>2 DEF ReaderKept
  <2>4. Since(d) /\ d[1] = reader.of /\ d[2] = conf.writes[reader.of] BY <2>3, ContainedSince
  <2>5. reader.before[2] <= d[2]
    <3>1. reader.before[1] = reader.of BY <2>2 DEF Pinned
    <3>2. reader.before[2] \in 0 .. conf.writes[reader.of] BY <2>3, <3>1 DEF Since
    <3>3. reader.of \in 1 .. MaxFileWrites + 1 BY <1>4, <2>3
    <3>4. conf.writes[reader.of] \in Nat BY <3>3 DEF ConfTyped
    <3> QED BY <2>4, <3>2, <3>4
  <2> HIDE DEF d
  <2>6. /\ DOMAIN reader' = ReaderFields /\ reader'.pc = pc /\ reader'.before = reader.before
        /\ reader'.data = reader.data \cup {d} /\ reader'.of = reader.of
    BY <1>6, <2>1 DEF ReaderFields
  <2>7. Since(reader.before)' BY <1>1, <2>3, <2>6 DEF Since
  <2>8. Pinned' BY <2>2, <2>6 DEF Pinned
  <2>9. \A c \in reader'.data : Since(c)' /\ c[1] = reader'.of /\ reader'.before[2] <= c[2]
    BY <1>3, <2>3, <2>4, <2>5, <2>6
  <2>10. reader'.of \in 1 .. conf'.path BY <1>1, <2>3, <2>6
  <2>11. reader'.data # {} BY <2>6
  <2>12. ReaderKept' BY <2>6, <2>7, <2>8, <2>9, <2>10, <2>11 DEF ReaderKept
  <2>13. ReadWhole' BY <2>6 DEF ReadWhole
  <2> QED BY <1>2, <2>12, <2>13
<1>10. CASE LooksAgain
  <2> DEFINE d == Contained(reader.of)
  <2>1. reader.pc = "after" /\ reader' = [reader EXCEPT !.pc = "compare", !.after = d] BY <1>10 DEF LooksAgain
  <2>2. /\ Since(reader.before) /\ reader.of \in 1 .. conf.path /\ reader.data # {}
        /\ \A c \in reader.data : Pinned /\ Since(c) /\ c[1] = reader.of /\ reader.before[2] <= c[2]
    BY <2>1 DEF ReaderKept
  <2>3. Since(d) /\ d[1] = reader.of /\ d[2] = conf.writes[reader.of] BY <2>2, ContainedSince
  <2>4. ASSUME NEW c \in reader.data PROVE c[2] <= d[2]
    <3>1. c[2] \in 0 .. conf.writes[reader.of] BY <2>2 DEF Since
    <3>3. reader.of \in 1 .. MaxFileWrites + 1 BY <1>4, <2>2
    <3>4. conf.writes[reader.of] \in Nat BY <3>3 DEF ConfTyped
    <3> QED BY <2>3, <3>1, <3>4
  <2> HIDE DEF d
  <2>5. /\ DOMAIN reader' = ReaderFields /\ reader'.pc = "compare" /\ reader'.before = reader.before
        /\ reader'.data = reader.data /\ reader'.of = reader.of /\ reader'.after = d
    BY <1>6, <2>1 DEF ReaderFields
  <2>6. Since(reader.before)' /\ Since(reader.after)' BY <1>1, <2>2, <2>3, <2>5 DEF Since
  <2>7. \A c \in reader'.data : Pinned' /\ Since(c)' /\ c[1] = reader'.of /\ reader'.before[2] <= c[2]
    BY <1>3, <2>2, <2>5 DEF Pinned
  <2>8. reader'.of \in 1 .. conf'.path BY <1>1, <2>2, <2>5
  <2>9. ReaderKept' BY <2>2, <2>3, <2>4, <2>5, <2>6, <2>7, <2>8 DEF ReaderKept
  <2>10. ReadWhole' BY <2>5 DEF ReadWhole
  <2> QED BY <1>2, <2>9, <2>10
<1>11. CASE Compares
  <2> DEFINE d == Contained(conf.path)
             pc == IF reader.pc = "compare" /\ Accepted THEN "accepted" ELSE "refused"
  <2>1. reader' = [reader EXCEPT !.pc = pc, !.after = d] BY <1>11 DEF Compares
  <2>2. /\ DOMAIN reader' = ReaderFields /\ reader'.pc = pc /\ reader'.data = reader.data /\ reader'.after = d
    BY <1>6, <2>1 DEF ReaderFields
  <2>3. ReaderKept' BY <2>2 DEF ReaderKept
  <2>4. ReadWhole'
    <3>1. SUFFICES ASSUME reader.pc = "compare", Accepted PROVE reader.data = {d} BY <2>2 DEF ReadWhole
    <3>2. /\ Since(reader.before) /\ reader.data # {} /\ Since(reader.after) /\ reader.after[1] = reader.of
          /\ \A c \in reader.data : /\ Since(c) /\ c[1] = reader.of /\ reader.before[2] <= c[2]
                                    /\ c[2] <= reader.after[2]
      BY <3>1 DEF ReaderKept
    <3>3. reader.after = reader.before /\ d = reader.after BY <3>1 DEF Accepted
    <3>4. d = <<d[1], d[2]>> /\ d[2] \in Int /\ d[1] = reader.of BY <3>2, <3>3 DEF Since
    <3>5. ASSUME NEW c \in reader.data PROVE c = d
      <4>1. c = <<c[1], c[2]>> /\ c[2] \in Int BY <3>2 DEF Since
      <4>2. c[2] = d[2] BY <3>2, <3>3, <3>4, <4>1
      <4> QED BY <3>2, <3>4, <4>1, <4>2
    <3> QED BY <3>2, <3>5
  <2> QED BY <1>2, <2>3, <2>4
<1> QED BY <1>7, <1>8, <1>9, <1>10, <1>11

LEMMA FileKept ==
  ASSUME FileAsserts, [StorageNext]_storageVars
  PROVE  FileAsserts'
<1>1. CASE Replaces \/ WritesFile
  <2>1. reader' = reader BY <1>1 DEF Replaces, WritesFile
  <2> QED BY <1>1, <2>1, ConfMoves, ReaderOutlives DEF FileAsserts
<1>2. CASE Looks \/ Opens \/ ReadsPiece \/ LooksAgain \/ Compares BY <1>2, ReaderMoves
<1>3. CASE UNCHANGED fileVars
  <2>1. conf' = conf /\ reader' = reader BY <1>3 DEF fileVars
  <2> QED BY <2>1 DEF FileAsserts, ConfTyped, ReaderKept, ReadWhole, Since, Pinned
<1>4. \/ Replaces \/ WritesFile \/ Looks \/ Opens \/ ReadsPiece \/ LooksAgain \/ Compares
      \/ UNCHANGED fileVars
  BY DEF StorageNext, StartsJob, ChecksLayers, AsksVersion, LastChecks, HandsOver, DryRunEnds, Edits, FileNext,
         storageVars, fileVars
<1> QED BY <1>1, <1>2, <1>3, <1>4

StorageInv == JobAsserts /\ MovedOnlyLate /\ FileAsserts

(* What the storage checks guarantee (StorageSafe), of every behaviour:    *)
(* no process uses another database than the selected home's unless what   *)
(* it follows from was edited after the last look at it had begun, and a   *)
(* file is classified by what was in it at one moment.                     *)
THEOREM StorageHeld == StorageSpec => []StorageSafe
<1>1. StorageInit => StorageInv
  <2> SUFFICES ASSUME StorageInit PROVE StorageInv OBVIOUS
  <2>1. /\ DOMAIN job = JobFields /\ job.pc = "idle" /\ job.wake \in BOOLEAN /\ job.dry \in BOOLEAN
        /\ job.ordinary \in BOOLEAN /\ job.at \in Nat
    BY DEF StorageInit, NoJob, JobFields
  <2>2. JobAsserts BY <2>1 DEF JobAsserts, JobTyped, AtPlan, QueueStands, BothStand, VersionHeard
  <2>3. MovedOnlyLate BY DEF StorageInit, MovedOnlyLate
  <2>4. ConfTyped
    <3>1. MaxFileWrites \in Nat BY StorageAssumption
    <3>2. 1 \in 1 .. MaxFileWrites + 1 BY <3>1
    <3> QED BY <3>2 DEF StorageInit, ConfTyped
  <2>5. /\ DOMAIN reader = ReaderFields /\ reader.pc = "idle" /\ reader.data = {}
    BY DEF StorageInit, NoReader, ReaderFields
  <2>6. ReaderKept /\ ReadWhole BY <2>5 DEF ReaderKept, ReadWhole
  <2> QED BY <2>2, <2>3, <2>4, <2>6 DEF StorageInv, FileAsserts
<1>2. StorageInv /\ [StorageNext]_storageVars => StorageInv' BY JobKept, LateKept, FileKept DEF StorageInv
<1>3. StorageInv => StorageSafe BY DEF StorageInv, FileAsserts, StorageSafe
<1> QED BY <1>1, <1>2, <1>3, PTL DEF StorageSpec

-----------------------------------------------------------------------------
(* Guided setup.  What a command does under setup.lock, by kind.           *)
OfferPcs == {"pend", "create", "show", "record"}
EnrollPcs == {"prepare", "doubt", "enrol", "receipt"}
InvitePcs == {"promise", "mint", "deliver", "delivered"}
PairPcs == {"intend", "pair", "trusted"}
LockedPcs == OfferPcs \cup EnrollPcs \cup InvitePcs \cup PairPcs \cup {"publish"}
InitPcs == {"idle", "identity", "certificate", "open", "initialised"}

RowStates == {"none", "open", "pruned"} \cup Ended
Verdicts == {"unset", "complete", "stopped_unknown"} \cup Ended
RunRecord == [pc : LockedPcs \cup InitPcs, id : 0 .. MaxOffers,
              what : Verdicts \cup Intents \cup Policies \cup Invitations]
JournalRecord ==
  [identity : {0, 1}, offer : {"none", "pending", "not_created"} \cup Verdicts, offerId : 0 .. MaxOffers,
   enroll : {"none", "prepared", "unknown", "committed"}, intent : {"unset"} \cup Intents, op : Nat,
   invite : {"none", "pending", "complete"}, pair : {"unset"} \cup Invitations, paired : {"none", "pending", "complete"}]

SetupTypeOK ==
  /\ files \in [{"key", "cert", "db"} -> {0, 1}] /\ traces \in BOOLEAN /\ generated \in {0, 1}
  /\ setupLock \in Runs \cup {0} /\ journal \in JournalRecord
  /\ offerRow \in [1 .. MaxOffers -> RowStates] /\ offersTried \in 0 .. MaxOffers
  /\ shownLinks \subseteq 1 .. MaxOffers /\ minted \in Nat /\ savedInvites \in Nat
  /\ policyFile \in {"unset"} \cup Policies /\ peerState \in {"unknown", "paired", "revoked"}
  /\ run \in [Runs -> RunRecord]

(* Who is in such a command holds the lock, and the identity stays.        *)
LockRight(p) == run[p].pc \in LockedPcs => setupLock = p /\ files.db = 1

(* A generated identity leaves a trace; who was let through to generate    *)
(* one found neither, or it has come since.                                *)
IdentityRight ==
  /\ generated = 0 => \A f \in {"key", "cert", "db"} : files[f] = 0
  /\ generated # 0 => traces
  /\ \A p \in Runs : /\ run[p].pc = "identity" => generated = 0 \/ files.key # 0 \/ files.cert # 0
                     /\ run[p].pc = "certificate" => files.key # 0

(* What a command of an offer knows of its row.                            *)
OfferRight(p) ==
  LET c == run[p]
      row == offerRow[c.id] IN
  /\ c.pc \in OfferPcs => c.id \in 1 .. offersTried
  /\ c.pc \in {"pend", "create", "show"} => c.what = "unset"
  /\ c.pc = "pend" => journal.offer # "pending" /\ row = "none"
  /\ c.pc = "create" => journal.offer = "pending" /\ journal.offerId = c.id /\ row = "none"
  /\ c.pc = "show" => journal.offer = "pending" /\ journal.offerId = c.id
  /\ c.pc = "record" =>
       /\ journal.offerId = c.id /\ c.what \in Verdicts
       /\ c.what = "unset" => row = "none"
       /\ c.what = "complete" => c.id \in shownLinks
       /\ c.what = "stopped_unknown" => row \in {"none", "pruned"}
       /\ c.what \in Ended => row \in {c.what, "pruned"}
OffersRight ==
  /\ \A o \in 1 .. MaxOffers : o > offersTried => offerRow[o] = "none"
  /\ journal.offerId <= offersTried
  /\ \A p \in Runs : OfferRight(p)
  /\ OffersAccounted
  /\ JournalTrue

(* Nothing is sent before it is in doubt, and then the journal's operation. *)
EnrollRight ==
  /\ journal.enroll \in {"none", "prepared"} => enrollSent = {}
  /\ enrollSent \subseteq {[op |-> journal.op, intent |-> journal.intent, identity |-> 1]}
  /\ enrolled \subseteq enrollSent
  /\ journal.enroll = "committed" => \E e \in enrolled : e.op = journal.op /\ e.intent = journal.intent
  /\ \A p \in Runs : /\ run[p].pc = "prepare" => journal.enroll = "none" /\ run[p].what \in Intents
                     /\ run[p].pc = "enrol" => journal.enroll = "unknown"

(* A secret without its file is the one a command is delivering, or the    *)
(* journal still says that one is pending.                                 *)
InviteRight ==
  /\ minted <= savedInvites + 1
  /\ journal.invite # "pending" => minted = savedInvites
  /\ \A p \in Runs :
       /\ run[p].pc = "promise" => journal.invite # "pending"
       /\ run[p].pc \in {"mint", "delivered"} => minted = savedInvites
       /\ run[p].pc = "deliver" => minted = savedInvites + 1
       /\ run[p].pc \in {"mint", "deliver", "delivered"} => journal.invite = "pending"

(* The invitation tried is the journal's.                                  *)
PairRight ==
  /\ pairTried \subseteq {journal.pair} \ {"unset"}
  /\ journal.paired = "complete" => peerState \in {"paired", "revoked"}
  /\ \A p \in Runs :
       /\ run[p].pc = "intend" => run[p].what \in Invitations /\ journal.pair \in {"unset", run[p].what}
       /\ run[p].pc = "pair" => journal.pair = run[p].what /\ run[p].what # "unset"
       /\ run[p].pc = "trusted" => peerState \in {"paired", "revoked"}
       /\ run[p].pc = "publish" => run[p].what \in Policies

SetupInv ==
  /\ SetupTypeOK
  /\ \A p \in Runs : LockRight(p)
  /\ IdentityRight
  /\ OffersRight
  /\ EnrollRight
  /\ InviteRight
  /\ PairRight

LEMMA Numbers == MaxOffers \in Nat /\ 0 \in 0 .. MaxOffers
<1>1. MaxOffers \in Nat
  BY SetupAssumption
<1> QED
  BY <1>1

LEMMA NoRunZero == \A p \in Runs : p # 0
BY SetupAssumption

LEMMA SetupInitially == SetupInit => SetupInv
<1> SUFFICES ASSUME SetupInit PROVE SetupInv
  OBVIOUS
<1>0. journal = NoJournal /\ 0 \in 0 .. MaxOffers
  BY Numbers DEF SetupInit
<1>1. /\ journal.identity = 0 /\ journal.offer = "none" /\ journal.offerId = 0 /\ journal.enroll = "none" /\ journal.intent = "unset"
      /\ journal.invite = "none" /\ journal.pair = "unset" /\ journal.paired = "none" /\ journal \in JournalRecord
  BY <1>0 DEF NoJournal, JournalRecord
<1>2. \A p \in Runs : run[p] = NoRun
  BY DEF SetupInit
<1>3. NoRun \in RunRecord /\ NoRun.pc = "idle"
  BY <1>0 DEF NoRun, RunRecord, Verdicts, InitPcs
<1>x. files = [key |-> 0, cert |-> 0, db |-> 0]
  BY DEF SetupInit
<1>y. files \in [{"key", "cert", "db"} -> {0, 1}]
  BY <1>x
<1>z. files.key = 0 /\ files.cert = 0 /\ files.db = 0
  BY <1>x
<1>4. SetupTypeOK
  <2>1. offerRow \in [1 .. MaxOffers -> RowStates]
    BY DEF SetupInit, RowStates
  <2>2. run \in [Runs -> RunRecord]
    BY <1>3 DEF SetupInit
  <2>3. offersTried \in 0 .. MaxOffers
    BY <1>0 DEF SetupInit
  <2> QED
    BY <1>1, <1>y, <2>1, <2>2, <2>3 DEF SetupInit, SetupTypeOK
<1>5. \A p \in Runs : LockRight(p)
  BY <1>2, <1>3 DEF LockRight, LockedPcs, OfferPcs, EnrollPcs, InvitePcs, PairPcs
<1>6. IdentityRight
  <2>1. generated = 0
    BY DEF SetupInit
  <2> QED
    BY <1>2, <1>3, <1>z, <2>1 DEF IdentityRight
<1>7. OffersRight
  <2>1. \A o \in 1 .. MaxOffers : offerRow[o] = "none"
    BY DEF SetupInit
  <2>2. \A p \in Runs : OfferRight(p)
    BY <1>2, <1>3 DEF OfferRight, OfferPcs
  <2>3. offersTried = 0
    BY DEF SetupInit
  <2>4. OffersAccounted /\ JournalTrue
    BY <1>1, <2>1 DEF OffersAccounted, JournalTrue
  <2>5. journal.offerId <= offersTried
    BY <1>1, <2>3
  <2> QED
    BY <2>1, <2>2, <2>4, <2>5 DEF OffersRight
<1>8. EnrollRight
  <2>1. enrollSent = {} /\ enrolled = {}
    BY DEF SetupInit
  <2> QED
    BY <1>1, <1>2, <1>3, <2>1 DEF EnrollRight
<1>9. InviteRight
  <2>1. minted = 0 /\ savedInvites = 0
    BY DEF SetupInit
  <2>2. minted <= savedInvites + 1
    BY <2>1
  <2> QED
    BY <1>2, <1>3, <2>1, <2>2 DEF InviteRight
<1>10. PairRight
  <2>1. pairTried = {}
    BY DEF SetupInit
  <2> QED
    BY <1>1, <1>2, <1>3, <2>1 DEF PairRight
<1> QED
  BY <1>4, <1>5, <1>6, <1>7, <1>8, <1>9, <1>10 DEF SetupInv

(* A step of one command: what it does not touch stays right.              *)
LEMMA OneCommand ==
  ASSUME SetupInv, NEW p \in Runs, NEW n \in RunRecord, run' = [run EXCEPT ![p] = n], SetupTypeOK',
         n.pc \in LockedPcs => setupLock' = p /\ files'.db = 1,
         setupLock' = setupLock \/ setupLock \in {0, p}, files.db = 1 => files'.db = 1,
         \/ IdentityRight'
         \/ UNCHANGED <<files, traces, generated>> /\ n.pc \notin {"identity", "certificate"},
         \/ OffersRight'
         \/ /\ UNCHANGED offerVars /\ journal'.offer = journal.offer /\ journal'.offerId = journal.offerId
            /\ n.pc \notin OfferPcs,
         \/ EnrollRight'
         \/ /\ UNCHANGED enrollVars /\ journal'.enroll = journal.enroll /\ journal'.intent = journal.intent
            /\ journal'.op = journal.op /\ n.pc \notin {"prepare", "enrol"},
         \/ InviteRight'
         \/ UNCHANGED inviteVars /\ journal'.invite = journal.invite /\ n.pc \notin InvitePcs,
         \/ PairRight'
         \/ /\ UNCHANGED pairVars /\ journal'.pair = journal.pair /\ journal'.paired = journal.paired
            /\ n.pc \notin PairPcs \cup {"publish"}
  PROVE  SetupInv'
<1> USE DEF SetupInv
<1>1. run'[p] = n /\ \A q \in Runs : q # p => run'[q] = run[q]
  BY DEF SetupTypeOK
<1>2. \A q \in Runs : LockRight(q)'
  <2> SUFFICES ASSUME NEW q \in Runs, run'[q].pc \in LockedPcs PROVE setupLock' = q /\ files'.db = 1
    BY DEF LockRight
  <2>1. CASE q = p
    BY <2>1, <1>1
  <2>2. CASE q # p
    BY <2>2, <1>1, NoRunZero DEF LockRight
  <2> QED
    BY <2>1, <2>2
<1>3. IdentityRight'
  BY <1>1 DEF IdentityRight
<1>4. OffersRight'
  <2> SUFFICES ASSUME UNCHANGED offerVars, journal'.offer = journal.offer, journal'.offerId = journal.offerId,
                      n.pc \notin OfferPcs
               PROVE  OffersRight'
    OBVIOUS
  <2>1. UNCHANGED <<offerRow, offersTried, shownLinks>>
    BY DEF offerVars
  <2>2. OffersAccounted' /\ JournalTrue'
    BY <2>1 DEF OffersRight, OffersAccounted, JournalTrue
  <2>3. ASSUME NEW q \in Runs PROVE OfferRight(q)'
    <3>1. CASE q = p
      BY <3>1, <1>1 DEF OfferRight, OfferPcs
    <3>2. CASE q # p
      <4>1. OfferRight(q) /\ run'[q] = run[q]
        BY <3>2, <1>1 DEF OffersRight
      <4>2. offerRow'[run'[q].id] = offerRow[run[q].id]
        BY <4>1, <2>1
      <4>3. PICK c : c = run[q]
        OBVIOUS
      <4>4. PICK row : row = offerRow[c.id]
        OBVIOUS
      <4>5. run'[q] = c /\ offerRow'[c.id] = row
        BY <4>1, <4>2, <4>3, <4>4
      <4>6. OfferRight(q)
        BY <4>1
      <4> QED
        BY <4>3, <4>4, <4>5, <4>6, <2>1 DEF OfferRight
    <3> QED
      BY <3>1, <3>2
  <2> QED
    BY <2>1, <2>2, <2>3 DEF OffersRight
<1>5. EnrollRight'
  <2> SUFFICES ASSUME UNCHANGED enrollVars, journal'.enroll = journal.enroll, journal'.intent = journal.intent,
                      journal'.op = journal.op, n.pc \notin {"prepare", "enrol"}
               PROVE  EnrollRight'
    OBVIOUS
  <2>1. UNCHANGED <<enrollSent, enrolled>>
    BY DEF enrollVars
  <2>2. \A q \in Runs : run'[q] = run[q] \/ run'[q].pc \notin {"prepare", "enrol"}
    BY <1>1
  <2> QED
    BY <2>1, <2>2 DEF EnrollRight
<1>6. InviteRight'
  <2> SUFFICES ASSUME UNCHANGED inviteVars, journal'.invite = journal.invite, n.pc \notin InvitePcs
               PROVE  InviteRight'
    OBVIOUS
  <2>1. UNCHANGED <<minted, savedInvites>>
    BY DEF inviteVars
  <2>2. \A q \in Runs : run'[q] = run[q] \/ run'[q].pc \notin InvitePcs
    BY <1>1
  <2> QED
    BY <2>1, <2>2 DEF InviteRight, InvitePcs
<1>7. PairRight'
  <2> SUFFICES ASSUME UNCHANGED pairVars, journal'.pair = journal.pair, journal'.paired = journal.paired,
                      n.pc \notin PairPcs \cup {"publish"}
               PROVE  PairRight'
    OBVIOUS
  <2>1. UNCHANGED <<peerState, pairTried>>
    BY DEF pairVars
  <2>2. \A q \in Runs : run'[q] = run[q] \/ run'[q].pc \notin PairPcs \cup {"publish"}
    BY <1>1
  <2> QED
    BY <2>1, <2>2 DEF PairRight, PairPcs
<1> QED
  BY <1>2, <1>3, <1>4, <1>5, <1>6, <1>7

(* The forms of a step: on to the next one, over, or a first one.          *)
LEMMA StepForm ==
  ASSUME SetupTypeOK, NEW p \in Runs, NEW pc \in LockedPcs \cup InitPcs, Step(p, pc)
  PROVE  \E n \in RunRecord : run' = [run EXCEPT ![p] = n] /\ n.pc = pc /\ n.id = run[p].id /\ n.what = run[p].what
<1>1. run[p] \in RunRecord
  BY DEF SetupTypeOK
<1>2. PICK n : n = [run[p] EXCEPT !.pc = pc]
  OBVIOUS
<1>3. n \in RunRecord /\ n.pc = pc /\ n.id = run[p].id /\ n.what = run[p].what
  BY <1>1, <1>2 DEF RunRecord
<1>4. run' = [run EXCEPT ![p] = n]
  BY <1>2 DEF Step
<1> QED
  BY <1>3, <1>4

LEMMA OverForm ==
  ASSUME NEW p \in Runs, Over(p)
  PROVE  /\ NoRun \in RunRecord /\ run' = [run EXCEPT ![p] = NoRun] /\ NoRun.pc = "idle" /\ NoRun.pc \notin LockedPcs
         /\ setupLock' = setupLock \/ setupLock = p
         /\ setupLock' \in {0, setupLock}
BY Numbers DEF Over, NoRun, RunRecord, Verdicts, InitPcs, LockedPcs, OfferPcs, EnrollPcs, InvitePcs, PairPcs

LEMMA StartForm ==
  ASSUME SetupInv, NEW p \in Runs, NEW pc \in LockedPcs, NEW id \in 0 .. MaxOffers,
         NEW what \in Verdicts \cup Intents \cup Policies \cup Invitations, Starts(p, pc, id, what)
  PROVE  /\ \E n \in RunRecord : run' = [run EXCEPT ![p] = n] /\ n.pc = pc /\ n.id = id /\ n.what = what
         /\ setupLock = 0 /\ setupLock' = p /\ files.db = 1
<1>1. PICK n : n = [pc |-> pc, id |-> id, what |-> what]
  OBVIOUS
<1>2. n \in RunRecord /\ n.pc = pc /\ n.id = id /\ n.what = what
  BY <1>1 DEF RunRecord
<1>3. run' = [run EXCEPT ![p] = n] /\ setupLock = 0 /\ setupLock' = p
  BY <1>1 DEF Starts, TakesLock
<1>4. files.db # 0
  BY DEF Starts, Whole, Present
<1> QED
  BY <1>2, <1>3, <1>4 DEF SetupInv, SetupTypeOK

(* While a command holds the lock, or nobody does, no other is in one.     *)
LEMMA Alone ==
  ASSUME SetupInv, NEW p \in Runs, run[p].pc \in LockedPcs \/ setupLock = 0, NEW q \in Runs, q # p
  PROVE  run[q].pc \notin LockedPcs
BY NoRunZero DEF SetupInv, LockRight

(* A save keeps what it is not about, and the identity is the one there.   *)
LEMMA SavedForm ==
  ASSUME SetupTypeOK, NEW j \in JournalRecord, Saves(j)
  PROVE  /\ journal' \in JournalRecord /\ journal'.offer = j.offer /\ journal'.offerId = j.offerId
         /\ journal'.enroll = j.enroll /\ journal'.intent = j.intent /\ journal'.op = j.op
         /\ journal'.invite = j.invite /\ journal'.pair = j.pair /\ journal'.paired = j.paired
<1>1. files.db \in {0, 1}
  BY DEF SetupTypeOK
<1>2. journal' = [j EXCEPT !.identity = files.db]
  BY DEF Saves
<1> QED
  BY <1>1, <1>2 DEF JournalRecord

(* Initialisation.                                                         *)
LEMMA FilesForm ==
  ASSUME SetupTypeOK, NEW f \in {"key", "cert", "db"}, NEW v \in {0, 1}, NEW g, g = [files EXCEPT ![f] = v]
  PROVE  /\ g \in [{"key", "cert", "db"} -> {0, 1}] /\ g[f] = v
         /\ \A h \in {"key", "cert", "db"} : h # f => g[h] = files[h]
BY DEF SetupTypeOK

LEMMA StepInit ==
  ASSUME SetupInv, NEW p \in Runs, RunInit(p)
  PROVE  SetupInv'
<1> USE DEF SetupInv
<1>0. /\ "identity" \in InitPcs /\ "certificate" \in InitPcs /\ "open" \in InitPcs /\ "initialised" \in InitPcs
      /\ \A pc \in InitPcs : pc \notin LockedPcs
  BY DEF InitPcs, LockedPcs, OfferPcs, EnrollPcs, InvitePcs, PairPcs
<1> DEFINE Rest == UNCHANGED <<offerVars, inviteVars, enrollVars, pairVars, policyFile>>
<1>1. ASSUME NEW n \in RunRecord, run' = [run EXCEPT ![p] = n], n.pc \in InitPcs, Rest,
             setupLock' \in Runs \cup {0}, setupLock' = setupLock \/ setupLock = p,
             UNCHANGED journal \/ \E v \in {0, 1} : journal' = [journal EXCEPT !.identity = v],
             files' \in [{"key", "cert", "db"} -> {0, 1}], files.db = 1 => files'.db = 1,
             traces' \in BOOLEAN, generated' \in {0, 1},
             IdentityRight' \/ (UNCHANGED <<files, traces, generated>> /\ n.pc \notin {"identity", "certificate"})
      PROVE  SetupInv'
  <2>1. /\ journal' \in JournalRecord /\ journal'.offer = journal.offer /\ journal'.offerId = journal.offerId
        /\ journal'.enroll = journal.enroll /\ journal'.intent = journal.intent /\ journal'.op = journal.op
        /\ journal'.invite = journal.invite /\ journal'.pair = journal.pair /\ journal'.paired = journal.paired
    BY <1>1 DEF SetupTypeOK, JournalRecord
  <2>2. SetupTypeOK'
    BY <1>1, <2>1 DEF SetupTypeOK, offerVars, inviteVars, pairVars
  <2>3. n.pc \notin OfferPcs \cup EnrollPcs \cup InvitePcs \cup PairPcs \cup {"publish"} /\ n.pc \notin LockedPcs
    BY <1>0, <1>1 DEF LockedPcs
  <2>4. n.pc \notin {"prepare", "enrol"}
    BY <2>3 DEF EnrollPcs
  <2> QED
    BY <1>1, <2>1, <2>2, <2>3, <2>4, OneCommand
<1>2. CASE InitChecks(p)
  <2>1. PICK n \in RunRecord : run' = [run EXCEPT ![p] = n] /\ n.pc = "identity"
    BY <1>0, <1>2, StepForm DEF InitChecks
  <2>2. UNCHANGED <<files, traces, generated, setupLock, journal>> /\ Rest
    BY <1>2 DEF InitChecks
  <2>3. generated = 0 \/ files.key # 0 \/ files.cert # 0
    BY <1>2 DEF InitChecks, IdentityRight, Fresh, Whole, Present
  <2>4. IdentityRight'
    BY <2>1, <2>2, <2>3 DEF IdentityRight, SetupTypeOK
  <2> QED
    BY <1>0, <1>1, <2>1, <2>2, <2>4 DEF SetupTypeOK
<1>3. CASE TakesIdentityLock(p)
  <2>1. traces' = TRUE /\ UNCHANGED journal /\ Rest /\ run[p].pc = "identity"
    BY <1>3 DEF TakesIdentityLock, In
  <2>2. CASE files.key = 0 /\ files.cert = 0
    <3>1. PICK n \in RunRecord : run' = [run EXCEPT ![p] = n] /\ n.pc = "certificate"
      BY <1>0, <1>3, <2>2, StepForm DEF TakesIdentityLock
    <3>2. generated = 0 /\ generated' = 1 /\ UNCHANGED setupLock /\ files' = [files EXCEPT !["key"] = 1]
      BY <1>3, <2>1, <2>2 DEF TakesIdentityLock, IdentityRight
    <3>3. files' \in [{"key", "cert", "db"} -> {0, 1}] /\ files'["key"] = 1 /\ files'["db"] = files["db"]
      BY <3>2, FilesForm
    <3>4. IdentityRight'
      BY <2>1, <3>2, <3>3 DEF IdentityRight
    <3> QED
      BY <1>0, <1>1, <2>1, <3>1, <3>2, <3>3, <3>4 DEF SetupTypeOK
  <2>3. CASE ~(files.key = 0 /\ files.cert = 0)
    <3>1. UNCHANGED <<files, generated>> /\ ((Step(p, "open") /\ UNCHANGED setupLock) \/ Over(p))
      BY <1>3, <2>3 DEF TakesIdentityLock
    <3>2. \E n \in RunRecord : /\ run' = [run EXCEPT ![p] = n] /\ n.pc \in {"open", "idle"}
                               /\ setupLock' \in {0, setupLock} /\ (setupLock' = setupLock \/ setupLock = p)
      <4>1. CASE Step(p, "open") /\ UNCHANGED setupLock
        BY <4>1, <1>0, StepForm
      <4>2. CASE Over(p)
        BY <4>2, OverForm
      <4> QED
        BY <3>1, <4>1, <4>2
    <3>3. PICK n \in RunRecord : /\ run' = [run EXCEPT ![p] = n] /\ n.pc \in {"open", "idle"}
                                 /\ setupLock' \in {0, setupLock} /\ (setupLock' = setupLock \/ setupLock = p)
      BY <3>2
    <3>4. \A q \in Runs : /\ run'[q].pc = "identity" => run[q].pc = "identity"
                          /\ run'[q].pc = "certificate" => run[q].pc = "certificate"
      BY <3>3 DEF SetupTypeOK
    <3>5. IdentityRight'
      BY <2>1, <3>1, <3>4 DEF IdentityRight
    <3> QED
      BY <1>0, <1>1, <2>1, <3>1, <3>3, <3>5 DEF SetupTypeOK, InitPcs
  <2> QED
    BY <2>2, <2>3
<1>4. CASE WritesCertificate(p)
  <2>1. PICK n \in RunRecord : run' = [run EXCEPT ![p] = n] /\ n.pc = "open"
    BY <1>0, <1>4, StepForm DEF WritesCertificate
  <2>2. PICK v \in {0, 1} : v = files["key"]
    BY DEF SetupTypeOK
  <2>3. files' = [files EXCEPT !["cert"] = v] /\ UNCHANGED <<traces, generated, setupLock, journal>> /\ Rest
    BY <1>4, <2>2 DEF WritesCertificate
  <2>4. /\ files' \in [{"key", "cert", "db"} -> {0, 1}] /\ files'["key"] = files["key"] /\ files'["db"] = files["db"]
        /\ files'["cert"] = files["key"]
    BY <2>2, <2>3, FilesForm
  <2>5. \A q \in Runs : run'[q].pc = "identity" => run[q].pc = "identity"
    BY <2>1 DEF SetupTypeOK
  <2>6. IdentityRight'
    <3>1. generated = 0 => \A f \in {"key", "cert", "db"} : files'[f] = 0
      BY <2>4 DEF IdentityRight
    <3>2. files["key"] # 0
      BY <1>4 DEF IdentityRight, WritesCertificate, In
    <3>3. \A q \in Runs : run'[q].pc = "certificate" => run[q].pc = "certificate"
      BY <2>1 DEF SetupTypeOK
    <3> QED
      BY <2>3, <2>4, <3>1, <3>2 DEF IdentityRight
  <2> QED
    BY <1>0, <1>1, <2>1, <2>3, <2>4, <2>6 DEF SetupTypeOK
<1>5. CASE OpensStore(p)
  <2>1. PICK n \in RunRecord : run' = [run EXCEPT ![p] = n] /\ n.pc = "initialised"
    BY <1>0, <1>5, StepForm DEF OpensStore
  <2>2. PICK v \in {0, 1} : v = IF files["db"] = 0 THEN files["cert"] ELSE files["db"]
    BY DEF SetupTypeOK
  <2>3. files' = [files EXCEPT !["db"] = v] /\ UNCHANGED <<traces, generated, setupLock, journal>> /\ Rest
    BY <1>5, <2>2 DEF OpensStore
  <2>4. /\ files' \in [{"key", "cert", "db"} -> {0, 1}] /\ files'["key"] = files["key"] /\ files'["cert"] = files["cert"]
        /\ files'["db"] = v
    BY <2>3, FilesForm
  <2>5. \A q \in Runs : /\ run'[q].pc = "identity" => run[q].pc = "identity"
                        /\ run'[q].pc = "certificate" => run[q].pc = "certificate"
    BY <2>1 DEF SetupTypeOK
  <2>6. generated = 0 => v = 0
    BY <2>2 DEF IdentityRight
  <2>7. IdentityRight'
    BY <2>3, <2>4, <2>5, <2>6 DEF IdentityRight
  <2>8. files.db = 1 => files'.db = 1
    BY <2>2, <2>4
  <2> QED
    BY <1>0, <1>1, <2>1, <2>3, <2>4, <2>7, <2>8 DEF SetupTypeOK
<1>6. CASE SavesInit(p)
  <2>1. UNCHANGED <<files, traces, generated>> /\ Rest /\ Over(p)
    BY <1>6 DEF SavesInit, identityVars
  <2>2. /\ NoRun \in RunRecord /\ run' = [run EXCEPT ![p] = NoRun] /\ NoRun.pc = "idle"
        /\ setupLock' \in {0, setupLock} /\ (setupLock' = setupLock \/ setupLock = p)
    BY <2>1, OverForm
  <2>3. UNCHANGED journal \/ \E v \in {0, 1} : journal' = [journal EXCEPT !.identity = v]
    BY <1>6 DEF SavesInit, SetupTypeOK
  <2> QED
    BY <1>0, <1>1, <2>1, <2>2, <2>3 DEF SetupTypeOK, InitPcs
<1> QED
  BY <1>2, <1>3, <1>4, <1>5, <1>6 DEF RunInit

LEMMA PcFacts ==
  /\ \A pc \in EnrollPcs : pc \in LockedPcs /\ pc \notin OfferPcs \cup InvitePcs \cup PairPcs \cup {"publish", "identity", "certificate"}
  /\ \A pc \in InvitePcs : pc \in LockedPcs /\ pc \notin OfferPcs \cup EnrollPcs \cup PairPcs \cup {"publish", "identity", "certificate"}
  /\ \A pc \in PairPcs \cup {"publish"} :
       pc \in LockedPcs /\ pc \notin OfferPcs \cup EnrollPcs \cup InvitePcs \cup {"identity", "certificate"}
  /\ \A pc \in OfferPcs :
       pc \in LockedPcs /\ pc \notin EnrollPcs \cup InvitePcs \cup PairPcs \cup {"publish", "identity", "certificate"}
  /\ "idle" \notin LockedPcs
  /\ EnrollPcs = {"prepare", "doubt", "enrol", "receipt"} /\ InvitePcs = {"promise", "mint", "deliver", "delivered"}
  /\ PairPcs = {"intend", "pair", "trusted"} /\ OfferPcs = {"pend", "create", "show", "record"}
BY DEF LockedPcs, OfferPcs, EnrollPcs, InvitePcs, PairPcs

(* How a command begins under the lock, goes on, ends, or only looks while *)
(* nobody has it; no other is in one.                                      *)
Began(p) == setupLock = 0 /\ setupLock' = p /\ files.db = 1
WentOn(p) == setupLock' = setupLock /\ run[p].pc \in LockedPcs
Ends(p, n) == n = NoRun /\ run[p].pc \in LockedPcs /\ setupLock' \in {0, setupLock} /\ (setupLock' = setupLock \/ setupLock = p)
LooksUpOffer(p, n) == n = run[p] /\ n.pc = "idle" /\ setupLock = 0 /\ setupLock' = 0
Goes(p, n) == Began(p) \/ WentOn(p) \/ Ends(p, n) \/ LooksUpOffer(p, n)

LEMMA GoesFacts ==
  ASSUME SetupInv, NEW p \in Runs, NEW n \in RunRecord, run' = [run EXCEPT ![p] = n], Goes(p, n), UNCHANGED files
  PROVE  /\ n.pc \in LockedPcs => setupLock' = p /\ files'.db = 1
         /\ setupLock' = setupLock \/ setupLock \in {0, p}
         /\ setupLock' \in Runs \cup {0}
         /\ run'[p] = n
         /\ \A q \in Runs : q # p => run'[q] = run[q] /\ run[q].pc \notin LockedPcs
         /\ run' \in [Runs -> RunRecord]
<1>1. setupLock = 0 \/ run[p].pc \in LockedPcs
  BY DEF Goes, Began, WentOn, Ends, LooksUpOffer
<1>2. \A q \in Runs : q # p => run[q].pc \notin LockedPcs
  BY <1>1, Alone
<1>3. NoRun.pc \notin LockedPcs
  BY PcFacts DEF NoRun
<1> QED
  BY <1>2, <1>3, PcFacts DEF Goes, Began, WentOn, Ends, LooksUpOffer, SetupInv, SetupTypeOK, LockRight

(* Enrolling.                                                              *)
LEMMA StepEnroll ==
  ASSUME SetupInv, NEW p \in Runs, RunEnroll(p)
  PROVE  SetupInv'
<1> USE DEF SetupInv
<1> DEFINE Rest == UNCHANGED <<identityVars, offerVars, inviteVars, pairVars, policyFile>>
<1>1. ASSUME NEW n \in RunRecord, run' = [run EXCEPT ![p] = n], n.pc \in EnrollPcs \cup {"idle"}, Rest, Goes(p, n),
             journal' \in JournalRecord, journal'.offer = journal.offer, journal'.offerId = journal.offerId,
             journal'.invite = journal.invite, journal'.pair = journal.pair, journal'.paired = journal.paired,
             /\ journal'.enroll \in {"none", "prepared"} => enrollSent' = {}
             /\ enrollSent' \subseteq {[op |-> journal'.op, intent |-> journal'.intent, identity |-> 1]}
             /\ enrolled' \subseteq enrollSent'
             /\ journal'.enroll = "committed" => \E e \in enrolled' : e.op = journal'.op /\ e.intent = journal'.intent,
             n.pc = "prepare" => journal'.enroll = "none" /\ n.what \in Intents,
             n.pc = "enrol" => journal'.enroll = "unknown"
      PROVE  SetupInv'
  <2>1. UNCHANGED <<files, traces, generated>>
    BY <1>1 DEF identityVars
  <2>2. /\ n.pc \in LockedPcs => setupLock' = p /\ files'.db = 1
        /\ setupLock' = setupLock \/ setupLock \in {0, p}
        /\ setupLock' \in Runs \cup {0}
        /\ run'[p] = n
        /\ \A q \in Runs : q # p => run'[q] = run[q] /\ run[q].pc \notin LockedPcs
        /\ run' \in [Runs -> RunRecord]
    BY <1>1, <2>1, GoesFacts
  <2>3. SetupTypeOK'
    BY <1>1, <2>1, <2>2 DEF SetupTypeOK, offerVars, inviteVars, pairVars
  <2>4. \A q \in Runs : q # p => run'[q].pc \notin {"prepare", "enrol"}
    BY <2>2, PcFacts
  <2>5. EnrollRight'
    BY <1>1, <2>2, <2>4 DEF EnrollRight
  <2>6. n.pc \notin OfferPcs /\ n.pc \notin InvitePcs /\ n.pc \notin PairPcs \cup {"publish"} /\ n.pc \notin {"identity", "certificate"}
    BY <1>1, PcFacts
  <2> QED
    BY <1>1, <2>1, <2>2, <2>3, <2>5, <2>6, OneCommand
<1>2. ASSUME NEW i \in Intents, EnrollStarts(p, i) PROVE SetupInv'
  <2>1. PICK pc \in {"prepare", "doubt"} : Starts(p, pc, 0, i) /\ (pc = "prepare" => journal.enroll = "none")
    BY <1>2 DEF EnrollStarts
  <2>2. pc \in LockedPcs /\ pc \in EnrollPcs
    BY PcFacts
  <2>3. /\ \E n \in RunRecord : run' = [run EXCEPT ![p] = n] /\ n.pc = pc /\ n.what = i
        /\ setupLock = 0 /\ setupLock' = p /\ files.db = 1
    BY <2>1, <2>2, StartForm, Numbers
  <2>4. PICK n \in RunRecord : run' = [run EXCEPT ![p] = n] /\ n.pc = pc /\ n.what = i
    BY <2>3
  <2>5. Rest /\ UNCHANGED <<journal, enrollSent, enrolled>>
    BY <1>2 DEF EnrollStarts, enrollVars
  <2>6. Goes(p, n)
    BY <2>3 DEF Goes, Began
  <2>7. EnrollRight /\ journal \in JournalRecord
    BY DEF SetupTypeOK
  <2> QED
    BY <1>1, <2>1, <2>2, <2>4, <2>5, <2>6, <2>7 DEF EnrollRight
<1>3. CASE Prepares(p)
  <2>1. run[p].pc = "prepare" /\ journal.enroll = "none" /\ run[p].what \in Intents /\ enrollSent = {} /\ enrolled = {}
    BY <1>3 DEF Prepares, In, EnrollRight
  <2>2. Cardinality(enrollSent) + 1 = 1
    BY <2>1, FS_EmptySet
  <2>i. PICK i \in Intents : i = run[p].what
    BY <2>1
  <2>3. PICK j : j = [journal EXCEPT !.enroll = "prepared", !.intent = i, !.op = 1]
    OBVIOUS
  <2>4. /\ j \in JournalRecord /\ j.enroll = "prepared" /\ j.offer = journal.offer /\ j.offerId = journal.offerId
        /\ j.invite = journal.invite /\ j.pair = journal.pair /\ j.paired = journal.paired
    BY <2>3 DEF SetupTypeOK, JournalRecord
  <2>5. Saves(j) /\ Step(p, "doubt") /\ Rest /\ UNCHANGED <<setupLock, enrollSent, enrolled>>
    BY <1>3, <2>i, <2>2, <2>3 DEF Prepares, enrollVars
  <2>6. PICK n \in RunRecord : run' = [run EXCEPT ![p] = n] /\ n.pc = "doubt"
    BY <2>5, StepForm, PcFacts
  <2>7. Goes(p, n)
    BY <2>1, <2>5, PcFacts DEF Goes, WentOn
  <2>8. /\ journal' \in JournalRecord /\ journal'.offer = journal.offer /\ journal'.offerId = journal.offerId
        /\ journal'.invite = journal.invite /\ journal'.pair = journal.pair /\ journal'.paired = journal.paired
        /\ journal'.enroll = "prepared"
    BY <2>4, <2>5, SavedForm
  <2> QED
    BY <1>1, <2>1, <2>5, <2>6, <2>7, <2>8, PcFacts
<1>4. CASE DoubtsEnrollment(p)
  <2>1. run[p].pc = "doubt"
    BY <1>4 DEF DoubtsEnrollment, In
  <2>2. PICK j : j = [journal EXCEPT !.enroll = "unknown"]
    OBVIOUS
  <2>3. /\ j \in JournalRecord /\ j.enroll = "unknown" /\ j.offer = journal.offer /\ j.offerId = journal.offerId
        /\ j.invite = journal.invite /\ j.pair = journal.pair /\ j.paired = journal.paired
        /\ j.op = journal.op /\ j.intent = journal.intent
    BY <2>2 DEF SetupTypeOK, JournalRecord
  <2>4. Saves(j) /\ Step(p, "enrol") /\ Rest /\ UNCHANGED <<setupLock, enrollSent, enrolled>>
    BY <1>4, <2>2 DEF DoubtsEnrollment, enrollVars
  <2>5. PICK n \in RunRecord : run' = [run EXCEPT ![p] = n] /\ n.pc = "enrol"
    BY <2>4, StepForm, PcFacts
  <2>6. Goes(p, n)
    BY <2>1, <2>4, PcFacts DEF Goes, WentOn
  <2>7. /\ journal' \in JournalRecord /\ journal'.offer = journal.offer /\ journal'.offerId = journal.offerId
        /\ journal'.invite = journal.invite /\ journal'.pair = journal.pair /\ journal'.paired = journal.paired
        /\ journal'.enroll = "unknown" /\ journal'.op = journal.op /\ journal'.intent = journal.intent
    BY <2>3, <2>4, SavedForm
  <2>8. EnrollRight
    OBVIOUS
  <2> QED
    BY <1>1, <2>4, <2>5, <2>6, <2>7, <2>8, PcFacts DEF EnrollRight
<1>5. CASE SendsEnrollment(p)
  <2>1. run[p].pc = "enrol" /\ journal.enroll = "unknown" /\ files.db = 1
    BY <1>5, PcFacts DEF SendsEnrollment, In, EnrollRight, LockRight
  <2>2. enrollSent' = enrollSent \cup {[op |-> journal.op, intent |-> journal.intent, identity |-> 1]}
    BY <1>5, <2>1 DEF SendsEnrollment
  <2>3. Step(p, "receipt") /\ Rest /\ UNCHANGED <<setupLock, journal, enrolled>>
    BY <1>5 DEF SendsEnrollment
  <2>4. PICK n \in RunRecord : run' = [run EXCEPT ![p] = n] /\ n.pc = "receipt"
    BY <2>3, StepForm, PcFacts
  <2>5. Goes(p, n)
    BY <2>1, <2>3, PcFacts DEF Goes, WentOn
  <2>6. EnrollRight /\ journal \in JournalRecord
    BY DEF SetupTypeOK
  <2>7. /\ enrollSent' \subseteq {[op |-> journal.op, intent |-> journal.intent, identity |-> 1]} /\ enrolled \subseteq enrollSent'
    BY <2>2, <2>6 DEF EnrollRight
  <2> QED
    BY <1>1, <2>1, <2>3, <2>4, <2>5, <2>6, <2>7, PcFacts
<1>6. CASE KeepsReceipt(p)
  <2>1. run[p].pc = "receipt" /\ \E e \in enrolled : e.op = journal.op
    BY <1>6 DEF KeepsReceipt, In
  <2>2. PICK j : j = [journal EXCEPT !.enroll = "committed"]
    OBVIOUS
  <2>3. /\ j \in JournalRecord /\ j.enroll = "committed" /\ j.offer = journal.offer /\ j.offerId = journal.offerId
        /\ j.invite = journal.invite /\ j.pair = journal.pair /\ j.paired = journal.paired
        /\ j.op = journal.op /\ j.intent = journal.intent
    BY <2>2 DEF SetupTypeOK, JournalRecord
  <2>4. Saves(j) /\ Over(p) /\ Rest /\ UNCHANGED <<enrollSent, enrolled>>
    BY <1>6, <2>2 DEF KeepsReceipt, enrollVars
  <2>5. /\ NoRun \in RunRecord /\ run' = [run EXCEPT ![p] = NoRun] /\ NoRun.pc = "idle" /\ Goes(p, NoRun)
    BY <2>1, <2>4, OverForm, PcFacts DEF Goes, Ends
  <2>6. /\ journal' \in JournalRecord /\ journal'.offer = journal.offer /\ journal'.offerId = journal.offerId
        /\ journal'.invite = journal.invite /\ journal'.pair = journal.pair /\ journal'.paired = journal.paired
        /\ journal'.enroll = "committed" /\ journal'.op = journal.op /\ journal'.intent = journal.intent
    BY <2>3, <2>4, SavedForm
  <2>7. \E e \in enrolled : e.op = journal.op /\ e.intent = journal.intent
    BY <2>1 DEF EnrollRight
  <2>8. EnrollRight
    OBVIOUS
  <2> QED
    BY <1>1, <2>4, <2>5, <2>6, <2>7, <2>8 DEF EnrollRight
<1> QED
  BY <1>2, <1>3, <1>4, <1>5, <1>6 DEF RunEnroll

(* Inviting.                                                               *)
LEMMA StepInvite ==
  ASSUME SetupInv, NEW p \in Runs, RunInvite(p)
  PROVE  SetupInv'
<1> USE DEF SetupInv
<1> DEFINE Rest == UNCHANGED <<identityVars, offerVars, enrollVars, pairVars, policyFile>>
<1>0. minted \in Nat /\ savedInvites \in Nat
  BY DEF SetupTypeOK
<1>1. ASSUME NEW n \in RunRecord, run' = [run EXCEPT ![p] = n], n.pc \in InvitePcs \cup {"idle"}, Rest, Goes(p, n),
             journal' \in JournalRecord, journal'.offer = journal.offer, journal'.offerId = journal.offerId,
             journal'.enroll = journal.enroll, journal'.intent = journal.intent, journal'.op = journal.op,
             journal'.pair = journal.pair, journal'.paired = journal.paired,
             minted' \in Nat, savedInvites' \in Nat,
             minted' <= savedInvites' + 1, journal'.invite # "pending" => minted' = savedInvites',
             n.pc = "promise" => journal'.invite # "pending",
             n.pc \in {"mint", "delivered"} => minted' = savedInvites',
             n.pc = "deliver" => minted' = savedInvites' + 1,
             n.pc \in {"mint", "deliver", "delivered"} => journal'.invite = "pending"
      PROVE  SetupInv'
  <2>1. UNCHANGED <<files, traces, generated>>
    BY <1>1 DEF identityVars
  <2>2. /\ n.pc \in LockedPcs => setupLock' = p /\ files'.db = 1
        /\ setupLock' = setupLock \/ setupLock \in {0, p}
        /\ setupLock' \in Runs \cup {0}
        /\ run'[p] = n
        /\ \A q \in Runs : q # p => run'[q] = run[q] /\ run[q].pc \notin LockedPcs
        /\ run' \in [Runs -> RunRecord]
    BY <1>1, <2>1, GoesFacts
  <2>3. SetupTypeOK'
    BY <1>1, <2>1, <2>2 DEF SetupTypeOK, offerVars, pairVars
  <2>4. \A q \in Runs : q # p => run'[q].pc \notin InvitePcs
    BY <2>2, PcFacts
  <2>5. InviteRight'
    BY <1>1, <2>2, <2>4, PcFacts DEF InviteRight
  <2>6. n.pc \notin OfferPcs /\ n.pc \notin {"prepare", "enrol"} /\ n.pc \notin PairPcs \cup {"publish"}
        /\ n.pc \notin {"identity", "certificate"}
    BY <1>1, PcFacts
  <2> QED
    BY <1>1, <2>1, <2>2, <2>3, <2>5, <2>6, OneCommand
(* A step that only says something of the invitation in the journal.       *)
<1>2. ASSUME NEW v \in {"none", "pending", "complete"}, NEW j, j = [journal EXCEPT !.invite = v], Saves(j)
      PROVE  /\ journal' \in JournalRecord /\ journal'.offer = journal.offer /\ journal'.offerId = journal.offerId
             /\ journal'.enroll = journal.enroll /\ journal'.intent = journal.intent /\ journal'.op = journal.op
             /\ journal'.pair = journal.pair /\ journal'.paired = journal.paired /\ journal'.invite = v
  <2>1. /\ j \in JournalRecord /\ j.offer = journal.offer /\ j.offerId = journal.offerId
        /\ j.enroll = journal.enroll /\ j.intent = journal.intent /\ j.op = journal.op
        /\ j.pair = journal.pair /\ j.paired = journal.paired /\ j.invite = v
    BY <1>2 DEF SetupTypeOK, JournalRecord
  <2> QED
    BY <2>1, <1>2, SavedForm
<1>3. journal \in JournalRecord /\ InviteRight
  BY DEF SetupTypeOK
<1>4. CASE InviteStarts(p)
  <2>1. Starts(p, "promise", 0, "unset") /\ "unset" \in Verdicts /\ journal.invite # "pending"
    BY <1>4 DEF InviteStarts, Verdicts
  <2>2. /\ \E n \in RunRecord : run' = [run EXCEPT ![p] = n] /\ n.pc = "promise"
        /\ setupLock = 0 /\ setupLock' = p /\ files.db = 1
    BY <2>1, StartForm, Numbers, PcFacts
  <2>3. PICK n \in RunRecord : run' = [run EXCEPT ![p] = n] /\ n.pc = "promise"
    BY <2>2
  <2>4. Rest /\ UNCHANGED <<journal, minted, savedInvites>>
    BY <1>4 DEF InviteStarts, inviteVars
  <2>5. Goes(p, n)
    BY <2>2 DEF Goes, Began
  <2>6. minted = savedInvites /\ minted <= savedInvites + 1
    BY <1>3, <2>1 DEF InviteRight
  <2> QED
    BY <1>0, <1>1, <1>3, <2>1, <2>3, <2>4, <2>5, <2>6, PcFacts
<1>5. CASE PendsInvite(p)
  <2>1. run[p].pc = "promise" /\ minted = savedInvites /\ minted <= savedInvites + 1
    BY <1>5, <1>3 DEF PendsInvite, In, InviteRight
  <2>2. PICK j : j = [journal EXCEPT !.invite = "pending"]
    OBVIOUS
  <2>3. Saves(j) /\ Step(p, "mint") /\ Rest /\ UNCHANGED <<setupLock, minted, savedInvites>>
    BY <1>5, <2>2 DEF PendsInvite, inviteVars
  <2>4. PICK n \in RunRecord : run' = [run EXCEPT ![p] = n] /\ n.pc = "mint"
    BY <2>3, StepForm, PcFacts
  <2>5. Goes(p, n)
    BY <2>1, <2>3, PcFacts DEF Goes, WentOn
  <2> QED
    BY <1>0, <1>1, <1>2, <2>1, <2>2, <2>3, <2>4, <2>5, PcFacts
<1>6. CASE Mints(p)
  <2>1. run[p].pc = "mint" /\ minted = savedInvites /\ journal.invite = "pending"
    BY <1>6, <1>3 DEF Mints, In, InviteRight
  <2>2. minted' = minted + 1 /\ Step(p, "deliver") /\ Rest /\ UNCHANGED <<setupLock, journal, savedInvites>>
    BY <1>6 DEF Mints
  <2>3. PICK n \in RunRecord : run' = [run EXCEPT ![p] = n] /\ n.pc = "deliver"
    BY <2>2, StepForm, PcFacts
  <2>4. Goes(p, n)
    BY <2>1, <2>2, PcFacts DEF Goes, WentOn
  <2>5. minted' \in Nat /\ savedInvites' \in Nat /\ minted' = savedInvites' + 1 /\ minted' <= savedInvites' + 1
    BY <1>0, <2>1, <2>2
  <2> QED
    BY <1>1, <1>3, <2>1, <2>2, <2>3, <2>4, <2>5, PcFacts
<1>7. CASE SavesInvite(p)
  <2>1. run[p].pc = "deliver" /\ minted = savedInvites + 1 /\ journal.invite = "pending"
    BY <1>7, <1>3 DEF SavesInvite, In, InviteRight
  <2>2. savedInvites' = savedInvites + 1 /\ Step(p, "delivered") /\ Rest /\ UNCHANGED <<setupLock, journal, minted>>
    BY <1>7 DEF SavesInvite
  <2>3. PICK n \in RunRecord : run' = [run EXCEPT ![p] = n] /\ n.pc = "delivered"
    BY <2>2, StepForm, PcFacts
  <2>4. Goes(p, n)
    BY <2>1, <2>2, PcFacts DEF Goes, WentOn
  <2>5. minted' \in Nat /\ savedInvites' \in Nat /\ minted' = savedInvites' /\ minted' <= savedInvites' + 1
    BY <1>0, <2>1, <2>2
  <2> QED
    BY <1>1, <1>3, <2>1, <2>2, <2>3, <2>4, <2>5, PcFacts
<1>8. CASE CompletesInvite(p)
  <2>1. run[p].pc = "delivered" /\ minted = savedInvites /\ minted <= savedInvites + 1
    BY <1>8, <1>3 DEF CompletesInvite, In, InviteRight
  <2>2. PICK j : j = [journal EXCEPT !.invite = "complete"]
    OBVIOUS
  <2>3. Saves(j) /\ Over(p) /\ Rest /\ UNCHANGED <<minted, savedInvites>>
    BY <1>8, <2>2 DEF CompletesInvite, inviteVars
  <2>4. /\ NoRun \in RunRecord /\ run' = [run EXCEPT ![p] = NoRun] /\ NoRun.pc = "idle" /\ Goes(p, NoRun)
    BY <2>1, <2>3, OverForm, PcFacts DEF Goes, Ends
  <2> QED
    BY <1>0, <1>1, <1>2, <2>1, <2>2, <2>3, <2>4, PcFacts
<1> QED
  BY <1>4, <1>5, <1>6, <1>7, <1>8 DEF RunInvite

(* Pairing, and the receiver's policy.                                     *)
LEMMA StepPair ==
  ASSUME SetupInv, NEW p \in Runs, RunPair(p) \/ RunPolicy(p)
  PROVE  SetupInv'
<1> USE DEF SetupInv
<1> DEFINE Rest == UNCHANGED <<identityVars, offerVars, inviteVars, enrollVars>>
<1>1. ASSUME NEW n \in RunRecord, run' = [run EXCEPT ![p] = n], n.pc \in PairPcs \cup {"publish", "idle"}, Rest, Goes(p, n),
             journal' \in JournalRecord, journal'.offer = journal.offer, journal'.offerId = journal.offerId,
             journal'.enroll = journal.enroll, journal'.intent = journal.intent, journal'.op = journal.op,
             journal'.invite = journal.invite, policyFile' \in {"unset"} \cup Policies,
             peerState' \in {"unknown", "paired", "revoked"}, pairTried' \subseteq {journal'.pair} \ {"unset"},
             journal'.paired = "complete" => peerState' \in {"paired", "revoked"},
             n.pc = "intend" => n.what \in Invitations /\ journal'.pair \in {"unset", n.what},
             n.pc = "pair" => journal'.pair = n.what /\ n.what # "unset",
             n.pc = "trusted" => peerState' \in {"paired", "revoked"},
             n.pc = "publish" => n.what \in Policies
      PROVE  SetupInv'
  <2>1. UNCHANGED <<files, traces, generated>>
    BY <1>1 DEF identityVars
  <2>2. /\ n.pc \in LockedPcs => setupLock' = p /\ files'.db = 1
        /\ setupLock' = setupLock \/ setupLock \in {0, p}
        /\ setupLock' \in Runs \cup {0}
        /\ run'[p] = n
        /\ \A q \in Runs : q # p => run'[q] = run[q] /\ run[q].pc \notin LockedPcs
        /\ run' \in [Runs -> RunRecord]
    BY <1>1, <2>1, GoesFacts
  <2>3. SetupTypeOK'
    BY <1>1, <2>1, <2>2 DEF SetupTypeOK, offerVars, inviteVars
  <2>4. \A q \in Runs : q # p => run'[q].pc \notin PairPcs \cup {"publish"}
    BY <2>2, PcFacts
  <2>5. PairRight'
    BY <1>1, <2>2, <2>4, PcFacts DEF PairRight
  <2>6. n.pc \notin OfferPcs /\ n.pc \notin {"prepare", "enrol"} /\ n.pc \notin InvitePcs /\ n.pc \notin {"identity", "certificate"}
    BY <1>1, PcFacts
  <2> QED
    BY <1>1, <2>1, <2>2, <2>3, <2>5, <2>6, OneCommand
<1>2. ASSUME NEW v \in {"unset"} \cup Invitations, NEW w \in {"none", "pending", "complete"},
             NEW j, j = [journal EXCEPT !.pair = v, !.paired = w], Saves(j)
      PROVE  /\ journal' \in JournalRecord /\ journal'.offer = journal.offer /\ journal'.offerId = journal.offerId
             /\ journal'.enroll = journal.enroll /\ journal'.intent = journal.intent /\ journal'.op = journal.op
             /\ journal'.invite = journal.invite /\ journal'.pair = v /\ journal'.paired = w
  <2>1. /\ j \in JournalRecord /\ j.offer = journal.offer /\ j.offerId = journal.offerId
        /\ j.enroll = journal.enroll /\ j.intent = journal.intent /\ j.op = journal.op
        /\ j.invite = journal.invite /\ j.pair = v /\ j.paired = w
    BY <1>2 DEF SetupTypeOK, JournalRecord
  <2> QED
    BY <2>1, <1>2, SavedForm
<1>3. /\ journal \in JournalRecord /\ PairRight /\ policyFile \in {"unset"} \cup Policies
      /\ peerState \in {"unknown", "paired", "revoked"} /\ journal.pair \in {"unset"} \cup Invitations
  BY DEF SetupTypeOK, JournalRecord
<1>4. ASSUME NEW v \in Policies, PolicyStarts(p, v) PROVE SetupInv'
  <2>1. Starts(p, "publish", 0, v)
    BY <1>4 DEF PolicyStarts
  <2>2. /\ \E n \in RunRecord : run' = [run EXCEPT ![p] = n] /\ n.pc = "publish" /\ n.what = v
        /\ setupLock = 0 /\ setupLock' = p /\ files.db = 1
    BY <2>1, StartForm, Numbers, PcFacts
  <2>3. PICK n \in RunRecord : run' = [run EXCEPT ![p] = n] /\ n.pc = "publish" /\ n.what = v
    BY <2>2
  <2>4. Rest /\ UNCHANGED <<journal, policyFile, peerState, pairTried>>
    BY <1>4 DEF PolicyStarts, pairVars
  <2>5. Goes(p, n)
    BY <2>2 DEF Goes, Began
  <2> QED
    BY <1>1, <1>3, <2>3, <2>4, <2>5, PcFacts DEF PairRight
<1>5. CASE PublishesPolicy(p)
  <2>1. run[p].pc = "publish" /\ run[p].what \in Policies
    BY <1>5, <1>3 DEF PublishesPolicy, In, PairRight
  <2>2. policyFile' \in {"unset"} \cup Policies
    BY <1>3, <1>5, <2>1 DEF PublishesPolicy, Publishes
  <2>3. Over(p) /\ Rest /\ UNCHANGED <<journal, peerState, pairTried>>
    BY <1>5 DEF PublishesPolicy, pairVars
  <2>4. /\ NoRun \in RunRecord /\ run' = [run EXCEPT ![p] = NoRun] /\ NoRun.pc = "idle" /\ Goes(p, NoRun)
    BY <2>1, <2>3, OverForm, PcFacts DEF Goes, Ends
  <2> QED
    BY <1>1, <1>3, <2>2, <2>3, <2>4, PcFacts DEF PairRight
<1>6. ASSUME NEW v \in Invitations, PairStarts(p, v) PROVE SetupInv'
  <2>1. Starts(p, "intend", 0, v) /\ journal.pair \in {"unset", v}
    BY <1>6 DEF PairStarts
  <2>2. /\ \E n \in RunRecord : run' = [run EXCEPT ![p] = n] /\ n.pc = "intend" /\ n.what = v
        /\ setupLock = 0 /\ setupLock' = p /\ files.db = 1
    BY <2>1, StartForm, Numbers, PcFacts
  <2>3. PICK n \in RunRecord : run' = [run EXCEPT ![p] = n] /\ n.pc = "intend" /\ n.what = v
    BY <2>2
  <2>4. Rest /\ UNCHANGED <<journal, policyFile, peerState, pairTried>>
    BY <1>6 DEF PairStarts, pairVars
  <2>5. Goes(p, n)
    BY <2>2 DEF Goes, Began
  <2> QED
    BY <1>1, <1>3, <2>1, <2>3, <2>4, <2>5, PcFacts DEF PairRight
<1>7. CASE IntendsPair(p)
  <2>1. PICK v \in Invitations : v = run[p].what
    BY <1>7, <1>3 DEF IntendsPair, In, PairRight
  <2>2. run[p].pc = "intend" /\ journal.pair \in {"unset", v} /\ v # "unset"
    BY <1>7, <1>3, <2>1, SetupAssumption DEF IntendsPair, In, PairRight
  <2>3. PICK j : j = [journal EXCEPT !.pair = v, !.paired = "pending"]
    OBVIOUS
  <2>4. PICK pc \in {"trusted", "pair"} : pc = IF peerState = "paired" THEN "trusted" ELSE "pair"
    OBVIOUS
  <2>5. Saves(j) /\ Step(p, pc) /\ Rest /\ UNCHANGED <<setupLock, policyFile, peerState, pairTried>>
    BY <1>7, <2>1, <2>3, <2>4 DEF IntendsPair, pairVars
  <2>6. pc \in LockedPcs
    BY PcFacts
  <2>7. PICK n \in RunRecord : run' = [run EXCEPT ![p] = n] /\ n.pc = pc /\ n.what = v
    BY <2>1, <2>5, <2>6, StepForm
  <2>8. Goes(p, n)
    BY <2>2, <2>5, PcFacts DEF Goes, WentOn
  <2>9. pairTried \subseteq {v} \ {"unset"}
    BY <1>3, <2>2 DEF PairRight
  <2>10. /\ journal' \in JournalRecord /\ journal'.offer = journal.offer /\ journal'.offerId = journal.offerId
         /\ journal'.enroll = journal.enroll /\ journal'.intent = journal.intent /\ journal'.op = journal.op
         /\ journal'.invite = journal.invite /\ journal'.pair = v /\ journal'.paired = "pending"
    BY <1>2, <2>3, <2>5
  <2>11. pc \in PairPcs \cup {"publish", "idle"} /\ (pc = "trusted" => peerState = "paired") /\ pc # "intend" /\ pc # "publish"
    BY <2>4, PcFacts
  <2> QED
    BY <1>1, <1>3, <2>2, <2>5, <2>7, <2>8, <2>9, <2>10, <2>11
<1>8. ASSUME NEW ok \in BOOLEAN, NEW told \in BOOLEAN, Pairs(p, ok, told) PROVE SetupInv'
  <2>1. run[p].pc = "pair" /\ journal.pair = run[p].what /\ run[p].what # "unset"
    BY <1>8, <1>3 DEF Pairs, In, PairRight
  <2>2. pairTried' = pairTried \cup {journal.pair} /\ (told => ok) /\ peerState' = (IF ok THEN "paired" ELSE peerState)
    BY <1>8, <2>1 DEF Pairs
  <2>3. Rest /\ UNCHANGED <<journal, policyFile>>
    BY <1>8 DEF Pairs
  <2>4. pairTried' \subseteq {journal.pair} \ {"unset"}
    BY <1>3, <2>1, <2>2 DEF PairRight
  <2>5. journal.paired = "complete" => peerState' \in {"paired", "revoked"}
    BY <1>3, <2>2 DEF PairRight
  <2>6. CASE told
    <3>1. Step(p, "trusted") /\ UNCHANGED setupLock
      BY <1>8, <2>6 DEF Pairs
    <3>2. PICK n \in RunRecord : run' = [run EXCEPT ![p] = n] /\ n.pc = "trusted"
      BY <3>1, StepForm, PcFacts
    <3>3. Goes(p, n)
      BY <2>1, <3>1, PcFacts DEF Goes, WentOn
    <3>4. peerState' = "paired"
      BY <2>2, <2>6
    <3> QED
      BY <1>1, <1>3, <2>3, <2>4, <3>2, <3>3, <3>4, PcFacts
  <2>7. CASE ~told
    <3>1. Over(p)
      BY <1>8, <2>7 DEF Pairs
    <3>2. /\ NoRun \in RunRecord /\ run' = [run EXCEPT ![p] = NoRun] /\ NoRun.pc = "idle" /\ Goes(p, NoRun)
      BY <2>1, <3>1, OverForm, PcFacts DEF Goes, Ends
    <3>3. peerState' \in {"unknown", "paired", "revoked"}
      BY <1>3, <2>2
    <3> QED
      BY <1>1, <1>3, <2>3, <2>4, <2>5, <3>2, <3>3, PcFacts
  <2> QED
    BY <2>6, <2>7
<1>9. CASE CompletesPair(p)
  <2>1. run[p].pc = "trusted" /\ peerState \in {"paired", "revoked"}
    BY <1>9, <1>3 DEF CompletesPair, In, PairRight
  <2>2. PICK v : v = journal.pair
    OBVIOUS
  <2>3. PICK j : j = [journal EXCEPT !.paired = "complete"]
    OBVIOUS
  <2>4. j = [journal EXCEPT !.pair = v, !.paired = "complete"]
    BY <1>3, <2>2, <2>3 DEF JournalRecord
  <2>5. Saves(j) /\ Over(p) /\ Rest /\ UNCHANGED <<policyFile, peerState, pairTried>>
    BY <1>9, <2>3 DEF CompletesPair, pairVars
  <2>6. /\ NoRun \in RunRecord /\ run' = [run EXCEPT ![p] = NoRun] /\ NoRun.pc = "idle" /\ Goes(p, NoRun)
    BY <2>1, <2>5, OverForm, PcFacts DEF Goes, Ends
  <2>7. /\ journal' \in JournalRecord /\ journal'.offer = journal.offer /\ journal'.offerId = journal.offerId
        /\ journal'.enroll = journal.enroll /\ journal'.intent = journal.intent /\ journal'.op = journal.op
        /\ journal'.invite = journal.invite /\ journal'.pair = journal.pair /\ journal'.paired = "complete"
    BY <1>2, <1>3, <2>2, <2>4, <2>5
  <2> QED
    BY <1>1, <1>3, <2>1, <2>5, <2>6, <2>7, PcFacts DEF PairRight
<1> QED
  BY <1>4, <1>5, <1>6, <1>7, <1>8, <1>9 DEF RunPair, RunPolicy

(* Offers.  A row that is open may end, one that ended may be pruned: what *)
(* the journal or a command says of it stays so.                           *)
LEMMA RowEnds ==
  ASSUME SetupInv, NEW o \in 1 .. MaxOffers, NEW to, offerRow' = [offerRow EXCEPT ![o] = to],
         \/ to = offerRow[o]
         \/ offerRow[o] = "open" /\ to \in Ended
         \/ offerRow[o] \in Ended /\ to = "pruned",
         UNCHANGED shownLinks, journal' = journal
  PROVE  /\ OffersAccounted' /\ JournalTrue'
         /\ offerRow' \in [1 .. MaxOffers -> RowStates]
         /\ \A x \in 1 .. MaxOffers : offerRow[x] = "none" => offerRow'[x] = "none"
         /\ \A x \in 1 .. MaxOffers : offerRow[x] \in {"none", "pruned"} => offerRow'[x] \in {"none", "pruned"}
         /\ \A x \in 1 .. MaxOffers, v \in Ended : offerRow[x] \in {v, "pruned"} => offerRow'[x] \in {v, "pruned"}
<1> USE DEF SetupInv
<1>1. offerRow \in [1 .. MaxOffers -> RowStates] /\ journal.offerId \in 0 .. MaxOffers
  BY DEF SetupTypeOK, JournalRecord
<1>2. "pruned" \notin Ended /\ "open" \notin Ended /\ "none" \notin Ended /\ "pruned" \in RowStates /\ Ended \subseteq RowStates
  BY DEF Ended, RowStates
<1>3. \A x \in 1 .. MaxOffers : offerRow'[x] = IF x = o THEN to ELSE offerRow[x]
  BY <1>1
<1>4. to \in RowStates
  BY <1>1, <1>2
<1>5. \A x \in 1 .. MaxOffers : /\ offerRow[x] = "none" => offerRow'[x] = "none"
                                /\ offerRow[x] \in {"none", "pruned"} => offerRow'[x] \in {"none", "pruned"}
                                /\ \A v \in Ended : offerRow[x] \in {v, "pruned"} => offerRow'[x] \in {v, "pruned"}
                                /\ offerRow'[x] = "open" => offerRow[x] = "open"
  BY <1>2, <1>3
<1>6. OffersAccounted'
  BY <1>5 DEF OffersRight, OffersAccounted
<1>7. JournalTrue'
  <2> SUFFICES ASSUME journal.offerId # 0 PROVE JournalTrue'
    BY DEF JournalTrue
  <2>1. journal.offerId \in 1 .. MaxOffers
    BY <1>1, Numbers
  <2> QED
    BY <2>1, <1>5 DEF OffersRight, JournalTrue
<1> QED
  BY <1>1, <1>4, <1>5, <1>6, <1>7

LEMMA OfferStep ==
  ASSUME SetupInv, NEW p \in Runs, NEW n \in RunRecord, run' = [run EXCEPT ![p] = n], n.pc \in OfferPcs \cup {"idle"},
         UNCHANGED <<identityVars, inviteVars, enrollVars, pairVars, policyFile>>, Goes(p, n),
         journal' \in JournalRecord, journal'.enroll = journal.enroll, journal'.intent = journal.intent,
         journal'.op = journal.op, journal'.invite = journal.invite, journal'.pair = journal.pair,
         journal'.paired = journal.paired,
         offerRow' \in [1 .. MaxOffers -> RowStates], offersTried' \in 0 .. MaxOffers, shownLinks' \subseteq 1 .. MaxOffers,
         \A o \in 1 .. MaxOffers : o > offersTried' => offerRow'[o] = "none",
         journal'.offerId <= offersTried', OfferRight(p)', OffersAccounted', JournalTrue'
  PROVE  SetupInv'
<1> USE DEF SetupInv
<1>1. UNCHANGED <<files, traces, generated>>
  BY DEF identityVars
<1>2. /\ n.pc \in LockedPcs => setupLock' = p /\ files'.db = 1
      /\ setupLock' = setupLock \/ setupLock \in {0, p}
      /\ setupLock' \in Runs \cup {0}
      /\ run'[p] = n
      /\ \A q \in Runs : q # p => run'[q] = run[q] /\ run[q].pc \notin LockedPcs
      /\ run' \in [Runs -> RunRecord]
  BY <1>1, GoesFacts
<1>3. SetupTypeOK'
  BY <1>1, <1>2 DEF SetupTypeOK, inviteVars, pairVars
<1>4. ASSUME NEW q \in Runs PROVE OfferRight(q)'
  <2>1. CASE q = p
    BY <2>1
  <2>2. CASE q # p
    <3>1. run'[q].pc \notin OfferPcs
      BY <2>2, <1>2, PcFacts
    <3>2. run'[q].pc \notin {"pend", "create", "show", "record"}
      BY <3>1, PcFacts
    <3> QED
      BY <3>1, <3>2 DEF OfferRight
  <2> QED
    BY <2>1, <2>2
<1>5. OffersRight'
  BY <1>4 DEF OffersRight
<1>6. n.pc \notin InvitePcs /\ n.pc \notin {"prepare", "enrol"} /\ n.pc \notin PairPcs \cup {"publish"}
      /\ n.pc \notin {"identity", "certificate"}
  BY PcFacts
<1> QED
  BY <1>1, <1>2, <1>3, <1>5, <1>6, OneCommand

(* A step that only says something of the offer in the journal.            *)
LEMMA OfferSaved ==
  ASSUME SetupTypeOK, NEW v \in {"none", "pending", "not_created"} \cup Verdicts, NEW id \in 0 .. MaxOffers,
         NEW j, j = [journal EXCEPT !.offer = v, !.offerId = id], Saves(j)
  PROVE  /\ journal' \in JournalRecord /\ journal'.offer = v /\ journal'.offerId = id
         /\ journal'.enroll = journal.enroll /\ journal'.intent = journal.intent /\ journal'.op = journal.op
         /\ journal'.invite = journal.invite /\ journal'.pair = journal.pair /\ journal'.paired = journal.paired
<1>1. /\ j \in JournalRecord /\ j.offer = v /\ j.offerId = id
      /\ j.enroll = journal.enroll /\ j.intent = journal.intent /\ j.op = journal.op
      /\ j.invite = journal.invite /\ j.pair = journal.pair /\ j.paired = journal.paired
  BY DEF SetupTypeOK, JournalRecord
<1> QED
  BY <1>1, SavedForm

LEMMA StepOffer ==
  ASSUME SetupInv, NEW p \in Runs, RunOffer(p)
  PROVE  SetupInv'
<1> USE DEF SetupInv
<1> DEFINE Rest == UNCHANGED <<identityVars, inviteVars, enrollVars, pairVars, policyFile>>
<1>0. /\ journal \in JournalRecord /\ journal.offerId \in 0 .. MaxOffers /\ SetupTypeOK
      /\ offerRow \in [1 .. MaxOffers -> RowStates] /\ offersTried \in 0 .. MaxOffers /\ shownLinks \subseteq 1 .. MaxOffers
      /\ \A o \in 1 .. MaxOffers : o > offersTried => offerRow[o] = "none"
      /\ journal.offerId <= offersTried /\ OfferRight(p) /\ OffersAccounted /\ JournalTrue
      /\ MaxOffers \in Nat /\ run[p] \in RunRecord
      /\ journal.offer \in {"none", "pending", "not_created"} \cup Verdicts
  BY Numbers DEF SetupTypeOK, JournalRecord, OffersRight
<1>1. CASE OfferStarts(p)
  <2>1. /\ journal.offer # "pending" /\ offersTried < MaxOffers /\ offersTried' = offersTried + 1
        /\ Starts(p, "pend", offersTried + 1, "unset") /\ Rest /\ UNCHANGED <<journal, offerRow, shownLinks>>
    BY <1>1 DEF OfferStarts
  <2>2. PICK id \in 1 .. MaxOffers : id = offersTried + 1
    BY <2>1, <1>0
  <2>3. id \in 0 .. MaxOffers /\ offersTried' = id /\ offersTried' \in 0 .. MaxOffers /\ id \in 1 .. offersTried'
        /\ offerRow[id] = "none"
    BY <2>1, <2>2, <1>0
  <2>4. /\ \E n \in RunRecord : run' = [run EXCEPT ![p] = n] /\ n.pc = "pend" /\ n.id = id /\ n.what = "unset"
        /\ setupLock = 0 /\ setupLock' = p /\ files.db = 1
    <3>1. Starts(p, "pend", id, "unset") /\ "unset" \in Verdicts
      BY <2>1, <2>2 DEF Verdicts
    <3> QED
      BY <3>1, <2>3, StartForm, PcFacts
  <2>5. PICK n \in RunRecord : run' = [run EXCEPT ![p] = n] /\ n.pc = "pend" /\ n.id = id /\ n.what = "unset"
    BY <2>4
  <2>6. Goes(p, n)
    BY <2>4 DEF Goes, Began
  <2>7. run'[p] = n
    BY <2>5 DEF SetupTypeOK
  <2>8. OfferRight(p)'
    BY <2>1, <2>3, <2>5, <2>7 DEF OfferRight
  <2>9. OffersAccounted' /\ JournalTrue'
    BY <2>1, <1>0 DEF OffersAccounted, JournalTrue
  <2>10. /\ \A o \in 1 .. MaxOffers : o > offersTried' => offerRow'[o] = "none"
         /\ journal'.offerId <= offersTried'
    BY <2>1, <2>3, <1>0
  <2> QED
    BY <1>0, <2>1, <2>3, <2>5, <2>6, <2>8, <2>9, <2>10, OfferStep, PcFacts
<1>2. CASE PendsOffer(p)
  <2>1. run[p].pc = "pend"
    BY <1>2 DEF PendsOffer, In
  <2>2. PICK id : id = run[p].id
    OBVIOUS
  <2>3. /\ id \in 1 .. offersTried /\ id \in 0 .. MaxOffers /\ run[p].what = "unset" /\ journal.offer # "pending"
        /\ offerRow[id] = "none" /\ id <= offersTried
    BY <1>0, <2>1, <2>2, PcFacts DEF OfferRight, RunRecord
  <2>4. PICK j : j = [journal EXCEPT !.offer = "pending", !.offerId = id]
    OBVIOUS
  <2>5. Saves(j) /\ Step(p, "create") /\ Rest /\ UNCHANGED <<setupLock, offerRow, offersTried, shownLinks>>
    BY <1>2, <2>2, <2>4 DEF PendsOffer, offerVars
  <2>6. /\ journal' \in JournalRecord /\ journal'.offer = "pending" /\ journal'.offerId = id
        /\ journal'.enroll = journal.enroll /\ journal'.intent = journal.intent /\ journal'.op = journal.op
        /\ journal'.invite = journal.invite /\ journal'.pair = journal.pair /\ journal'.paired = journal.paired
    BY <2>3, <2>4, <2>5, <1>0, OfferSaved
  <2>7. PICK n \in RunRecord : run' = [run EXCEPT ![p] = n] /\ n.pc = "create" /\ n.id = id /\ n.what = "unset"
    BY <2>2, <2>3, <2>5, StepForm, PcFacts
  <2>8. Goes(p, n)
    BY <2>1, <2>5, PcFacts DEF Goes, WentOn
  <2>9. run'[p] = n
    BY <2>7 DEF SetupTypeOK
  <2>10. OfferRight(p)'
    BY <2>3, <2>5, <2>6, <2>7, <2>9 DEF OfferRight
  <2>11. OffersAccounted'
    BY <1>0, <2>3, <2>5 DEF OffersAccounted
  <2>12. JournalTrue'
    BY <2>6 DEF JournalTrue, Ended
  <2> QED
    BY <1>0, <2>3, <2>5, <2>6, <2>7, <2>8, <2>10, <2>11, <2>12, OfferStep, PcFacts
<1>3. ASSUME NEW accepted \in BOOLEAN, CreatesOffer(p, accepted) PROVE SetupInv'
  <2>1. run[p].pc = "create"
    BY <1>3 DEF CreatesOffer, In
  <2>2. PICK id : id = run[p].id
    OBVIOUS
  <2>3. /\ id \in 1 .. offersTried /\ id \in 1 .. MaxOffers /\ run[p].what = "unset" /\ journal.offer = "pending"
        /\ journal.offerId = id /\ offerRow[id] = "none"
    BY <1>0, <2>1, <2>2, PcFacts DEF OfferRight
  <2>4. Rest /\ UNCHANGED <<setupLock, journal, offersTried, shownLinks>>
    BY <1>3 DEF CreatesOffer
  <2>5. CASE accepted
    <3>1. offerRow' = [offerRow EXCEPT ![id] = "open"] /\ Step(p, "show")
      BY <1>3, <2>2, <2>5 DEF CreatesOffer
    <3>2. PICK n \in RunRecord : run' = [run EXCEPT ![p] = n] /\ n.pc = "show" /\ n.id = id /\ n.what = "unset"
      BY <2>2, <2>3, <3>1, StepForm, PcFacts
    <3>3. Goes(p, n)
      BY <2>1, <2>4, PcFacts DEF Goes, WentOn
    <3>4. run'[p] = n
      BY <3>2 DEF SetupTypeOK
    <3>5. offerRow' \in [1 .. MaxOffers -> RowStates] /\ \A o \in 1 .. MaxOffers : o # id => offerRow'[o] = offerRow[o]
      BY <1>0, <3>1 DEF RowStates
    <3>6. OfferRight(p)'
      BY <2>3, <2>4, <3>2, <3>4 DEF OfferRight
    <3>7. OffersAccounted'
      BY <1>0, <2>3, <2>4, <3>5 DEF OffersAccounted
    <3>8. JournalTrue'
      BY <2>3, <2>4 DEF JournalTrue, Ended
    <3>9. \A o \in 1 .. MaxOffers : o > offersTried' => offerRow'[o] = "none"
      BY <1>0, <2>3, <2>4, <3>5
    <3> QED
      BY <1>0, <2>4, <3>2, <3>3, <3>5, <3>6, <3>7, <3>8, <3>9, OfferStep, PcFacts
  <2>6. CASE ~accepted
    <3>1. UNCHANGED offerRow /\ Step(p, "record")
      BY <1>3, <2>6 DEF CreatesOffer
    <3>2. PICK n \in RunRecord : run' = [run EXCEPT ![p] = n] /\ n.pc = "record" /\ n.id = id /\ n.what = "unset"
      BY <2>2, <2>3, <3>1, StepForm, PcFacts
    <3>3. Goes(p, n)
      BY <2>1, <2>4, PcFacts DEF Goes, WentOn
    <3>4. run'[p] = n
      BY <3>2 DEF SetupTypeOK
    <3>5. OfferRight(p)'
      BY <2>3, <2>4, <3>1, <3>2, <3>4 DEF OfferRight, Verdicts, Ended
    <3>6. OffersAccounted' /\ JournalTrue'
      BY <1>0, <2>4, <3>1 DEF OffersAccounted, JournalTrue
    <3> QED
      BY <1>0, <2>4, <3>1, <3>2, <3>3, <3>5, <3>6, OfferStep, PcFacts
  <2> QED
    BY <2>5, <2>6
<1>4. ASSUME NotCreated(p) \/ RecordsOffer(p) PROVE SetupInv'
  <2>1. run[p].pc = "record"
    BY <1>4 DEF NotCreated, RecordsOffer, In
  <2>2. PICK id : id = journal.offerId
    OBVIOUS
  <2>3. PICK w : w = run[p].what
    OBVIOUS
  <2>4. /\ w \in Verdicts /\ id \in 1 .. offersTried /\ id \in 1 .. MaxOffers /\ id \in 0 .. MaxOffers
        /\ w = "unset" => offerRow[id] = "none"
        /\ w = "complete" => id \in shownLinks
        /\ w = "stopped_unknown" => offerRow[id] \in {"none", "pruned"}
        /\ w \in Ended => offerRow[id] \in {w, "pruned"}
    BY <1>0, <2>1, <2>2, <2>3, PcFacts DEF OfferRight
  <2>5. PICK v \in {"not_created"} \cup Verdicts :
          /\ (v = "not_created" /\ w = "unset") \/ (v = w /\ w # "unset")
          /\ \E k : k = [journal EXCEPT !.offer = v] /\ Saves(k)
    BY <1>4, <2>3, <2>4 DEF NotCreated, RecordsOffer
  <2>6. PICK j : j = [journal EXCEPT !.offer = v] /\ Saves(j)
    BY <2>5
  <2>7. j = [journal EXCEPT !.offer = v, !.offerId = id]
    BY <1>0, <2>2, <2>6 DEF JournalRecord
  <2>8. /\ journal' \in JournalRecord /\ journal'.offer = v /\ journal'.offerId = id
        /\ journal'.enroll = journal.enroll /\ journal'.intent = journal.intent /\ journal'.op = journal.op
        /\ journal'.invite = journal.invite /\ journal'.pair = journal.pair /\ journal'.paired = journal.paired
    BY <2>4, <2>6, <2>7, <1>0, OfferSaved
  <2>9. Over(p) /\ Rest /\ UNCHANGED <<offerRow, offersTried, shownLinks>>
    BY <1>4 DEF NotCreated, RecordsOffer, offerVars
  <2>10. /\ NoRun \in RunRecord /\ run' = [run EXCEPT ![p] = NoRun] /\ NoRun.pc = "idle" /\ Goes(p, NoRun)
    BY <2>1, <2>9, OverForm, PcFacts DEF Goes, Ends
  <2>11. run'[p].pc = "idle"
    BY <2>10 DEF SetupTypeOK
  <2>12. OfferRight(p)'
    BY <2>11, PcFacts DEF OfferRight
  <2>13. OffersAccounted'
    <3> SUFFICES ASSUME NEW o \in 1 .. MaxOffers, offerRow[o] = "open", o \notin shownLinks PROVE FALSE
      BY <2>9 DEF OffersAccounted
    <3>1. o = id
      BY <1>0, <2>2 DEF OffersAccounted
    <3> QED
      BY <3>1, <2>4 DEF Verdicts, Ended
  <2>14. JournalTrue'
    BY <2>4, <2>5, <2>8, <2>9 DEF JournalTrue, Verdicts, Ended
  <2>15. journal'.offerId <= offersTried'
    BY <1>0, <2>2, <2>8, <2>9
  <2> QED
    BY <1>0, <2>8, <2>9, <2>10, <2>12, <2>13, <2>14, <2>15, OfferStep
<1>5. CASE ShowsLink(p)
  <2>1. run[p].pc = "show"
    BY <1>5 DEF ShowsLink, In
  <2>2. PICK id : id = run[p].id
    OBVIOUS
  <2>3. id \in 1 .. offersTried /\ id \in 1 .. MaxOffers /\ journal.offer = "pending" /\ journal.offerId = id
    BY <1>0, <2>1, <2>2, PcFacts DEF OfferRight
  <2>4. /\ shownLinks' = shownLinks \cup {id} /\ run' = [run EXCEPT ![p].pc = "record", ![p].what = "complete"]
        /\ Rest /\ UNCHANGED <<setupLock, journal, offerRow, offersTried>>
    BY <1>5, <2>2 DEF ShowsLink
  <2>5. PICK n : n = [run[p] EXCEPT !.pc = "record", !.what = "complete"]
    OBVIOUS
  <2>6. n \in RunRecord /\ n.pc = "record" /\ n.id = id /\ n.what = "complete"
    BY <1>0, <2>2, <2>5, PcFacts DEF RunRecord, Verdicts
  <2>7. run' = [run EXCEPT ![p] = n]
    BY <2>4, <2>5 DEF SetupTypeOK
  <2>8. Goes(p, n)
    BY <2>1, <2>4, PcFacts DEF Goes, WentOn
  <2>9. run'[p] = n
    BY <2>7 DEF SetupTypeOK
  <2>e. "complete" \in Verdicts /\ "complete" \notin Ended
    BY DEF Verdicts, Ended
  <2>i. id \in shownLinks' /\ id \in 1 .. offersTried' /\ journal'.offerId = id
    BY <2>3, <2>4
  <2>10. OfferRight(p)'
    BY <2>e, <2>i, <2>6, <2>9 DEF OfferRight
  <2>11. OffersAccounted' /\ JournalTrue'
    BY <1>0, <2>4 DEF OffersAccounted, JournalTrue
  <2>12. shownLinks' \subseteq 1 .. MaxOffers
    BY <1>0, <2>3, <2>4
  <2> QED
    BY <1>0, <2>4, <2>6, <2>7, <2>8, <2>10, <2>11, <2>12, OfferStep, PcFacts
<1>6. ASSUME NEW o \in 1 .. offersTried, NEW cancels \in BOOLEAN, ReconcilesOffer(p, o, cancels) PROVE SetupInv'
  <2>0. o \in 1 .. MaxOffers /\ o \in 0 .. MaxOffers
    BY <1>0
  <2>1. PICK status : status = IF cancels /\ offerRow[o] = "open" THEN "cancelled" ELSE offerRow[o]
    OBVIOUS
  <2>2. PICK known \in BOOLEAN : known = (offerRow[o] \notin {"none", "pruned"})
    OBVIOUS
  <2>3. PICK records : records = IF known THEN status ELSE IF cancels THEN "stopped_unknown" ELSE "open"
    OBVIOUS
  <2>4. /\ offerRow' = IF known THEN [offerRow EXCEPT ![o] = status] ELSE offerRow
        /\ IF o = journal.offerId /\ records # "open" THEN Starts(p, "record", o, records)
           ELSE In(p, "idle") /\ TakesLock(p) /\ UNCHANGED <<run, setupLock>>
        /\ Rest /\ UNCHANGED <<journal, offersTried, shownLinks>>
    BY <1>6, <2>1, <2>2, <2>3 DEF ReconcilesOffer
  <2>5. \/ status = offerRow[o]
        \/ offerRow[o] = "open" /\ status \in Ended
    BY <2>1 DEF Ended
  <2>6. PICK to : to = IF known THEN status ELSE offerRow[o]
    OBVIOUS
  <2>7. offerRow' = [offerRow EXCEPT ![o] = to]
    BY <2>0, <2>4, <2>6, <1>0
  <2>8. /\ OffersAccounted' /\ JournalTrue'
        /\ offerRow' \in [1 .. MaxOffers -> RowStates]
        /\ \A x \in 1 .. MaxOffers : offerRow[x] = "none" => offerRow'[x] = "none"
    BY <2>0, <2>4, <2>5, <2>6, <2>7, RowEnds
  <2>9. \A x \in 1 .. MaxOffers : x > offersTried' => offerRow'[x] = "none"
    BY <1>0, <2>4, <2>8
  <2>10. CASE o = journal.offerId /\ records # "open"
    <3>1. Starts(p, "record", o, records)
      BY <2>4, <2>10
    <3>2. /\ records \in Verdicts /\ records # "unset" /\ records # "complete"
          /\ records = "stopped_unknown" => offerRow'[o] \in {"none", "pruned"}
          /\ records \in Ended => offerRow'[o] \in {records, "pruned"}
      <4>1. offerRow[o] \in RowStates
        BY <1>0, <2>0
      <4>2. offerRow'[o] = to
        BY <1>0, <2>0, <2>7
      <4>3. CASE known
        <5>1. records = status /\ to = status /\ status \in Ended
          BY <4>1, <4>3, <2>1, <2>2, <2>3, <2>6, <2>10 DEF RowStates, Ended
        <5> QED
          BY <5>1, <4>2 DEF Verdicts, Ended
      <4>4. CASE ~known
        <5>1. records = "stopped_unknown" /\ to = offerRow[o] /\ offerRow[o] \in {"none", "pruned"}
          BY <4>4, <2>2, <2>3, <2>6, <2>10
        <5> QED
          BY <5>1, <4>2 DEF Verdicts, Ended
      <4> QED
        BY <4>3, <4>4
    <3>3. /\ \E n \in RunRecord : run' = [run EXCEPT ![p] = n] /\ n.pc = "record" /\ n.id = o /\ n.what = records
          /\ setupLock = 0 /\ setupLock' = p /\ files.db = 1
      BY <3>1, <3>2, <2>0, StartForm, PcFacts
    <3>4. PICK n \in RunRecord : run' = [run EXCEPT ![p] = n] /\ n.pc = "record" /\ n.id = o /\ n.what = records
      BY <3>3
    <3>5. Goes(p, n)
      BY <3>3 DEF Goes, Began
    <3>6. run'[p] = n
      BY <3>4 DEF SetupTypeOK
    <3>7. OfferRight(p)'
      BY <2>4, <2>10, <3>2, <3>4, <3>6 DEF OfferRight
    <3> QED
      BY <1>0, <2>4, <2>8, <2>9, <3>4, <3>5, <3>7, OfferStep, PcFacts
  <2>11. CASE ~(o = journal.offerId /\ records # "open")
    <3>1. run[p].pc = "idle" /\ setupLock = 0 /\ UNCHANGED <<run, setupLock>>
      BY <2>4, <2>11 DEF In, TakesLock
    <3>2. PICK n \in RunRecord : n = run[p]
      BY <1>0
    <3>3. run' = [run EXCEPT ![p] = n] /\ n.pc = "idle" /\ Goes(p, n)
      BY <3>1, <3>2 DEF SetupTypeOK, Goes, LooksUpOffer
    <3>4. OfferRight(p)'
      BY <3>1, PcFacts DEF OfferRight
    <3> QED
      BY <1>0, <2>4, <2>8, <2>9, <3>2, <3>3, <3>4, OfferStep
  <2> QED
    BY <2>10, <2>11
<1> QED
  BY <1>1, <1>2, <1>3, <1>4, <1>5, <1>6 DEF RunOffer

(* A kill: the command's locks go, everything it did stays.                *)
LEMMA StepKilled ==
  ASSUME SetupInv, NEW p \in Runs, Killed(p)
  PROVE  SetupInv'
<1>1. /\ Over(p) /\ UNCHANGED <<files, traces, generated, journal, policyFile>>
      /\ UNCHANGED offerVars /\ UNCHANGED inviteVars /\ UNCHANGED enrollVars /\ UNCHANGED pairVars
  BY DEF Killed
<1>2. /\ NoRun \in RunRecord /\ run' = [run EXCEPT ![p] = NoRun] /\ NoRun.pc = "idle" /\ NoRun.pc \notin LockedPcs
      /\ setupLock' = setupLock \/ setupLock = p
      /\ setupLock' \in {0, setupLock}
  BY <1>1, OverForm
<1>3. SetupTypeOK'
  BY <1>1, <1>2 DEF SetupInv, SetupTypeOK, offerVars, inviteVars, pairVars
<1>4. /\ NoRun.pc \notin OfferPcs /\ NoRun.pc \notin {"prepare", "enrol"} /\ NoRun.pc \notin InvitePcs
      /\ NoRun.pc \notin PairPcs \cup {"publish"} /\ NoRun.pc \notin {"identity", "certificate"}
  BY <1>2, PcFacts
<1> QED
  BY <1>1, <1>2, <1>3, <1>4, OneCommand

(* What happens beside the commands.                                       *)
LEMMA StepBeside ==
  ASSUME SetupInv,
         \/ \E o \in 1 .. MaxOffers, to \in Ended \cup {"pruned"} : OfferMoves(o, to)
         \/ \E e \in enrollSent : ServiceEnrols(e)
         \/ \E v \in Policies : OperatorWritesPolicy(v)
         \/ RevokesPeer
         \/ \E f \in {"key", "cert", "db"} : LosesFile(f)
  PROVE  SetupInv'
<1> USE DEF SetupInv
<1>1. ASSUME NEW o \in 1 .. MaxOffers, NEW to \in Ended \cup {"pruned"}, OfferMoves(o, to) PROVE SetupInv'
  <2>1. /\ UNCHANGED <<files, traces, generated, setupLock, journal, offersTried, shownLinks, minted, savedInvites,
                       policyFile, enrollSent, enrolled, peerState, pairTried, run>>
        /\ offerRow' = [offerRow EXCEPT ![o] = to]
        /\ \/ offerRow[o] = "open" /\ to \in Ended
           \/ offerRow[o] \in Ended /\ to = "pruned"
    BY <1>1 DEF OfferMoves, identityVars, inviteVars, enrollVars, pairVars, Ended
  <2>2. /\ OffersAccounted' /\ JournalTrue'
        /\ offerRow' \in [1 .. MaxOffers -> RowStates]
        /\ \A x \in 1 .. MaxOffers : offerRow[x] = "none" => offerRow'[x] = "none"
        /\ \A x \in 1 .. MaxOffers : offerRow[x] \in {"none", "pruned"} => offerRow'[x] \in {"none", "pruned"}
        /\ \A x \in 1 .. MaxOffers, v \in Ended : offerRow[x] \in {v, "pruned"} => offerRow'[x] \in {v, "pruned"}
    BY <2>1, RowEnds
  <2>3. SetupTypeOK'
    BY <2>1, <2>2 DEF SetupTypeOK
  <2>4. ASSUME NEW q \in Runs PROVE OfferRight(q)'
    <3>1. OfferRight(q) /\ run'[q] = run[q]
      BY <2>1 DEF OffersRight
    <3>2a. run[q].pc \in OfferPcs => run[q].id \in 1 .. offersTried
      BY <3>1 DEF OfferRight
    <3>2b. offersTried \in 0 .. MaxOffers /\ MaxOffers \in Nat
      BY Numbers DEF SetupTypeOK
    <3>2. run[q].pc \in OfferPcs => run[q].id \in 1 .. offersTried /\ run[q].id \in 1 .. MaxOffers
      BY <3>2a, <3>2b
    <3>3. PICK c : c = run[q]
      OBVIOUS
    <3> QED
      BY <2>1, <2>2, <3>1, <3>2, <3>3, PcFacts DEF OfferRight
  <2>5. OffersRight'
    BY <2>1, <2>2, <2>4 DEF OffersRight
  <2> QED
    BY <2>1, <2>3, <2>5 DEF LockRight, IdentityRight, EnrollRight, InviteRight, PairRight
<1>2. ASSUME NEW e \in enrollSent, ServiceEnrols(e) PROVE SetupInv'
  <2>1. /\ UNCHANGED <<files, traces, generated, setupLock, journal, offerRow, offersTried, shownLinks, minted, savedInvites,
                       policyFile, enrollSent, peerState, pairTried, run>>
        /\ enrolled' = enrolled \cup {e}
    BY <1>2 DEF ServiceEnrols, identityVars, offerVars, inviteVars, pairVars
  <2>2. EnrollRight'
    BY <1>2, <2>1 DEF EnrollRight
  <2>3. SetupTypeOK' /\ OffersRight'
    BY <2>1 DEF SetupTypeOK, OffersRight, OfferRight, OffersAccounted, JournalTrue
  <2> QED
    BY <2>1, <2>2, <2>3 DEF LockRight, IdentityRight, InviteRight, PairRight
<1>3. ASSUME NEW v \in Policies, OperatorWritesPolicy(v) PROVE SetupInv'
  <2>1. /\ UNCHANGED <<files, traces, generated, setupLock, journal, offerRow, offersTried, shownLinks, minted, savedInvites,
                       enrollSent, enrolled, peerState, pairTried, run>>
        /\ policyFile' = v
    BY <1>3 DEF OperatorWritesPolicy, identityVars, offerVars, inviteVars, enrollVars, pairVars
  <2>2. SetupTypeOK' /\ OffersRight'
    BY <2>1 DEF SetupTypeOK, OffersRight, OfferRight, OffersAccounted, JournalTrue
  <2> QED
    BY <2>1, <2>2 DEF LockRight, IdentityRight, EnrollRight, InviteRight, PairRight
<1>4. CASE RevokesPeer
  <2>1. /\ UNCHANGED <<files, traces, generated, setupLock, journal, offerRow, offersTried, shownLinks, minted, savedInvites,
                       policyFile, enrollSent, enrolled, pairTried, run>>
        /\ peerState' = "revoked"
    BY <1>4 DEF RevokesPeer, identityVars, offerVars, inviteVars, enrollVars
  <2>2. SetupTypeOK' /\ OffersRight'
    BY <2>1 DEF SetupTypeOK, OffersRight, OfferRight, OffersAccounted, JournalTrue
  <2> QED
    BY <2>1, <2>2 DEF LockRight, IdentityRight, EnrollRight, InviteRight, PairRight
<1>5. ASSUME NEW f \in {"key", "cert", "db"}, LosesFile(f) PROVE SetupInv'
  <2>1. /\ UNCHANGED <<traces, generated, setupLock, journal, offerRow, offersTried, shownLinks, minted, savedInvites,
                       policyFile, enrollSent, enrolled, peerState, pairTried, run>>
        /\ files' = [files EXCEPT ![f] = 0] /\ \A q \in Runs : run[q].pc = "idle"
    <3>1. UNCHANGED <<traces, generated, setupLock, idLock, journal, offerVars, inviteVars, policyFile, enrollVars, pairVars, run>>
      BY <1>5 DEF LosesFile
    <3>2. files' = [files EXCEPT ![f] = 0]
      BY <1>5 DEF LosesFile
    <3>3. \A q \in Runs : run[q].pc = "idle"
      BY <1>5 DEF LosesFile, In
    <3> QED
      BY <3>1, <3>2, <3>3 DEF offerVars, inviteVars, enrollVars, pairVars
  <2>2. files' \in [{"key", "cert", "db"} -> {0, 1}] /\ \A h \in {"key", "cert", "db"} : files'[h] \in {0, files[h]}
    BY <2>1, FilesForm
  <2>3. SetupTypeOK'
    BY <2>1, <2>2 DEF SetupTypeOK
  <2>4. OffersRight'
    BY <2>1 DEF OffersRight, OfferRight, OffersAccounted, JournalTrue
  <2>5. IdentityRight'
    BY <2>1, <2>2 DEF IdentityRight
  <2>6. \A q \in Runs : LockRight(q)'
    BY <2>1, PcFacts DEF LockRight
  <2> QED
    BY <2>1, <2>3, <2>4, <2>5, <2>6 DEF EnrollRight, InviteRight, PairRight
<1> QED
  BY <1>1, <1>2, <1>3, <1>4, <1>5

LEMMA SetupStep ==
  SetupInv /\ [SetupNext]_setupVars => SetupInv'
<1> SUFFICES ASSUME SetupInv, [SetupNext]_setupVars PROVE SetupInv'
  OBVIOUS
<1>1. CASE UNCHANGED setupVars
  BY <1>1 DEF setupVars, SetupInv, SetupTypeOK, LockRight, IdentityRight, OffersRight, OfferRight, OffersAccounted,
              JournalTrue, EnrollRight, InviteRight, PairRight
<1>2. ASSUME NEW p \in Runs,
             RunInit(p) \/ RunOffer(p) \/ RunEnroll(p) \/ RunPolicy(p) \/ RunInvite(p) \/ RunPair(p) \/ Killed(p)
      PROVE  SetupInv'
  BY <1>2, StepInit, StepOffer, StepEnroll, StepInvite, StepPair, StepKilled
<1> QED
  BY <1>1, <1>2, StepBeside DEF SetupNext

LEMMA SetupHolds ==
  ASSUME SetupInv
  PROVE  OffersAccounted /\ JournalTrue /\ EnrolledOnce /\ NothingTwice
<1> USE DEF SetupInv
<1>1. OffersAccounted /\ JournalTrue
  BY DEF OffersRight
<1>2. EnrolledOnce
  <2>1. PICK e : e = [op |-> journal.op, intent |-> journal.intent, identity |-> 1]
    OBVIOUS
  <2>2. enrollSent \subseteq {e}
    BY <2>1 DEF EnrollRight
  <2>3. IsFiniteSet({e}) /\ Cardinality({e}) = 1
    BY FS_Singleton
  <2>4. Cardinality(enrollSent) <= 1
    BY <2>2, <2>3, FS_Subset
  <2> QED
    BY <2>4 DEF EnrolledOnce, EnrollRight
<1>3. NothingTwice
  <2>1. PICK v : v = journal.pair
    OBVIOUS
  <2>2. pairTried \subseteq {v} /\ (journal.paired = "complete" => peerState \in {"paired", "revoked"})
    BY <2>1 DEF PairRight
  <2>3. IsFiniteSet({v}) /\ Cardinality({v}) = 1
    BY FS_Singleton
  <2>4. Cardinality(pairTried) <= 1
    BY <2>2, <2>3, FS_Subset
  <2>5. generated <= 1 /\ journal.identity \in {0, 1}
    BY DEF SetupTypeOK, JournalRecord
  <2> QED
    BY <2>2, <2>4, <2>5 DEF NothingTwice, InviteRight
<1> QED
  BY <1>1, <1>2, <1>3

LEMMA PolicyStays ==
  SetupInv /\ [SetupNext]_setupVars => [policyFile # "unset" => policyFile' = policyFile]_policyFile
<1> SUFFICES ASSUME [SetupNext]_setupVars, policyFile # "unset" PROVE policyFile' = policyFile
  OBVIOUS
<1>1. CASE UNCHANGED setupVars
  BY <1>1 DEF setupVars
<1>2. ASSUME NEW p \in Runs, RunInit(p) PROVE policyFile' = policyFile
  BY <1>2 DEF RunInit, InitChecks, TakesIdentityLock, WritesCertificate, OpensStore, SavesInit
<1>3. ASSUME NEW p \in Runs, RunOffer(p) PROVE policyFile' = policyFile
  BY <1>3 DEF RunOffer, OfferStarts, PendsOffer, CreatesOffer, NotCreated, ShowsLink, RecordsOffer, ReconcilesOffer
<1>4. ASSUME NEW p \in Runs, RunEnroll(p) PROVE policyFile' = policyFile
  BY <1>4 DEF RunEnroll, EnrollStarts, Prepares, DoubtsEnrollment, SendsEnrollment, KeepsReceipt
<1>5. ASSUME NEW p \in Runs, RunPolicy(p) PROVE policyFile' = policyFile
  BY <1>5 DEF RunPolicy, PolicyStarts, PublishesPolicy, Publishes
<1>6. ASSUME NEW p \in Runs, RunInvite(p) \/ RunPair(p) PROVE policyFile' = policyFile
  BY <1>6 DEF RunInvite, InviteStarts, PendsInvite, Mints, SavesInvite, CompletesInvite,
              RunPair, PairStarts, IntendsPair, Pairs, CompletesPair
<1>7. ASSUME NEW p \in Runs, Killed(p) PROVE policyFile' = policyFile
  BY <1>7 DEF Killed
<1>8. ASSUME NEW o, NEW to, OfferMoves(o, to) PROVE policyFile' = policyFile
  BY <1>8 DEF OfferMoves
<1>9. ASSUME NEW e, ServiceEnrols(e) PROVE policyFile' = policyFile
  BY <1>9 DEF ServiceEnrols
<1>10. ASSUME NEW v, OperatorWritesPolicy(v) PROVE policyFile' = policyFile
  BY <1>10 DEF OperatorWritesPolicy
<1>11. ASSUME NEW f, RevokesPeer \/ LosesFile(f) PROVE policyFile' = policyFile
  BY <1>11 DEF RevokesPeer, LosesFile
<1> QED
  BY <1>1, <1>2, <1>3, <1>4, <1>5, <1>6, <1>7, <1>8, <1>9, <1>10, <1>11 DEF SetupNext

(* Guided setup, stopped anywhere and run again, or several at a time,     *)
(* does nothing twice, keeps what was there and never says what is not so  *)
(* (setup.py), for any number of commands, offers and invitations.         *)
THEOREM SetupKept == SetupSpec => SetupSafe
<1>1. SetupInit => SetupInv
  BY SetupInitially
<1>2. SetupInv /\ [SetupNext]_setupVars => SetupInv'
  BY SetupStep
<1>3. SetupInv => OffersAccounted /\ JournalTrue /\ EnrolledOnce /\ NothingTwice
  BY SetupHolds
<1>4. SetupInv /\ [SetupNext]_setupVars => [policyFile # "unset" => policyFile' = policyFile]_policyFile
  BY PolicyStays
<1> QED
  BY <1>1, <1>2, <1>3, <1>4, PTL DEF SetupSpec, SetupSafe, PolicyKept
=============================================================================
