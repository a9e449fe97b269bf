------------------------ MODULE ToolGenBatch_proofs ------------------------
(***************************************************************************)
(* Proofs about ToolGenBatch and the publishers of DeliveryPublish, for    *)
(* any environments, workers, attempts and starts of the batch, whatever   *)
(* is killed and when.                                                     *)
(***************************************************************************)
EXTENDS ToolGenBatch, TLAPS

(***************************************************************************)
(* The publishers.                                                         *)
(***************************************************************************)

\* A package, published or moved away, is of its own environment and was put in
\* place whole; one that is moved away is held by a publisher between its renames.
PackageInv ==
  /\ \A e \in Environment :
       package[e] # None => package[e][1] = e /\ stage[package[e]] = "published"
  /\ \A p \in Publisher :
       saved[p] # None => /\ saved[p][1] = p[1] /\ stage[saved[p]] = "published"
                          /\ stage[p] \in {"place", "rollback"}

\* From its check of the profile on, a publisher's tools match what is published.
ProfileInv ==
  \A p \in Publisher :
    /\ stage[p] \in {"absent", "work"} => built[p] = None
    /\ stage[p] = "profile" => built[p] # None
    /\ stage[p] \in {"package", "away", "place", "rollback", "published"} /\ built[p] # None =>
         profile = built[p]

DeliveryInv == DeliveryTypeOK /\ PackageInv /\ ProfileInv /\ DeliveryStays

(***************************************************************************)
(* The batch.                                                              *)
(***************************************************************************)

\* The next process of an environment is a new one; a worker that is about to start it
\* has the number of its attempt, and one that is to begin an attempt has a try left.
AttemptInv ==
  /\ \A p \in Publisher : p[2] > launched[p[1]] => stage[p] = "absent"
  /\ \A e \in Environment :
       /\ worker[e] \in {"born", "watch"} => launched[e] >= 1
       /\ worker[e] = "spawn" => attempt[e] >= 1 /\ launched[e] < Attempts[e]
       /\ worker[e] \in {"none", "queued"} => tries[e] = 0
       /\ worker[e] \in {"begin", "pause"} => tries[e] < MaxTries

\* Attempts are numbered upwards, as long as status.json keeps the last number.
LogInv ==
  \A e \in Environment \ forgotten : \A n \in Nat :
    <<e, n>> \in logged =>
      1 <= n /\ n <= attempt[e] /\ (worker[e] = "spawn" => n < attempt[e])

\* A live process outside the orphans is watched by its worker, or about to be.
ChildInv ==
  /\ \A p \in Publisher :
       stage[p] \in Alive /\ p \notin orphans =>
         worker[p[1]] \in {"born", "watch"} /\ p = Child(p[1])
  /\ registered = {e \in Environment : worker[e] = "watch"}

\* Workers are busy only while the main thread waits for them, and only those of the
\* selected environments.
MainInv ==
  /\ \A e \in Environment \ selected : worker[e] = "none"
  /\ main \in {"off", "locked", "read", "exited"} => \A e \in Environment : worker[e] = "none"
  /\ main = "scan" => \A e \in selected : worker[e] \in {"none", "queued", "done"}
  /\ main \in {"decide", "report", "closing"} => \A e \in selected : worker[e] = "done"
  /\ main \notin {"report", "closing"} => decided = "none"

\* The package of e is in place, or a process the batch does not know of has it or
\* died with it.
Covered(e) ==
  \/ package[e] # None
  \/ e \in cut
  \/ \E p \in orphans : p[1] = e /\ saved[p] # None

AllDelivered == \A e \in selected : entry[e] = "succeeded" /\ Covered(e)

\* What the status file says of an environment that is done with.
EntryInv ==
  /\ ~stop => \A e \in Environment :
       worker[e] = "done" =>
         entry[e] = "failed" \/ (entry[e] = "succeeded" /\ Covered(e))
  /\ decided = "completed" => AllDelivered
  /\ main \in {"closing", "exited"} /\ state = "completed" => AllDelivered

BatchInv == AttemptInv /\ LogInv /\ ChildInv /\ MainInv /\ EntryInv

\* The inductive invariant.
IInv == TypeOK /\ DeliveryInv /\ BatchInv

-----------------------------------------------------------------------------
(***************************************************************************)
(* Lemmas about publishers.                                                *)
(***************************************************************************)

LEMMA PublisherPairs ==
  /\ None \notin Publisher
  /\ \A p \in Publisher : p = <<p[1], p[2]>> /\ p[1] \in Environment
                         /\ p[2] \in 1..Attempts[p[1]]
  /\ \A e \in Environment : \A n \in 1..Attempts[e] : <<e, n>> \in Publisher
<1>1. \A e \in Environment : \A n \in 1..Attempts[e] : <<e, n>> \in Publisher
  BY DEF Publisher
<1>2. ASSUME NEW p \in Publisher
      PROVE  /\ p = <<p[1], p[2]>> /\ p[1] \in Environment
             /\ p[2] \in 1..Attempts[p[1]] /\ p \in Environment \X Nat
  <2>1. PICK e \in Environment : p \in {e} \X (1..Attempts[e])
    BY <1>2 DEF Publisher
  <2> QED  BY <2>1, DeliveryAssumption
<1> QED
  BY <1>1, <1>2, DeliveryAssumption

LEMMA CheckProfileKeeps ==
  ASSUME DeliveryInv, NEW p \in Publisher, CheckProfile(p)
  PROVE  DeliveryInv'
<1> USE DEF DeliveryInv, CheckProfile, Step, Leave
<1>1. DeliveryTypeOK'
  <2>1. Software[p[1]] \subseteq Version \cup {None}
    BY PublisherPairs, DeliveryAssumption
  <2> QED  BY <2>1 DEF DeliveryTypeOK, Alive
<1>2. PackageInv'
  BY PublisherPairs DEF DeliveryTypeOK, PackageInv
<1>3. ProfileInv'
  BY DeliveryAssumption DEF DeliveryTypeOK, ProfileInv
<1>4. DeliveryStays'
  BY DEF DeliveryTypeOK, PackageInv, DeliveryStays
<1> QED
  BY <1>1, <1>2, <1>3, <1>4

LEMMA PlaceProfileKeeps ==
  ASSUME DeliveryInv, NEW p \in Publisher, PlaceProfile(p)
  PROVE  DeliveryInv'
<1> USE DEF DeliveryInv, PlaceProfile, Step, Leave
<1>1. DeliveryTypeOK'
  BY DEF DeliveryTypeOK, Alive
<1>2. PackageInv'
  BY PublisherPairs DEF DeliveryTypeOK, PackageInv
<1>3. ProfileInv'
  BY DeliveryAssumption DEF DeliveryTypeOK, ProfileInv
<1>4. DeliveryStays'
  BY DEF DeliveryTypeOK, PackageInv, DeliveryStays
<1> QED
  BY <1>1, <1>2, <1>3, <1>4

LEMMA ReplaceKeeps ==
  ASSUME DeliveryInv, NEW p \in Publisher,
         Look(p) \/ MoveAway(p) \/ Place(p) \/ Rollback(p)
  PROVE  DeliveryInv'
<1> USE DEF DeliveryInv, Step, Leave
<1>0. p[1] \in Environment /\ p # None
  BY PublisherPairs
<1>1. DeliveryTypeOK'
  BY <1>0 DEF DeliveryTypeOK, Alive, Look, MoveAway, Place, Rollback
<1>2. PackageInv'
  <2>1. CASE Look(p)
    BY <2>1, <1>0, PublisherPairs DEF DeliveryTypeOK, PackageInv, Look
  <2>2. CASE MoveAway(p)
    <3>1. ASSUME NEW e \in Environment, package'[e] # None
          PROVE  package'[e][1] = e /\ stage'[package'[e]] = "published"
      BY <2>2, <3>1, <1>0, PublisherPairs DEF DeliveryTypeOK, PackageInv, MoveAway
    <3>2. ASSUME NEW q \in Publisher, saved'[q] # None
          PROVE  /\ saved'[q][1] = q[1] /\ stage'[saved'[q]] = "published"
                 /\ stage'[q] \in {"place", "rollback"}
      BY <2>2, <3>2, <1>0, PublisherPairs DEF DeliveryTypeOK, PackageInv, MoveAway
    <3> QED  BY <3>1, <3>2 DEF PackageInv
  <2>3. CASE Place(p)
    <3>1. ASSUME NEW e \in Environment, package'[e] # None
          PROVE  package'[e][1] = e /\ stage'[package'[e]] = "published"
      BY <2>3, <3>1, <1>0, PublisherPairs DEF DeliveryTypeOK, PackageInv, Place
    <3>2. ASSUME NEW q \in Publisher, saved'[q] # None
          PROVE  /\ saved'[q][1] = q[1] /\ stage'[saved'[q]] = "published"
                 /\ stage'[q] \in {"place", "rollback"}
      BY <2>3, <3>2, <1>0, PublisherPairs DEF DeliveryTypeOK, PackageInv, Place
    <3> QED  BY <3>1, <3>2 DEF PackageInv
  <2>4. CASE Rollback(p)
    <3>1. ASSUME NEW e \in Environment, package'[e] # None
          PROVE  package'[e][1] = e /\ stage'[package'[e]] = "published"
      BY <2>4, <3>1, <1>0, PublisherPairs DEF DeliveryTypeOK, PackageInv, Rollback
    <3>2. ASSUME NEW q \in Publisher, saved'[q] # None
          PROVE  /\ saved'[q][1] = q[1] /\ stage'[saved'[q]] = "published"
                 /\ stage'[q] \in {"place", "rollback"}
      BY <2>4, <3>2, <1>0, PublisherPairs DEF DeliveryTypeOK, PackageInv, Rollback
    <3> QED  BY <3>1, <3>2 DEF PackageInv
  <2> QED  BY <2>1, <2>2, <2>3, <2>4
<1>3. ProfileInv'
  BY DEF DeliveryTypeOK, ProfileInv, Look, MoveAway, Place, Rollback
<1>4. DeliveryStays'
  <2>1. CASE Look(p)
    BY <2>1 DEF DeliveryTypeOK, DeliveryStays, Look
  <2>2. CASE MoveAway(p)
    <3> SUFFICES ASSUME NEW r \in Publisher, stage'[r] = "published", r[1] \notin cut
                 PROVE  \/ package'[r[1]] # None
                        \/ \E q \in Publisher : q[1] = r[1] /\ saved'[q] # None
      BY <2>2 DEF DeliveryStays, MoveAway
    <3>1. stage[p] = "away" /\ cut' = cut
      BY <2>2 DEF MoveAway
    <3>2. saved[p] = None
      BY <3>1 DEF PackageInv
    <3>3. r[1] \in Environment
      BY PublisherPairs
    <3>4. stage' = [stage EXCEPT ![p] = "place"] \/ stage' = [stage EXCEPT ![p] = "failed"]
      BY <2>2 DEF MoveAway
    <3>5. stage \in [Publisher -> Alive \cup {"absent", "published", "failed"}]
      BY DEF DeliveryTypeOK
    <3>6. stage[r] = "published"
      <4> HIDE DEF DeliveryInv
      <4> QED  BY <3>4, <3>5
    <3>7. \A q \in Publisher : saved[q] # None => saved'[q] # None
      <4>1. saved \in [Publisher -> Publisher \cup {None}] /\ p[1] \in Environment
        BY <1>0 DEF DeliveryTypeOK
      <4>2. \/ saved' = [saved EXCEPT ![p] = package[p[1]]]
            \/ saved' = [saved EXCEPT ![p] = None]
        BY <2>2 DEF MoveAway
      <4> HIDE DEF DeliveryInv
      <4> QED  BY <4>1, <4>2, <3>2
    <3>8. CASE package[r[1]] # None
      BY <2>2, <3>8, <3>3, <1>0 DEF DeliveryTypeOK, MoveAway
    <3> QED  BY <3>6, <3>7, <3>8, <3>1 DEF DeliveryStays
  <2>3. CASE Place(p)
    BY <2>3, <1>0, PublisherPairs DEF DeliveryTypeOK, PackageInv, DeliveryStays, Place
  <2>4. CASE Rollback(p)
    BY <2>4, <1>0, PublisherPairs DEF DeliveryTypeOK, PackageInv, DeliveryStays, Rollback
  <2> QED  BY <2>1, <2>2, <2>3, <2>4
<1> QED
  BY <1>1, <1>2, <1>3, <1>4

LEMMA PublishKeeps ==
  ASSUME DeliveryInv, NEW p \in Publisher, Publish(p) \/ StartPublisher(p) \/ CodexEnds(p)
  PROVE  DeliveryInv'
<1>1. CASE StartPublisher(p)
  BY <1>1, PublisherPairs
     DEF DeliveryInv, DeliveryTypeOK, PackageInv, ProfileInv, DeliveryStays, StartPublisher,
         Step, Alive
<1>2. CASE Publish(p)
  BY <1>2, CheckProfileKeeps, PlaceProfileKeeps, ReplaceKeeps DEF Publish
<1>3. CASE CodexEnds(p)
  BY <1>3
     DEF DeliveryInv, DeliveryTypeOK, PackageInv, ProfileInv, DeliveryStays, CodexEnds
<1> QED
  BY <1>1, <1>2, <1>3

LEMMA KillKeeps ==
  ASSUME DeliveryInv, NEW P, KillPublishers(P)
  PROVE  DeliveryInv'
<1> DEFINE killed == {p \in P \cap Publisher : stage[p] \in Alive}
<1>1. /\ stage' = [p \in Publisher |-> IF p \in killed THEN "failed" ELSE stage[p]]
      /\ cut' = cut \cup {p[1] : p \in {q \in killed : saved[q] # None}}
      /\ saved' = [p \in Publisher |-> IF p \in killed THEN None ELSE saved[p]]
      /\ built' = [p \in Publisher |-> IF p \in killed THEN None ELSE built[p]]
      /\ UNCHANGED <<profile, package>>
      /\ \E left \in SUBSET {p \in killed : stage[p] = "work"} : codex' = codex \cup left
      /\ \A p \in killed : p \in Publisher /\ p[1] \in Environment /\ stage[p] \in Alive
  BY PublisherPairs DEF KillPublishers
<1> HIDE DEF killed
<1>2. DeliveryTypeOK'
  BY <1>1 DEF DeliveryInv, DeliveryTypeOK
<1>3. PackageInv'
  <2>1. \A p \in Publisher : stage[p] = "published" => stage'[p] = "published"
    BY <1>1 DEF Alive
  <2>2. ASSUME NEW e \in Environment, package'[e] # None
        PROVE  package'[e][1] = e /\ stage'[package'[e]] = "published"
    BY <1>1, <2>1, <2>2 DEF DeliveryInv, DeliveryTypeOK, PackageInv
  <2>3. ASSUME NEW p \in Publisher, saved'[p] # None
        PROVE  /\ saved'[p][1] = p[1] /\ stage'[saved'[p]] = "published"
               /\ stage'[p] \in {"place", "rollback"}
    <3>1. p \notin killed /\ saved'[p] = saved[p] /\ stage'[p] = stage[p]
      BY <1>1, <2>3
    <3> QED  BY <3>1, <2>1, <2>3 DEF DeliveryInv, DeliveryTypeOK, PackageInv
  <2> QED  BY <2>2, <2>3 DEF PackageInv
<1>4. ProfileInv'
  BY <1>1 DEF DeliveryInv, DeliveryTypeOK, ProfileInv
<1>5. DeliveryStays'
  <2> SUFFICES ASSUME NEW p \in Publisher, stage'[p] = "published", package'[p[1]] = None
               PROVE  \/ \E q \in Publisher : q[1] = p[1] /\ saved'[q] # None
                      \/ p[1] \in cut'
    BY DEF DeliveryStays
  <2>1. stage[p] = "published" /\ package[p[1]] = None
    BY <1>1
  <2>2. CASE p[1] \in cut
    BY <2>2, <1>1
  <2>3. ASSUME NEW q \in Publisher, q[1] = p[1], saved[q] # None
        PROVE  saved'[q] # None \/ p[1] \in cut'
    BY <2>3, <1>1
  <2> QED  BY <2>1, <2>2, <2>3 DEF DeliveryInv, DeliveryStays
<1> QED
  BY <1>2, <1>3, <1>4, <1>5 DEF DeliveryInv

LEMMA StutterKeeps ==
  ASSUME DeliveryInv, UNCHANGED delivery
  PROVE  DeliveryInv'
BY DEF delivery, DeliveryInv, DeliveryTypeOK, PackageInv, ProfileInv, DeliveryStays

\* What the batch can tell of a publisher's step: only that publisher moves, and no
\* package gets lost that it does not hold.
LEMMA PublishEffect ==
  ASSUME DeliveryInv, NEW p \in Publisher, Publish(p)
  PROVE  /\ stage[p] \in Alive /\ stage'[p] # "absent"
         /\ \A q \in Publisher \ {p} : stage'[q] = stage[q]
         /\ cut \subseteq cut'
         /\ \A e \in Environment :
              package[e] # None => package'[e] # None \/ (p[1] = e /\ saved'[p] # None)
         /\ \A q \in Publisher :
              saved[q] # None =>
                saved'[q] # None \/ package'[q[1]] # None \/ q[1] \in cut'
<1> USE PublisherPairs DEF DeliveryInv, DeliveryTypeOK, PackageInv, Alive, Step, Leave
<1>1. CASE CheckProfile(p)
  BY <1>1 DEF CheckProfile
<1>2. CASE PlaceProfile(p)
  BY <1>2 DEF PlaceProfile
<1>3. CASE Look(p)
  BY <1>3 DEF Look
<1>4. CASE MoveAway(p)
  BY <1>4 DEF MoveAway
<1>5. CASE Place(p)
  BY <1>5 DEF Place
<1>6. CASE Rollback(p)
  BY <1>6 DEF Rollback
<1> QED
  BY <1>1, <1>2, <1>3, <1>4, <1>5, <1>6 DEF Publish

\* Who is killed with a package moved away is noted in cut.
LEMMA KillEffect ==
  ASSUME DeliveryInv, NEW P, KillPublishers(P)
  PROVE  /\ \A q \in Publisher :
              stage'[q] = IF q \in P /\ stage[q] \in Alive THEN "failed" ELSE stage[q]
         /\ UNCHANGED package /\ cut \subseteq cut'
         /\ \A q \in Publisher : saved[q] # None => saved'[q] # None \/ q[1] \in cut'
BY DEF DeliveryInv, DeliveryTypeOK, KillPublishers

-----------------------------------------------------------------------------
(***************************************************************************)
(* Lemmas about the batch.                                                 *)
(***************************************************************************)

LEMMA ChildPair ==
  ASSUME TypeOK, NEW e \in Environment
  PROVE  /\ Child(e)[1] = e /\ Child(e)[2] = launched[e]
         /\ launched[e] >= 1 => Child(e) \in Publisher
<1>1. launched[e] \in Nat /\ launched[e] <= Attempts[e] /\ Attempts[e] \in Nat
  BY DeliveryAssumption DEF TypeOK
<1> QED
  BY <1>1, PublisherPairs DEF Child

\* What covers an environment is not lost when processes are killed, or not touched.
LEMMA CoveredByKill ==
  ASSUME TypeOK, DeliveryInv, orphans \subseteq orphans', NEW e \in Environment, Covered(e),
         UNCHANGED delivery \/ \E P : KillPublishers(P)
  PROVE  Covered(e)'
<1>1. orphans \subseteq Publisher
  BY DEF TypeOK
<1>2. CASE UNCHANGED delivery
  BY <1>1, <1>2 DEF Covered, delivery
<1>3. CASE \E P : KillPublishers(P)
  <2>1. PICK P : KillPublishers(P)
    BY <1>3
  <2>2. /\ UNCHANGED package /\ cut \subseteq cut'
        /\ \A q \in Publisher : saved[q] # None => saved'[q] # None \/ q[1] \in cut'
    BY <2>1, KillEffect
  <2> QED  BY <1>1, <2>2 DEF Covered
<1> QED
  BY <1>2, <1>3

\* Nor by the steps of the publishers, if those of the environment are orphans.
LEMMA CoveredByPublish ==
  ASSUME TypeOK, DeliveryInv, UNCHANGED orphans, NEW e \in Environment, Covered(e),
         NEW p \in Publisher, Publish(p), p[1] = e => p \in orphans
  PROVE  Covered(e)'
<1>1. orphans \subseteq Publisher
  BY DEF TypeOK
<1>2. /\ cut \subseteq cut'
      /\ package[e] # None => package'[e] # None \/ (p[1] = e /\ saved'[p] # None)
      /\ \A q \in Publisher :
           saved[q] # None => saved'[q] # None \/ package'[q[1]] # None \/ q[1] \in cut'
  BY PublishEffect
<1> QED
  BY <1>1, <1>2 DEF Covered

-----------------------------------------------------------------------------
(***************************************************************************)
(* The invariant is inductive.                                             *)
(***************************************************************************)

LEMMA InitInv == Init => IInv
<1> SUFFICES ASSUME Init PROVE IInv
  OBVIOUS
<1> USE DEF Init, DeliveryInit
<1>1. DeliveryTypeOK
  BY DEF DeliveryTypeOK
<1>2. TypeOK
  <2>1. \A e \in Environment : launched[e] <= Attempts[e]
    BY DeliveryAssumption
  <2>2. runs \in 0..MaxRuns /\ tries \in [Environment -> 0..MaxTries]
    BY BatchAssumption
  <2> QED  BY <1>1, <2>1, <2>2 DEF TypeOK, Busy
<1>3. DeliveryInv
  BY <1>1, PublisherPairs DEF DeliveryInv, PackageInv, ProfileInv, DeliveryStays
<1>4. AttemptInv /\ LogInv /\ ChildInv
  BY DEF AttemptInv, LogInv, ChildInv, Alive
<1>5. MainInv /\ EntryInv
  BY DEF MainInv, EntryInv
<1> QED
  BY <1>2, <1>3, <1>4, <1>5 DEF IInv, BatchInv

\* Whatever the batch does, the publishers only take steps of their own, start or
\* are killed.
LEMMA DeliveryStep ==
  ASSUME IInv, [Next]_vars
  PROVE  \/ UNCHANGED delivery
         \/ \E p \in Publisher : Publish(p) \/ StartPublisher(p) \/ CodexEnds(p)
         \/ \E P : KillPublishers(P)
<1> USE DEF vars, delivery
<1>1. CASE \/ Start \/ ReadStatus \/ PrepareStatus \/ Scanned \/ Joined \/ Decide \/ Report
           \/ Signal \/ SignalInWrite \/ Crash
  BY <1>1 DEF Start, ReadStatus, PrepareStatus, Scanned, Joined, Decide, Report, Signal,
              SignalInWrite, Crash
<1>2. CASE Exit
  BY <1>2 DEF Exit
<1>3. ASSUME NEW e \in Environment, Scan(e) \/ HandlerTerminates(e) \/ Work(e)
      PROVE  \/ UNCHANGED delivery
             \/ \E p \in Publisher : StartPublisher(p)
             \/ \E P : KillPublishers(P)
  <2>1. CASE HandlerTerminates(e) \/ WatchStops(e)
    BY <2>1 DEF HandlerTerminates, WatchStops
  <2>2. CASE Spawn(e)
    <3>1. launched[e] \in Nat /\ Attempts[e] \in Nat /\ launched[e] < Attempts[e]
      BY <2>2, DeliveryAssumption DEF IInv, TypeOK, BatchInv, AttemptInv, Spawn
    <3>2. <<e, launched[e] + 1>> \in Publisher
      BY <3>1, PublisherPairs
    <3> QED  BY <2>2, <3>2 DEF Spawn
  <2>3. CASE \/ Scan(e) \/ Take(e) \/ Begin(e) \/ SpawnRaises(e) \/ Register(e)
             \/ ChildEnds(e) \/ After(e) \/ Pause(e)
    BY <2>3 DEF Scan, Take, Begin, SpawnRaises, Register, ChildEnds, After, Pause
  <2> QED  BY <1>3, <2>1, <2>2, <2>3 DEF Work
<1>4. ASSUME NEW p \in Publisher, PublisherSteps(p) \/ OrphanDies(p)
      PROVE  Publish(p) \/ CodexEnds(p) \/ \E P : KillPublishers(P)
  BY <1>4 DEF PublisherSteps, OrphanDies
<1>5. CASE UNCHANGED vars
  BY <1>5
<1> QED
  BY <1>1, <1>2, <1>3, <1>4, <1>5 DEF Next, Main

LEMMA NextDelivery ==
  ASSUME IInv, [Next]_vars
  PROVE  DeliveryInv'
BY DeliveryStep, StutterKeeps, PublishKeeps, KillKeeps DEF IInv

\* What _prepare_status makes of the entries.
LEMMA PreparedKeeps ==
  ASSUME TypeOK, LogInv, Prepared, UNCHANGED logged,
         \A e \in Environment : worker'[e] # "spawn"
  PROVE  /\ entry' \in [Environment -> {"pending", "running", "retrying", "interrupted",
                                        "succeeded", "failed"}]
         /\ attempt' \in [Environment -> Nat] /\ forgotten' \subseteq Environment
         /\ LogInv'
<1> USE DEF TypeOK, Prepared
<1>1. ASSUME NEW e \in Environment \ forgotten', NEW n \in Nat, <<e, n>> \in logged'
      PROVE  1 <= n /\ n <= attempt'[e] /\ (worker'[e] = "spawn" => n < attempt'[e])
  <2>1. e \notin forgotten /\ 1 <= n /\ n <= attempt[e] /\ attempt[e] \in Nat
    BY <1>1 DEF LogInv
  <2>2. e \in selected
    BY <1>1, <2>1
  <2> QED  BY <2>1, <2>2
<1> QED
  BY <1>1 DEF LogInv

\* What is left when the file is emptied.
LEMMA ForgetKeeps ==
  ASSUME TypeOK, LogInv, Forget(Environment), UNCHANGED logged
  PROVE  /\ entry' \in [Environment -> {"pending", "running", "retrying", "interrupted",
                                        "succeeded", "failed"}]
         /\ attempt' \in [Environment -> Nat] /\ forgotten' \subseteq Environment
         /\ LogInv'
<1> USE DEF TypeOK, Forget
<1>1. ASSUME NEW e \in Environment \ forgotten', NEW n \in Nat, <<e, n>> \in logged'
      PROVE  FALSE
  <2>1. e \notin forgotten /\ 1 <= n /\ n <= attempt[e] /\ attempt[e] \in Nat
    BY <1>1 DEF LogInv
  <2> QED  BY <1>1, <2>1
<1> QED
  BY <1>1 DEF LogInv

LEMMA NextMainThread ==
  ASSUME IInv, DeliveryInv', Start \/ Main
  PROVE  TypeOK' /\ BatchInv'
<1> USE DEF IInv, BatchInv, Busy, delivery, files, control, pool, history
<1>0. DeliveryTypeOK'
  BY DEF DeliveryInv
<1>1. CASE Start
  <2>1. TypeOK'
    <3>1. runs' \in 0..MaxRuns /\ tries' \in [Environment -> 0..MaxTries]
      BY <1>1, BatchAssumption DEF TypeOK, Start
    <3>2. selected' \subseteq Environment
      BY <1>1 DEF Start
    <3>3. /\ UNCHANGED <<targets, files, history>>
          /\ main' = "locked" /\ stop' = FALSE /\ decided' = "none"
          /\ worker' = [e \in Environment |-> "none"] /\ registered' = {}
      BY <1>1 DEF Start
    <3> QED  BY <1>0, <3>1, <3>2, <3>3 DEF TypeOK
  <2>2. AttemptInv' /\ LogInv' /\ ChildInv' /\ MainInv'
    BY <1>1 DEF TypeOK, AttemptInv, LogInv, ChildInv, MainInv, Start, Child
  <2>3. EntryInv'
    BY <1>1 DEF TypeOK, EntryInv, Start
  <2> QED  BY <2>1, <2>2, <2>3
<1>5. CASE ReadStatus
  BY <1>0, <1>5
     DEF TypeOK, AttemptInv, LogInv, ChildInv, MainInv, EntryInv, AllDelivered, Covered,
         ReadStatus, Child
<1>6. CASE PrepareStatus
  <2>1. \A e \in Environment : worker'[e] = "none"
    BY <1>6 DEF MainInv, PrepareStatus
  <2>2. /\ entry' \in [Environment -> {"pending", "running", "retrying", "interrupted",
                                        "succeeded", "failed"}]
        /\ attempt' \in [Environment -> Nat] /\ forgotten' \subseteq Environment /\ LogInv'
    BY <1>6, <2>1, PreparedKeeps DEF PrepareStatus
  <2>3. /\ main = "read" /\ main' = "scan" /\ state' = "running"
        /\ UNCHANGED <<delivery, runs, selected, stop, targets, decided, pool, launched,
                       logged, orphans>>
    BY <1>6 DEF PrepareStatus
  <2>4. TypeOK'
    BY <1>0, <2>2, <2>3 DEF TypeOK
  <2>5. AttemptInv' /\ ChildInv' /\ MainInv'
    <3>1. UNCHANGED <<stage, decided, tries, worker, registered, launched, orphans>>
      BY <2>3
    <3>2. decided = "none"
      BY <2>3 DEF MainInv
    <3>3. \A e \in Environment : worker[e] = "none"
      BY <2>1, <3>1
    <3>4. AttemptInv'
      BY <3>1, <3>3 DEF AttemptInv
    <3>5. ChildInv'
      BY <3>1, <3>3, PublisherPairs DEF ChildInv
    <3>6. MainInv'
      BY <2>1, <2>3, <3>1, <3>2 DEF TypeOK, MainInv
    <3> QED  BY <3>4, <3>5, <3>6
  <2>6. EntryInv'
    BY <2>1, <2>3 DEF EntryInv, MainInv
  <2> QED  BY <2>2, <2>4, <2>5, <2>6
<1>2. ASSUME NEW e \in Environment, Scan(e) PROVE TypeOK' /\ BatchInv'
  <2>1. TypeOK'
    BY <1>0, <1>2 DEF TypeOK, Scan
  <2>2. AttemptInv' /\ LogInv' /\ MainInv'
    BY <1>2 DEF TypeOK, AttemptInv, LogInv, MainInv, Scan, Child
  <2>3. ChildInv'
    <3>1. \A d \in Environment : worker'[d] \in {"born", "watch"} <=> worker[d] \in {"born", "watch"}
      BY <1>2 DEF TypeOK, Scan
    <3>2. \A d \in Environment : worker'[d] = "watch" <=> worker[d] = "watch"
      BY <1>2 DEF TypeOK, Scan
    <3>3. UNCHANGED <<stage, orphans, launched, registered>>
      BY <1>2 DEF Scan
    <3> QED  BY <3>1, <3>2, <3>3, PublisherPairs DEF ChildInv, Child
  <2>4. EntryInv'
    BY <1>2 DEF TypeOK, MainInv, EntryInv, Scan, Covered
  <2> QED  BY <2>1, <2>2, <2>3, <2>4
<1>3. CASE Scanned \/ Joined \/ Decide \/ Report
  <2>1. TypeOK'
    BY <1>0, <1>3 DEF TypeOK, Scanned, Joined, Decide, Report
  <2>2. AttemptInv' /\ LogInv' /\ ChildInv'
    BY <1>3 DEF AttemptInv, LogInv, ChildInv, Scanned, Joined, Decide, Report, Child
  <2>3. MainInv'
    BY <1>3 DEF TypeOK, MainInv, Scanned, Joined, Decide, Report
  <2>4. ASSUME Decide PROVE EntryInv'
    <3>1. decided' = "completed" => ~stop /\ \A e \in selected : entry[e] # "failed"
      BY <2>4 DEF Decide
    <3>2. decided' = "completed" => AllDelivered
      BY <2>4, <3>1 DEF TypeOK, MainInv, EntryInv, AllDelivered, Decide
    <3> QED  BY <2>4, <3>2 DEF EntryInv, AllDelivered, Covered, Decide
  <2>5. ASSUME Scanned \/ Joined \/ Report PROVE EntryInv'
    BY <2>5 DEF EntryInv, AllDelivered, Covered, Scanned, Joined, Report
  <2> QED  BY <1>3, <2>1, <2>2, <2>3, <2>4, <2>5
<1>4. CASE Exit
  <2>1. registered = {}
    BY <1>4 DEF MainInv, ChildInv, Exit
  <2>2. TypeOK'
    BY <1>0, <1>4, BatchAssumption DEF TypeOK, Exit
  <2>3. \A q \in Publisher :
          stage'[q] = IF q \in {Child(e) : e \in registered} /\ stage[q] \in Alive
                        THEN "failed" ELSE stage[q]
    BY <1>4, KillEffect DEF Exit
  <2>4. UNCHANGED <<attempt, entry, state, orphans, stop, selected, launched, logged, forgotten>>
    BY <1>4 DEF Exit
  <2>5. AttemptInv' /\ LogInv' /\ ChildInv' /\ MainInv'
    <3>1. /\ UNCHANGED stage /\ registered' = {} /\ main' = "exited" /\ decided' = "none"
          /\ worker' = [e \in Environment |-> "none"] /\ tries' = [e \in Environment |-> 0]
      <4>1. UNCHANGED stage
        BY <2>1, <2>3, <1>0 DEF DeliveryInv, DeliveryTypeOK
      <4> QED  BY <1>4, <4>1 DEF Exit
    <3>2. \A e \in Environment : worker[e] \in {"none", "done"}
      BY <1>4 DEF MainInv, Exit
    <3>3. AttemptInv' /\ LogInv'
      BY <2>4, <3>1 DEF AttemptInv, LogInv
    <3>4. ChildInv' /\ MainInv'
      BY <2>4, <3>1, <3>2, PublisherPairs DEF ChildInv, MainInv
    <3> QED  BY <3>3, <3>4
  <2>6. \A e \in Environment : Covered(e) => Covered(e)'
    BY <1>4, <2>4, CoveredByKill DEF Exit
  <2>7. EntryInv'
    BY <1>4, <2>4, <2>6 DEF TypeOK, EntryInv, AllDelivered, Exit
  <2> QED  BY <2>2, <2>5, <2>7
<1> QED
  BY <1>1, <1>2, <1>3, <1>4, <1>5, <1>6 DEF Main

LEMMA NextHandler ==
  ASSUME IInv, DeliveryInv',
         \/ Signal \/ SignalInWrite \/ Crash
         \/ \E e \in Environment : HandlerTerminates(e)
  PROVE  TypeOK' /\ BatchInv'
<1> USE DEF IInv, BatchInv, Busy, delivery, files, control, pool, history
<1>0. DeliveryTypeOK'
  BY DEF DeliveryInv
<1>1. CASE Signal
  <2>1. /\ entry' \in [Environment -> {"pending", "running", "retrying", "interrupted",
                                        "succeeded", "failed"}]
        /\ attempt' \in [Environment -> Nat] /\ forgotten' \subseteq Environment /\ LogInv'
    <3>1. CASE main = "locked"
      BY <1>1, <3>1, ForgetKeeps DEF Signal
    <3>2. CASE main # "locked"
      BY <1>1, <3>2 DEF TypeOK, LogInv, Signal
    <3> QED  BY <3>1, <3>2
  <2>2. /\ stop' = TRUE /\ state' = "stopping" /\ targets' = registered /\ Running
        /\ main # "locked" => entry' = entry
        /\ UNCHANGED <<delivery, main, runs, selected, decided, pool, launched, logged, orphans>>
    BY <1>1 DEF Signal
  <2>3. TypeOK'
    BY <1>0, <2>1, <2>2 DEF TypeOK
  <2>4. AttemptInv'
    <3>1. CASE main = "locked"
      BY <2>2, <3>1 DEF AttemptInv, MainInv
    <3>2. CASE main # "locked"
      BY <1>1, <3>2 DEF AttemptInv, Signal
    <3> QED  BY <3>1, <3>2
  <2>5. ChildInv' /\ MainInv'
    BY <2>2 DEF ChildInv, MainInv, Child
  <2>6. EntryInv'
    BY <2>2 DEF EntryInv, AllDelivered, Covered, MainInv
  <2> QED  BY <2>1, <2>3, <2>4, <2>5, <2>6
<1>2. CASE SignalInWrite
  <2>1. \A e \in Environment : worker[e] \in {"none", "queued", "done"}
    BY <1>2 DEF MainInv, SignalInWrite
  <2>2. /\ stop' = TRUE /\ state' = "failed" /\ main' = "closing"
        /\ worker' = [e \in Environment |-> IF e \in selected THEN "done" ELSE "none"]
        /\ UNCHANGED <<delivery, runs, selected, targets, decided, tries, registered, launched,
                       logged, orphans>>
    BY <1>2 DEF SignalInWrite
  <2>3. \A e \in Environment : worker'[e] \in {"none", "done"}
    BY <2>2
  <2>4. /\ entry' \in [Environment -> {"pending", "running", "retrying", "interrupted",
                                        "succeeded", "failed"}]
        /\ attempt' \in [Environment -> Nat] /\ forgotten' \subseteq Environment /\ LogInv'
    <3>1. CASE main = "read"
      BY <1>2, <2>2, <2>3, <3>1, PreparedKeeps DEF SignalInWrite
    <3>2. CASE main # "read"
      BY <1>2, <2>3, <3>2 DEF TypeOK, LogInv, SignalInWrite
    <3> QED  BY <3>1, <3>2
  <2>5. TypeOK'
    BY <1>0, <2>2, <2>4 DEF TypeOK
  <2>6. AttemptInv'
    <3>1. \A e \in Environment : worker'[e] = "none" => worker[e] = "none"
      BY <2>2 DEF MainInv
    <3> QED  BY <2>2, <2>3, <3>1 DEF AttemptInv
  <2>7. ChildInv'
    BY <2>1, <2>2, <2>3, PublisherPairs DEF ChildInv, Child
  <2>8. MainInv'
    <3>1. \A e \in selected : worker'[e] = "done"
      BY <2>2 DEF TypeOK
    <3>2. \A e \in Environment \ selected : worker'[e] = "none"
      BY <2>2
    <3> QED  BY <2>2, <3>1, <3>2 DEF MainInv
  <2>9. EntryInv'
    <3>1. decided' = "completed" => main # "read"
      BY <2>2 DEF MainInv
    <3>2. main # "read" => entry' = entry
      BY <1>2 DEF SignalInWrite
    <3> QED  BY <2>2, <3>1, <3>2 DEF EntryInv, AllDelivered, Covered
  <2> QED  BY <2>4, <2>5, <2>6, <2>7, <2>8, <2>9
<1>3. CASE Crash
  <2>1. /\ main' = "off" /\ targets' = {} /\ stop' = FALSE /\ decided' = "none"
        /\ selected' = {} /\ tries' = [e \in Environment |-> 0]
        /\ worker' = [e \in Environment |-> "none"] /\ registered' = {}
        /\ orphans' = orphans \cup {p \in Publisher : stage[p] \in Alive}
        /\ UNCHANGED <<delivery, runs, state, launched, logged>>
    BY <1>3 DEF Crash
  <2>2. /\ entry' \in [Environment -> {"pending", "running", "retrying", "interrupted",
                                        "succeeded", "failed"}]
        /\ attempt' \in [Environment -> Nat] /\ forgotten' \subseteq Environment /\ LogInv'
    <3>1. CASE main = "read" /\ stop
      BY <1>3, <3>1, ForgetKeeps DEF Crash
    <3>2. CASE ~(main = "read" /\ stop)
      BY <1>3, <3>2 DEF TypeOK, LogInv, Crash
    <3> QED  BY <3>1, <3>2
  <2>3. TypeOK'
    <3>1. tries' \in [Environment -> 0..MaxTries] /\ orphans' \subseteq Publisher
      BY <2>1, BatchAssumption DEF TypeOK
    <3> QED  BY <1>0, <2>1, <2>2, <3>1 DEF TypeOK
  <2>4. AttemptInv'
    BY <2>1, PublisherPairs DEF AttemptInv
  <2>5. ChildInv' /\ MainInv'
    BY <2>1 DEF ChildInv, MainInv
  <2>6. EntryInv'
    BY <2>1 DEF EntryInv
  <2> QED  BY <2>2, <2>3, <2>4, <2>5, <2>6
<1>4. ASSUME NEW e \in Environment, HandlerTerminates(e) PROVE TypeOK' /\ BatchInv'
  <2>1. TypeOK'
    BY <1>0, <1>4 DEF TypeOK, HandlerTerminates
  <2>2. /\ KillPublishers({Child(e)})
        /\ UNCHANGED <<main, selected, stop, decided, state, entry, attempt, tries, worker,
                       registered, launched, logged, forgotten, orphans>>
    BY <1>4 DEF HandlerTerminates
  <2>3. \A q \in Publisher :
          stage'[q] = IF q \in {Child(e)} /\ stage[q] \in Alive THEN "failed" ELSE stage[q]
    BY <2>2, KillEffect
  <2>4. AttemptInv' /\ LogInv' /\ ChildInv' /\ MainInv'
    BY <2>2, <2>3, ChildPair DEF AttemptInv, LogInv, ChildInv, MainInv, Alive, Child
  <2>5. \A d \in Environment : Covered(d) => Covered(d)'
    BY <2>2, CoveredByKill
  <2>6. EntryInv'
    BY <2>2, <2>5 DEF TypeOK, EntryInv, AllDelivered
  <2> QED  BY <2>1, <2>4, <2>6
<1> QED
  BY <1>1, <1>2, <1>3, <1>4

\* What a worker's step changes besides its publisher.
LEMMA WorkFrame ==
  ASSUME NEW e \in Environment, Work(e)
  PROVE  /\ UNCHANGED <<main, runs, selected, stop, targets, decided, state, orphans, forgotten>>
         /\ worker[e] \notin {"none", "done"} /\ (main # "pool" => worker[e] # "queued")
<1> USE DEF files, control, pool, delivery, history
<1>1. CASE Take(e)
  BY <1>1 DEF Take
<1>2. CASE Begin(e)
  BY <1>2 DEF Begin
<1>3. CASE Spawn(e)
  BY <1>3 DEF Spawn
<1>4. CASE SpawnRaises(e)
  BY <1>4 DEF SpawnRaises
<1>5. CASE Register(e)
  BY <1>5 DEF Register
<1>6. CASE ChildEnds(e)
  BY <1>6 DEF ChildEnds
<1>7. CASE WatchStops(e)
  BY <1>7 DEF WatchStops
<1>8. CASE After(e)
  BY <1>8 DEF After
<1>9. CASE Pause(e)
  BY <1>9 DEF Pause
<1> QED
  BY <1>1, <1>2, <1>3, <1>4, <1>5, <1>6, <1>7, <1>8, <1>9 DEF Work

LEMMA NextWorkType ==
  ASSUME TypeOK, AttemptInv, DeliveryTypeOK', NEW e \in Environment, Work(e)
  PROVE  TypeOK'
<1> USE DEF TypeOK, Busy, files, control, pool, delivery, history, Move, Set, Log
<1>1. CASE Take(e)
  BY <1>1 DEF Take
<1>2. CASE Begin(e)
  <2>1. CASE stop
    BY <1>2, <2>1 DEF Begin
  <2>2. CASE ~stop
    <3>2. attempt' \in [Environment -> Nat]
      BY <1>2, <2>2 DEF Begin
    <3>3. tries' \in [Environment -> 0..MaxTries]
      <4>1. tries[e] \in Nat /\ tries[e] < MaxTries /\ MaxTries \in Nat
        BY <1>2, BatchAssumption DEF Begin, AttemptInv
      <4>2. tries' = [tries EXCEPT ![e] = tries[e] + 1] /\ tries \in [Environment -> 0..MaxTries]
        BY <1>2, <2>2 DEF Begin
      <4> QED  BY <4>1, <4>2
    <3> QED  BY <1>2, <2>2, <3>2, <3>3 DEF Begin
  <2> QED  BY <2>1, <2>2
<1>3. CASE Spawn(e)
  <2>1. launched[e] \in Nat /\ launched[e] < Attempts[e] /\ Attempts \in [Environment -> Nat]
    BY <1>3, DeliveryAssumption DEF Spawn, AttemptInv
  <2>2. launched' = [launched EXCEPT ![e] = launched[e] + 1]
    BY <1>3 DEF Spawn
  <2>3. \A d \in Environment : launched'[d] = IF d = e THEN launched[e] + 1 ELSE launched[d]
    BY <2>2
  <2>4. launched' \in [Environment -> Nat] /\ \A d \in Environment : launched'[d] <= Attempts[d]
    BY <2>1, <2>2, <2>3
  <2> QED  BY <1>3, <2>4 DEF Spawn
<1>4. CASE SpawnRaises(e)
  BY <1>4 DEF SpawnRaises
<1>5. CASE Register(e)
  BY <1>5 DEF Register
<1>6. CASE ChildEnds(e)
  BY <1>6 DEF ChildEnds, Unregister
<1>7. CASE WatchStops(e)
  BY <1>7 DEF WatchStops, Unregister
<1>8. CASE After(e)
  BY <1>8 DEF After
<1>9. CASE Pause(e)
  BY <1>9 DEF Pause
<1> QED
  BY <1>1, <1>2, <1>3, <1>4, <1>5, <1>6, <1>7, <1>8, <1>9 DEF Work

\* Apart from its own environment a worker changes nothing of the status.
LEMMA WorkLocal ==
  ASSUME TypeOK, NEW e \in Environment, Work(e)
  PROVE  /\ \A d \in Environment \ {e} :
              /\ worker'[d] = worker[d] /\ entry'[d] = entry[d]
              /\ attempt'[d] = attempt[d] /\ tries'[d] = tries[d]
              /\ launched'[d] = launched[d]
         /\ ~stop /\ worker'[e] = "done" =>
              \/ entry'[e] = "failed"
              \/ entry'[e] = "succeeded" /\ package[e] # None /\ UNCHANGED delivery
<1> USE DEF TypeOK, Busy, files, control, pool, history, Move, Set, Unregister, Log
<1>1. CASE Take(e)
  BY <1>1 DEF Take
<1>2. CASE Begin(e)
  BY <1>2 DEF Begin
<1>3. CASE Spawn(e)
  BY <1>3 DEF Spawn
<1>4. CASE SpawnRaises(e)
  BY <1>4 DEF SpawnRaises
<1>5. CASE Register(e)
  BY <1>5 DEF Register
<1>6. CASE ChildEnds(e)
  BY <1>6 DEF ChildEnds
<1>7. CASE WatchStops(e)
  BY <1>7 DEF WatchStops
<1>8. CASE After(e)
  BY <1>8 DEF After, Delivered
<1>9. CASE Pause(e)
  BY <1>9 DEF Pause
<1> QED
  BY <1>1, <1>2, <1>3, <1>4, <1>5, <1>6, <1>7, <1>8, <1>9 DEF Work

\* A worker numbers its attempts, and logs them.
LEMMA WorkLog ==
  ASSUME TypeOK, AttemptInv, LogInv, NEW e \in Environment, Work(e)
  PROVE  LogInv'
<1> USE DEF TypeOK, files, control, pool, history, Move, Set, Unregister
<1>1. CASE Begin(e)
  <2>1. CASE stop
    BY <1>1, <2>1 DEF Begin, LogInv
  <2>2. CASE ~stop
    <3>1. /\ attempt' = [attempt EXCEPT ![e] = attempt[e] + 1]
          /\ worker' = [worker EXCEPT ![e] = "spawn"] /\ UNCHANGED <<logged, forgotten>>
      BY <1>1, <2>2 DEF Begin
    <3> QED  BY <3>1 DEF LogInv
  <2> QED  BY <2>1, <2>2
<1>2. CASE Spawn(e) \/ SpawnRaises(e)
  <2>1. /\ logged' = logged \cup {<<e, attempt[e]>>} /\ UNCHANGED <<attempt, forgotten>>
        /\ attempt[e] >= 1 /\ worker'[e] # "spawn"
        /\ \A d \in Environment \ {e} : worker'[d] = worker[d]
    BY <1>2 DEF Spawn, SpawnRaises, Log, AttemptInv
  <2> SUFFICES ASSUME NEW d \in Environment \ forgotten, NEW n \in Nat, <<d, n>> \in logged'
               PROVE  1 <= n /\ n <= attempt[d] /\ (worker'[d] = "spawn" => n < attempt[d])
    BY <2>1 DEF LogInv
  <2>2. <<d, n>> \in logged \/ (d = e /\ n = attempt[e])
    BY <2>1
  <2> QED  BY <2>1, <2>2 DEF LogInv
<1>3. CASE \/ Take(e) \/ Register(e) \/ ChildEnds(e) \/ WatchStops(e) \/ After(e) \/ Pause(e)
  <2>1. UNCHANGED <<attempt, logged, forgotten>>
    BY <1>3 DEF Take, Register, ChildEnds, WatchStops, After, Pause
  <2>2. \A d \in Environment : worker'[d] = "spawn" => worker[d] = "spawn"
    BY <1>3 DEF Take, Register, ChildEnds, WatchStops, After, Pause
  <2> QED  BY <2>1, <2>2 DEF LogInv
<1> QED
  BY <1>1, <1>2, <1>3 DEF Work

\* It starts a new process for each, and watches it.
LEMMA NextWorkAttempt ==
  ASSUME TypeOK, DeliveryInv, AttemptInv, ChildInv, NEW e \in Environment, Work(e)
  PROVE  AttemptInv' /\ ChildInv'
<1> USE DEF TypeOK, Busy, files, control, pool, delivery, history, Move, Set, Unregister
<1>1. CASE Take(e)
  BY <1>1, BatchAssumption DEF Take, AttemptInv, ChildInv, Child
<1>2. CASE Begin(e)
  <2>1. AttemptInv'
    <3>1. CASE stop
      BY <1>2, <3>1 DEF Begin, AttemptInv
    <3>2. CASE ~stop
      <4>1. /\ attempt' = [attempt EXCEPT ![e] = attempt[e] + 1] /\ attempt[e] \in Nat
            /\ launched[e] < Attempts[e] /\ worker' = [worker EXCEPT ![e] = "spawn"]
            /\ UNCHANGED <<stage, launched>>
            /\ \A d \in Environment \ {e} : tries'[d] = tries[d]
        BY <1>2, <3>2 DEF Begin
      <4>2. attempt'[e] >= 1 /\ \A d \in Environment \ {e} : attempt'[d] = attempt[d]
        BY <4>1
      <4> QED  BY <4>1, <4>2 DEF AttemptInv
    <3> QED  BY <3>1, <3>2
  <2>2. ChildInv'
    BY <1>2, PublisherPairs DEF Begin, ChildInv, Child
  <2> QED  BY <2>1, <2>2
<1>3. CASE Spawn(e)
  <2>1. /\ worker[e] = "spawn" /\ worker' = [worker EXCEPT ![e] = "born"]
        /\ launched' = [launched EXCEPT ![e] = launched[e] + 1] /\ launched[e] \in Nat
        /\ stage' = [stage EXCEPT ![<<e, launched[e] + 1>>] = "work"]
        /\ UNCHANGED <<attempt, tries, registered, orphans>>
    BY <1>3 DEF Spawn, StartPublisher, Step
  <2>2. /\ launched'[e] = launched[e] + 1
        /\ \A d \in Environment \ {e} : launched'[d] = launched[d]
        /\ Child(e)' = <<e, launched[e] + 1>>
        /\ \A d \in Environment \ {e} : Child(d)' = Child(d)
    BY <2>1 DEF Child
  <2>3. \A p \in Publisher : p # <<e, launched[e] + 1>> => stage'[p] = stage[p]
    BY <2>1 DEF DeliveryInv, DeliveryTypeOK
  <2>4. AttemptInv'
    <3>1. ASSUME NEW p \in Publisher, p[2] > launched'[p[1]] PROVE stage'[p] = "absent"
      <4>1. p # <<e, launched[e] + 1>> /\ p[2] > launched[p[1]]
        BY <2>1, <2>2, <3>1, PublisherPairs
      <4> QED  BY <4>1, <2>3 DEF AttemptInv
    <3> QED  BY <3>1, <2>1, <2>2 DEF AttemptInv
  <2>5. ChildInv'
    <3>1. ASSUME NEW p \in Publisher, stage'[p] \in Alive, p \notin orphans
          PROVE  worker'[p[1]] \in {"born", "watch"} /\ p = Child(p[1])'
      <4>1. CASE p = <<e, launched[e] + 1>>
        BY <4>1, <2>1, <2>2
      <4>2. CASE p # <<e, launched[e] + 1>>
        <5>1. worker[p[1]] \in {"born", "watch"} /\ p = Child(p[1]) /\ p[1] \in Environment
          BY <4>2, <3>1, <2>3, PublisherPairs DEF ChildInv
        <5>2. p[1] # e
          BY <5>1, <2>1
        <5> QED  BY <5>1, <5>2, <2>1, <2>2
      <4> QED  BY <4>1, <4>2
    <3>2. registered' = {d \in Environment : worker'[d] = "watch"}
      BY <2>1 DEF ChildInv
    <3> QED  BY <3>1, <3>2, <2>1 DEF ChildInv
  <2> QED  BY <2>4, <2>5
<1>4. CASE SpawnRaises(e)
  BY <1>4 DEF SpawnRaises, AttemptInv, ChildInv, Child
<1>5. CASE Register(e)
  BY <1>5 DEF Register, AttemptInv, ChildInv, Child
<1>6. CASE ChildEnds(e)
  BY <1>6, PublisherPairs DEF ChildEnds, AttemptInv, ChildInv, Child
<1>7. CASE WatchStops(e)
  <2>1. \A q \in Publisher :
          stage'[q] = IF q \in {Child(e)} /\ stage[q] \in Alive THEN "failed" ELSE stage[q]
    BY <1>7, KillEffect DEF WatchStops
  <2> QED
    BY <1>7, <2>1, PublisherPairs, ChildPair DEF WatchStops, AttemptInv, ChildInv, Child, Alive
<1>8. CASE After(e)
  <2>1. AttemptInv'
    BY <1>8, PublisherPairs DEF After, AttemptInv
  <2>2. ChildInv'
    BY <1>8, PublisherPairs DEF After, ChildInv, Child
  <2> QED  BY <2>1, <2>2
<1>9. CASE Pause(e)
  <2>1. AttemptInv'
    BY <1>9, PublisherPairs DEF Pause, AttemptInv
  <2>2. ChildInv'
    BY <1>9, PublisherPairs DEF Pause, ChildInv, Child
  <2> QED  BY <2>1, <2>2
<1> QED
  BY <1>1, <1>2, <1>3, <1>4, <1>5, <1>6, <1>7, <1>8, <1>9 DEF Work

LEMMA NextWork ==
  ASSUME IInv, DeliveryInv', NEW e \in Environment, Work(e)
  PROVE  TypeOK' /\ BatchInv'
<1> USE DEF IInv, BatchInv
<1>1. /\ main = "pool" /\ decided = "none" /\ e \in selected
      /\ UNCHANGED <<main, selected, stop, decided, state, orphans>>
  BY WorkFrame DEF MainInv, TypeOK
<1>2. TypeOK'
  BY NextWorkType DEF DeliveryInv
<1>3. AttemptInv' /\ LogInv' /\ ChildInv'
  BY NextWorkAttempt, WorkLog
<1>4. MainInv'
  <2>1. \A d \in Environment \ selected : worker'[d] = worker[d]
    BY <1>1, WorkLocal
  <2> QED  BY <1>1, <2>1 DEF MainInv
<1>5. ASSUME NEW d \in Environment, Covered(d) PROVE Covered(d)'
  <2>1. CASE Spawn(e)
    BY <1>5, <2>1 DEF Spawn, StartPublisher, Covered
  <2>2. CASE WatchStops(e)
    BY <1>1, <1>5, <2>2, CoveredByKill DEF WatchStops
  <2>3. CASE UNCHANGED delivery
    BY <1>1, <1>5, <2>3, CoveredByKill
  <2> QED
    BY <2>1, <2>2, <2>3
       DEF Work, Take, Begin, SpawnRaises, Register, ChildEnds, After, Pause, delivery
<1>6. EntryInv'
  <2> SUFFICES ASSUME ~stop, NEW d \in Environment, worker'[d] = "done"
               PROVE  entry'[d] = "failed" \/ (entry'[d] = "succeeded" /\ Covered(d)')
    BY <1>1 DEF EntryInv
  <2>1. CASE d = e
    BY <2>1, <1>1, WorkLocal DEF Covered, delivery
  <2>2. CASE d # e
    BY <2>2, <1>5, WorkLocal DEF EntryInv
  <2> QED  BY <2>1, <2>2
<1> QED
  BY <1>2, <1>3, <1>4, <1>6

\* A publisher that steps is one the batch does not know of any more, or one whose
\* worker is watching.
LEMMA NextPublisher ==
  ASSUME IInv, DeliveryInv', NEW p \in Publisher, PublisherSteps(p) \/ OrphanDies(p)
  PROVE  TypeOK' /\ BatchInv'
<1> USE DEF IInv, BatchInv
<1>0. UNCHANGED <<main, runs, selected, stop, targets, decided, state, entry, attempt, tries,
                  worker, registered, launched, logged, forgotten, orphans>>
  BY DEF PublisherSteps, OrphanDies, control, files, pool, history
<1>1. TypeOK'
  BY <1>0 DEF TypeOK, DeliveryInv
<1>2. MainInv'
  BY <1>0 DEF MainInv
<1>5. LogInv'
  BY <1>0 DEF LogInv
<1>6. ASSUME CodexEnds(p) PROVE AttemptInv' /\ ChildInv' /\ EntryInv'
  BY <1>0, <1>6 DEF CodexEnds, AttemptInv, ChildInv, EntryInv, AllDelivered, Covered, Child
<1>3. ASSUME Publish(p) PROVE AttemptInv' /\ ChildInv' /\ EntryInv'
  <2>1. /\ stage[p] \in Alive /\ stage'[p] # "absent"
        /\ \A q \in Publisher \ {p} : stage'[q] = stage[q]
    BY <1>3, PublishEffect
  <2>2. AttemptInv' /\ ChildInv'
    BY <1>0, <2>1, ChildPair DEF AttemptInv, ChildInv, Child, Alive
  <2>3. \A e \in Environment : Covered(e) /\ worker[e] \notin {"born", "watch"} => Covered(e)'
    BY <1>0, <1>3, <2>1, CoveredByPublish DEF ChildInv
  <2>4. EntryInv'
    BY <1>0, <2>3 DEF TypeOK, EntryInv, AllDelivered, MainInv
  <2> QED  BY <2>2, <2>4
<1>4. ASSUME OrphanDies(p) PROVE AttemptInv' /\ ChildInv' /\ EntryInv'
  <2>1. \A q \in Publisher :
          stage'[q] = IF q \in {p} /\ stage[q] \in Alive THEN "failed" ELSE stage[q]
    BY <1>4, KillEffect DEF OrphanDies
  <2>2. AttemptInv' /\ ChildInv'
    BY <1>0, <2>1, ChildPair DEF AttemptInv, ChildInv, Child, Alive
  <2>3. \A e \in Environment : Covered(e) => Covered(e)'
    BY <1>0, <1>4, CoveredByKill DEF OrphanDies
  <2>4. EntryInv'
    BY <1>0, <2>3 DEF TypeOK, EntryInv, AllDelivered
  <2> QED  BY <2>2, <2>4
<1> QED
  BY <1>1, <1>2, <1>3, <1>4, <1>5, <1>6 DEF PublisherSteps

LEMMA NextInv == IInv /\ [Next]_vars => IInv'
<1> SUFFICES ASSUME IInv, [Next]_vars PROVE IInv'
  OBVIOUS
<1>1. DeliveryInv'
  BY NextDelivery
<1>2. CASE UNCHANGED vars
  BY <1>1, <1>2
     DEF vars, IInv, BatchInv, DeliveryInv, TypeOK, AttemptInv, LogInv, ChildInv, MainInv,
         EntryInv, AllDelivered, Covered, Child
<1> QED
  BY <1>1, <1>2, NextMainThread, NextHandler, NextWork, NextPublisher DEF Next, IInv

LEMMA Inductive == Spec => []IInv
BY InitInv, NextInv, PTL DEF Spec

-----------------------------------------------------------------------------
(***************************************************************************)
(* Theorems.                                                               *)
(***************************************************************************)

\* Every reachable state is well typed; in particular no environment gets more attempts
\* in one run than max_attempts (_run_environment, batch.py).
THEOREM TypeCorrect == Spec => []TypeOK
<1>1. IInv => TypeOK
  BY DEF IInv
<1> QED
  BY <1>1, Inductive, PTL

\* A published package finds the software it was built with in the shared profile,
\* whoever won the race to publish that (_publish_software_profile, delivery.py).
THEOREM PackagesHaveProfile == Spec => []PackageHasProfile
<1>1. IInv => PackageHasProfile
  BY DEF IInv, DeliveryInv, DeliveryTypeOK, PackageInv, ProfileInv, PackageHasProfile
<1> QED
  BY <1>1, Inductive, PTL

\* Once an environment was published its package is in place, moved away by a publisher
\* between its two renames, or lost to a kill there (_replace_directory).
THEOREM DeliveriesStay == Spec => []DeliveryStays
<1>1. IInv => DeliveryStays
  BY DEF IInv, DeliveryInv
<1> QED
  BY <1>1, Inductive, PTL

\* A batch that ends by itself leaves no ToolGen process behind, whenever the signal came
\* (run, _run_environment and _handle_signal, batch.py).  Nothing is said of their Codex
\* sessions.
THEOREM LeavesNoToolGen == Spec => []NoToolGenLeft
<1>1. IInv => NoToolGenLeft
  <2> SUFFICES ASSUME IInv, main = "exited", NEW p \in Publisher, stage[p] \in Alive,
                      p \notin orphans
               PROVE  FALSE
    BY DEF NoToolGenLeft
  <2>1. worker[p[1]] = "none"
    BY PublisherPairs DEF IInv, BatchInv, MainInv
  <2> QED  BY <2>1 DEF IInv, BatchInv, ChildInv
<1> QED
  BY <1>1, Inductive, PTL

\* The report "completed" of a batch stands for a package of every environment of its start, up to
\* what processes of killed batches do meanwhile (run, batch.py).
THEOREM CompletedHasDeliveries == Spec => []CompletedIsDelivered
<1>1. IInv => CompletedIsDelivered
  <2> SUFFICES ASSUME IInv, main = "exited", state = "completed", NEW e \in selected
               PROVE  entry[e] = "succeeded" /\ Covered(e)
    BY DEF CompletedIsDelivered, Covered
  <2> QED  BY DEF IInv, BatchInv, EntryInv, AllDelivered
<1> QED
  BY <1>1, Inductive, PTL

\* As long as status.json keeps the entry of an environment, no attempt in its log has
\* the number of another, over any restarts and crashes (_prepare_status and
\* _run_environment, batch.py).
THEOREM AttemptsAreFresh == Spec => []FreshAttempt
<1>1. IInv => FreshAttempt
  <2> SUFFICES ASSUME IInv, NEW e \in Environment \ forgotten, worker[e] = "spawn",
                      <<e, attempt[e]>> \in logged
               PROVE  FALSE
    BY DEF FreshAttempt
  <2>1. attempt[e] \in Nat
    BY DEF IInv, TypeOK
  <2> QED  BY <2>1 DEF IInv, BatchInv, LogInv
<1> QED
  BY <1>1, Inductive, PTL
=============================================================================
