-------------------------- MODULE DeliveryPublish --------------------------
(***************************************************************************)
(* Publication of generated tools (env_gen/tool_gen/delivery.py).  Each    *)
(* publisher is one ToolGen process.  It makes sure that the software      *)
(* profile its tools need is published, which several environments share,  *)
(* and then puts its package in the place of the environment's previous    *)
(* one with two renames.  Every rename is atomic; what is copied before    *)
(* them is nobody else's, so a directory that is in place is a whole one.  *)
(***************************************************************************)
EXTENDS Integers, FiniteSets

CONSTANTS
  Environment,
  Attempts,     \* bound: publishers of an environment, a function
  Version,      \* what may be installed for the shared profile
  Software,     \* for each environment, what its tools may be built with: versions, or
                \* None if they need no profile
  None

ASSUME DeliveryAssumption ==
  /\ Attempts \in [Environment -> Nat]
  /\ Software \in [Environment -> SUBSET (Version \cup {None})]
  /\ None \notin Version /\ None \notin Environment \X Nat

Publisher == UNION {{e} \X (1..Attempts[e]) : e \in Environment}

VARIABLES
  stage,    \* where a publisher is in publish
  built,    \* the versions its tools were built with, None without a profile
  profile,  \* the published profile
  package,  \* the published package of an environment: its publisher
  saved,    \* the package a publisher has moved into its temporary directory
  cut,      \* history: environments whose publisher was killed with a package saved,
            \* or could not put it back
  codex     \* publishers that are gone but have left a Codex session behind

delivery == <<stage, built, profile, package, saved, cut, codex>>

Alive == {"work", "profile", "package", "away", "place", "rollback"}

DeliveryTypeOK ==
  /\ stage \in [Publisher -> Alive \cup {"absent", "published", "failed"}]
  /\ built \in [Publisher -> Version \cup {None}]
  /\ profile \in Version \cup {None}
  /\ package \in [Environment -> Publisher \cup {None}]
  /\ saved \in [Publisher -> Publisher \cup {None}]
  /\ cut \subseteq Environment
  /\ codex \subseteq Publisher

DeliveryInit ==
  /\ stage = [p \in Publisher |-> "absent"]
  /\ built = [p \in Publisher |-> None]
  /\ profile = None
  /\ package = [e \in Environment |-> None]
  /\ saved = [p \in Publisher |-> None]
  /\ cut = {} /\ codex = {}

Step(p, from, to) == stage[p] = from /\ stage' = [stage EXCEPT ![p] = to]

\* publish returns or raises, and its temporary directory goes with all it holds.
Leave(p, from, to) ==
  /\ Step(p, from, to)
  /\ saved' = [saved EXCEPT ![p] = None]
  /\ built' = IF to = "failed" THEN [built EXCEPT ![p] = None] ELSE built

StartPublisher(p) ==
  /\ Step(p, "absent", "work")
  /\ UNCHANGED <<built, profile, package, saved, cut, codex>>

\* The tools are generated or not.  The profile is looked for before the software
\* is copied.
CheckProfile(p) ==
  /\ \/ Leave(p, "work", "failed")
     \/ \E v \in Software[p[1]] :
          \/ v = None /\ Step(p, "work", "package") /\ UNCHANGED <<built, saved>>
          \/ /\ v # None /\ profile \in {None, v}
             /\ Step(p, "work", IF profile = None THEN "profile" ELSE "package")
             /\ built' = [built EXCEPT ![p] = v] /\ UNCHANGED saved
          \/ v # None /\ profile \notin {None, v} /\ Leave(p, "work", "failed")
  /\ UNCHANGED <<profile, package, cut, codex>>

PlaceProfile_TrustWinner(p) ==
  /\ \/ profile = None /\ profile' = built[p] /\ Step(p, "profile", "package")
        /\ UNCHANGED <<built, saved>>
     \/ profile = None /\ Leave(p, "profile", "failed") /\ UNCHANGED profile
     \/ profile # None /\ Step(p, "profile", "package") /\ UNCHANGED <<built, profile, saved>>
  /\ UNCHANGED <<package, cut, codex>>

\* The rename fails if another publisher's profile is in place by now, which must
\* then be an equal one.
PlaceProfile(p) ==
  /\ \/ /\ profile \in {None, built[p]} /\ profile' = built[p]
        /\ Step(p, "profile", "package") /\ UNCHANGED <<built, saved>>
     \/ profile # built[p] /\ Leave(p, "profile", "failed") /\ UNCHANGED profile
  /\ UNCHANGED <<package, cut, codex>>

\* _replace_directory: is there a package?
Look(p) ==
  /\ Step(p, "package", IF package[p[1]] = None THEN "place" ELSE "away")
  /\ UNCHANGED <<built, profile, package, saved, cut, codex>>

\* It may be gone again, or the rename fails for reasons of the disk.
MoveAway(p) ==
  /\ \/ /\ package[p[1]] # None /\ Step(p, "away", "place")
        /\ saved' = [saved EXCEPT ![p] = package[p[1]]]
        /\ package' = [package EXCEPT ![p[1]] = None] /\ UNCHANGED built
     \/ Leave(p, "away", "failed") /\ UNCHANGED package
  /\ UNCHANGED <<profile, cut, codex>>

\* The rename fails if a package is in place, or for reasons of the disk.
Place(p) ==
  /\ \/ /\ package[p[1]] = None /\ Leave(p, "place", "published")
        /\ package' = [package EXCEPT ![p[1]] = p]
     \/ Step(p, "place", "rollback") /\ UNCHANGED <<built, package, saved>>
  /\ UNCHANGED <<profile, cut, codex>>

Rollback_Forget(p) ==
  /\ Leave(p, "rollback", "failed")
  /\ UNCHANGED <<profile, package, cut, codex>>

\* The previous package goes back, unless there is none or another one is in place.
\* If this rename fails too, the temporary directory takes the package with it.
Rollback(p) ==
  /\ Leave(p, "rollback", "failed")
  /\ \/ /\ package' = IF saved[p] # None /\ package[p[1]] = None
                        THEN [package EXCEPT ![p[1]] = saved[p]] ELSE package
        /\ UNCHANGED cut
     \/ saved[p] # None /\ cut' = cut \cup {p[1]} /\ UNCHANGED package
  /\ UNCHANGED <<profile, codex>>

\* A temporary directory stays, but nothing looks there.  ToolGen does not catch the
\* signal, and the Codex session that it may be waiting for, a process of another
\* group, stays too.
KillPublishers(P) ==
  LET killed == {p \in P \cap Publisher : stage[p] \in Alive} IN
  /\ stage' = [p \in Publisher |-> IF p \in killed THEN "failed" ELSE stage[p]]
  /\ cut' = cut \cup {p[1] : p \in {q \in killed : saved[q] # None}}
  /\ saved' = [p \in Publisher |-> IF p \in killed THEN None ELSE saved[p]]
  /\ built' = [p \in Publisher |-> IF p \in killed THEN None ELSE built[p]]
  /\ \E left \in SUBSET {p \in killed : stage[p] = "work"} : codex' = codex \cup left
  /\ UNCHANGED <<profile, package>>

CodexEnds(p) ==
  /\ p \in codex /\ codex' = codex \ {p}
  /\ UNCHANGED <<stage, built, profile, package, saved, cut>>

Publish(p) ==
  \/ CheckProfile(p) \/ PlaceProfile(p) \/ Look(p) \/ MoveAway(p) \/ Place(p) \/ Rollback(p)

(***************************************************************************)
(* Properties.                                                             *)
(***************************************************************************)

\* The tools in a published package find the versions they were built with in the
\* shared profile, whichever of the environments won the race to publish it.
PackageHasProfile ==
  \A e \in Environment :
    package[e] # None /\ built[package[e]] # None => profile = built[package[e]]

\* An environment that was ever published has its package in place, except while
\* a publisher is between its two renames, or after one was killed there or could not
\* put the package back.
DeliveryStays ==
  \A p \in Publisher :
    stage[p] = "published" =>
      \/ package[p[1]] # None
      \/ \E q \in Publisher : q[1] = p[1] /\ saved[q] # None
      \/ p[1] \in cut
=============================================================================
