--------------------------- MODULE DataGen_proofs ---------------------------
(***************************************************************************)
(* Proofs about DataGen, for any set of jobs, naming and limits: the       *)
(* types; that the report tells the truth about the published packages;    *)
(* that no package with a changed input is published; and that without     *)
(* overwrite a package is never touched.                                   *)
(***************************************************************************)
EXTENDS DataGen, FiniteSetTheorems, TLAPS

RunRecord == [tries : Nat, decision : Decision \cup {"none"}, idle : Nat,
              flaky : BOOLEAN, tampered : BOOLEAN]
Working == {"prepare", "research", "collect", "finalize", "repair", "integrate", "freeze"}

\* The steps of a job that change neither the report nor the published directories.
Quiet(j) ==
  \/ Prepare(j) \/ Research(j) \/ Collect(j) \/ CollectLate(j) \/ Finalize(j)
  \/ Repair(j) \/ Integrate(j) \/ IntegrateLate(j) \/ Freeze(j)

\* A run whose inputs were changed does not go on.
CleanInv == \A j \in Job : ~run[j].tampered

\* A job has an outcome once it has returned, and the report repeats it; only with
\* overwrite does a job get where directories are removed.
StageInv ==
  \A j \in Job :
    /\ stage[j] \in {"returned", "reported"} => outcome[j] \in Status
    /\ stage[j] \notin {"returned", "reported"} => outcome[j] = "none"
    /\ report[j] = IF stage[j] = "reported" THEN outcome[j] ELSE "pending"
    /\ stage[j] \in {"remove", "sweep"} => options.overwrite

\* A job that has not moved a package into place in this batch has none there.
OwnInv(j) ==
  stage[j] # "sweep" /\ outcome[j] # "completed" =>
    \A x \in Tier \X Names : ~Mine(published[x], j)

\* Packages are of this batch or an earlier one, and clean.
PackageInv ==
  \A x \in Tier \X Names :
    published[x] \notin {None, Remains} =>
      published[x].in <= batch /\ ~published[x].tampered

\* A package that was moved into place is there, unless the job shares its name and
\* directories are overwritten.
PresentInv(j) ==
  Alone(j) \/ ~options.overwrite =>
    /\ stage[j] = "sweep" => Mine(published[Output(j)], j)
    /\ outcome[j] = "completed" => \E t \in Tier : Mine(published[<<t, Name(j)>>], j)

\* A job that has its name for itself finds no tier of it, unless they are
\* overwritten, and leaves one, if its sweep could remove the others.
TierInv(j) ==
  Alone(j) =>
    /\ ~options.overwrite /\ stage[j] \in Working \cup {"publish", "move"} =>
         \A t \in Tier : published[<<t, Name(j)>>] = None
    /\ outcome[j] = "completed" /\ j \notin unswept =>
         \E t \in Tier : /\ published[<<t, Name(j)>>] # None
                         /\ \A u \in Tier \ {t} : published[<<u, Name(j)>>] = None

\* The inductive invariant.
IInv ==
  /\ TypeOK /\ CleanInv /\ StageInv /\ PackageInv
  /\ \A j \in Job : OwnInv(j) /\ PresentInv(j) /\ TierInv(j)

\* The records of a directory differ in how they were made.
LEMMA Kinds ==
  /\ None # Remains
  /\ \A j \in Job : Package(j) # None /\ Package(j) # Remains
<1>1. None.made = "none" /\ Remains.made = "remains"
  BY DEF None, Remains
<1>2. \A j \in Job : Package(j).made = "whole"
  BY DEF Package
<1> QED  BY <1>1, <1>2

LEMMA FreshRunTyped == FreshRun \in RunRecord /\ ~FreshRun.tampered
  BY DEF FreshRun, RunRecord

LEMMA NameTyped == ASSUME TypeOK, NEW j \in Job PROVE Name(j) \in Names
<1>1. options.naming \in Namings
  BY DEF TypeOK
<1>2. Name(j) \in {options.naming[k] : k \in Job}
  BY DEF Name
<1> QED  BY <1>1, <1>2 DEF Names

LEMMA OutputTyped == ASSUME TypeOK, NEW j \in Job PROVE Output(j) \in Tier \X Names
  BY NameTyped DEF Output, OutputTier, Tier

LEMMA OtherTyped ==
  ASSUME TypeOK, NEW j \in Job
  PROVE  /\ Other(j) \in Tier \X Names /\ Other(j)[2] = Name(j) /\ Other(j) # Output(j)
         /\ \A t \in Tier : t # OutputTier(j) => <<t, Name(j)>> = Other(j)
  BY NameTyped DEF Other, Output, OutputTier, Tier

\* What a step that changes no directory makes of its job.
LEMMA QuietStep ==
  ASSUME TypeOK, CleanInv, NEW j \in Job, Quiet(j)
  PROVE  /\ UNCHANGED <<shared, published, unswept>>
         /\ stage[j] \in Working
         /\ \/ \E s \in Working \cup {"publish"}, r \in RunRecord :
                 ~r.tampered /\ Advance(j, s, r)
            \/ \E retryable \in BOOLEAN : Fail(j, retryable)
<1> DEFINE Goal == \/ \E s \in Working \cup {"publish"}, r \in RunRecord :
                        ~r.tampered /\ Advance(j, s, r)
                   \/ \E retryable \in BOOLEAN : Fail(j, retryable)
<1>1. run[j] \in RunRecord /\ ~run[j].tampered
  BY DEF TypeOK, CleanInv, RunRecord
<1>2. \A s \in Working \cup {"publish"}, r \in RunRecord :
        ~r.tampered /\ Advance(j, s, r) => Goal
  OBVIOUS
<1>3. \A retryable \in BOOLEAN : Fail(j, retryable) => Goal
  OBVIOUS
<1>4. \A d \in Decision : Decide(j, d) => Goal
  <2> SUFFICES ASSUME NEW d \in Decision, Decide(j, d) PROVE Goal
    OBVIOUS
  <2> DEFINE r == [run[j] EXCEPT !.tries = 1, !.decision = d]
  <2>1. r \in RunRecord /\ ~r.tampered
    BY <1>1 DEF RunRecord
  <2>2. CASE Advance(j, "integrate", r)
    BY <1>2, <2>1, <2>2 DEF Working
  <2>3. CASE Fail(j, d = "partial")
    BY <1>3, <2>3
  <2> QED  BY <2>2, <2>3 DEF Decide
<1>5. \A n \in Nat : LET r == [run[j] EXCEPT !.tries = n] IN r \in RunRecord /\ ~r.tampered
  BY <1>1 DEF RunRecord
<1>6. run[j].tries \in Nat /\ run[j].tries + 1 \in Nat
  BY <1>1 DEF RunRecord
<1>7. ASSUME Integrate(j) PROVE Goal
  <2>1. PICK tampers \in BOOLEAN, ready \in BOOLEAN, progress \in BOOLEAN,
             error \in {"none", "retryable", "fatal"} :
          LET r == [run[j] EXCEPT
                     !.tampered = @ \/ tampers,
                     !.flaky = IF error = "none" THEN @ ELSE error = "retryable",
                     !.idle = IF progress THEN 0 ELSE @ + 1,
                     !.tries = @ + 1]
          IN IF ~Verified(tampers, error)
             THEN Fail(j, FALSE)
             ELSE IF ready
             THEN Advance(j, "freeze", [FreshRun EXCEPT
                    !.decision = r.decision, !.tampered = r.tampered])
             ELSE IF r.idle >= IdleRounds
             THEN Fail(j, FALSE)
             ELSE IF run[j].tries = Rounds
             THEN Fail(j, r.flaky)
             ELSE Advance(j, "integrate", r)
    BY <1>7 DEF Integrate
  <2> DEFINE r == [run[j] EXCEPT
                     !.tampered = @ \/ tampers,
                     !.flaky = IF error = "none" THEN @ ELSE error = "retryable",
                     !.idle = IF progress THEN 0 ELSE @ + 1,
                     !.tries = @ + 1]
  <2>2. r \in RunRecord
    <3>1. run[j].tampered \/ tampers \in BOOLEAN
      BY <1>1 DEF RunRecord
    <3>2. (IF error = "none" THEN run[j].flaky ELSE error = "retryable") \in BOOLEAN
      BY <1>1 DEF RunRecord
    <3>3. (IF progress THEN 0 ELSE run[j].idle + 1) \in Nat
      BY <1>1 DEF RunRecord
    <3> QED  BY <1>1, <1>6, <3>1, <3>2, <3>3 DEF RunRecord
  <2>3. CASE ~Verified(tampers, error)
    BY <1>3, <2>1, <2>3
  <2>4. CASE Verified(tampers, error) /\ ready
    <3> DEFINE f == [FreshRun EXCEPT !.decision = r.decision, !.tampered = r.tampered]
    <3>1. ~r.tampered
      BY <1>1, <2>4 DEF Verified, RunRecord
    <3>2. f \in RunRecord /\ ~f.tampered
      BY <2>2, <3>1, FreshRunTyped DEF RunRecord
    <3>3. Advance(j, "freeze", f)
      BY <2>1, <2>4
    <3> QED  BY <1>2, <3>2, <3>3 DEF Working
  <2>5. CASE Verified(tampers, error) /\ ~ready
    <3>1. ~r.tampered /\ r.flaky \in BOOLEAN
      BY <1>1, <2>2, <2>5 DEF Verified, RunRecord
    <3>2. Fail(j, FALSE) \/ Fail(j, r.flaky) \/ Advance(j, "integrate", r)
      BY <2>1, <2>5
    <3> HIDE DEF r
    <3> QED  BY <1>2, <1>3, <2>2, <3>1, <3>2 DEF Working
  <2> QED  BY <2>3, <2>4, <2>5
<1>8. Goal /\ stage[j] \in Working
  <2> HIDE DEF Goal
  <2>1. CASE Prepare(j) \/ Freeze(j) \/ IntegrateLate(j) \/ CollectLate(j)
    BY <1>1, <1>2, <1>3, <2>1 DEF Prepare, Freeze, IntegrateLate, CollectLate, Working
  <2>2. CASE Research(j)
    BY <1>2, <1>3, <1>5, <1>6, <2>2 DEF Research, Working
  <2>3. CASE Collect(j)
    BY <1>1, <1>2, <1>3, <1>5, <1>6, <2>3 DEF Collect, Working
  <2>4. CASE Finalize(j)
    BY <1>1, <1>2, <1>4, <2>4 DEF Finalize, Working
  <2>5. CASE Repair(j)
    BY <1>3, <1>4, <2>5 DEF Repair, Working
  <2>6. CASE Integrate(j)
    BY <1>7, <2>6 DEF Integrate, Working
  <2> QED  BY <2>1, <2>2, <2>3, <2>4, <2>5, <2>6 DEF Quiet
<1>9. UNCHANGED <<shared, published, unswept>>
  BY DEF Quiet, Prepare, Research, Collect, CollectLate, Finalize, Repair, Integrate,
         IntegrateLate, Freeze
<1> QED  BY <1>8, <1>9

\* Whatever one job does, the others keep their places; only directories of its
\* name change, and without overwrite only those that were not there.
LEMMA JobStep ==
  ASSUME TypeOK, CleanInv, StageInv, NEW j \in Job, Pipeline(j)
  PROVE  /\ UNCHANGED shared
         /\ \A k \in Job \ {j} :
              stage'[k] = stage[k] /\ run'[k] = run[k] /\ outcome'[k] = outcome[k]
         /\ unswept' \in {unswept, unswept \cup {j}}
         /\ \A x \in Tier \X Names :
              /\ x[2] # Name(j) => published'[x] = published[x]
              /\ ~options.overwrite /\ published[x] # None => published'[x] = published[x]
              /\ \/ published'[x] \in {published[x], None, Remains}
                 \/ /\ published'[x] = Package(j)
                    /\ stage'[j] = "sweep" \/ outcome'[j] = "completed"
<1> USE DEF TypeOK, shared, Return, Fail, Advance, Goto
<1>1. CASE Quiet(j)
  BY <1>1, QuietStep
<1>2. CASE Take(j)
  BY <1>2 DEF Take
<1>3. CASE Stage(j)
  BY <1>3 DEF Stage
<1> DEFINE out == Output(j)
<1>4. out \in Tier \X Names /\ out[2] = Name(j)
  BY OutputTyped DEF Output
<1>5. CASE Publish(j)
  <2> HIDE DEF out
  <2> QED  BY <1>4, <1>5 DEF Publish, out
<1>6. CASE Remove(j)
  <2>1. options.overwrite
    BY <1>6 DEF Remove, StageInv
  <2> QED  BY <1>4, <1>6, <2>1 DEF Remove
<1>7. CASE Move(j)
  BY <1>4, <1>7 DEF Move, CanMove
<1>8. CASE Sweep(j)
  <2>1. options.overwrite
    BY <1>8 DEF Sweep, StageInv
  <2>2. PICK rest \in Rest(published[Other(j)]) :
          /\ published' = [published EXCEPT ![Other(j)] = rest]
          /\ unswept' \in {unswept, unswept \cup {j}}
    BY <1>8 DEF Sweep
  <2>3. Other(j) \in Tier \X Names /\ Other(j)[2] = Name(j)
    BY OtherTyped
  <2>4. rest \in {None, Remains, published[Other(j)]}
    BY DEF Rest
  <2> HIDE DEF out
  <2> QED  BY <1>8, <2>1, <2>2, <2>3, <2>4 DEF Sweep
<1> QED
  BY <1>1, <1>2, <1>3, <1>5, <1>6, <1>7, <1>8 DEF Pipeline, Quiet

\* What a job does to its own variables, by the way it moves on.
LEMMA MoveTypes ==
  ASSUME TypeOK, NEW j \in Job
  PROVE  /\ \A s \in Stages, r \in RunRecord : Advance(j, s, r) =>
              /\ stage' \in [Job -> Stages] /\ attempt' \in [Job -> 1..MaxAttempts]
              /\ run' \in [Job -> RunRecord] /\ outcome' \in [Job -> Status \cup {"none"}]
         /\ \A result \in Status : Return(j, result) =>
              /\ stage' \in [Job -> Stages] /\ attempt' \in [Job -> 1..MaxAttempts]
              /\ run' \in [Job -> RunRecord] /\ outcome' \in [Job -> Status \cup {"none"}]
         /\ \A retryable \in BOOLEAN : Fail(j, retryable) =>
              /\ stage' \in [Job -> Stages] /\ attempt' \in [Job -> 1..MaxAttempts]
              /\ run' \in [Job -> RunRecord] /\ outcome' \in [Job -> Status \cup {"none"}]
<1> USE DGAssumption
<1>1. /\ stage \in [Job -> Stages] /\ attempt \in [Job -> 1..MaxAttempts]
      /\ run \in [Job -> RunRecord] /\ outcome \in [Job -> Status \cup {"none"}]
  BY DEF TypeOK, RunRecord
<1>2. ASSUME NEW s \in Stages, NEW r \in RunRecord, Advance(j, s, r)
      PROVE  /\ stage' \in [Job -> Stages] /\ attempt' \in [Job -> 1..MaxAttempts]
             /\ run' \in [Job -> RunRecord] /\ outcome' \in [Job -> Status \cup {"none"}]
  BY <1>1, <1>2 DEF Advance, Goto
<1>3. ASSUME NEW result \in Status, Return(j, result)
      PROVE  /\ stage' \in [Job -> Stages] /\ attempt' \in [Job -> 1..MaxAttempts]
             /\ run' \in [Job -> RunRecord] /\ outcome' \in [Job -> Status \cup {"none"}]
  <2>1. 1 \in 1..MaxAttempts /\ "returned" \in Stages
    BY DEF Stages
  <2> QED  BY <1>1, <1>3, <2>1, FreshRunTyped DEF Return, Goto
<1>4. ASSUME NEW retryable \in BOOLEAN, Fail(j, retryable)
      PROVE  /\ stage' \in [Job -> Stages] /\ attempt' \in [Job -> 1..MaxAttempts]
             /\ run' \in [Job -> RunRecord] /\ outcome' \in [Job -> Status \cup {"none"}]
  <2>1. CASE Return(j, "failed")
    BY <1>3, <2>1 DEF Status
  <2>2. CASE ~Return(j, "failed")
    <3>1. attempt[j] + 1 \in 1..MaxAttempts /\ "staging" \in Stages
      BY <1>1, <1>4, <2>2 DEF Fail, Stages
    <3> QED  BY <1>1, <1>4, <2>2, <3>1, FreshRunTyped DEF Fail, Goto
  <2> QED  BY <2>1, <2>2
<1> QED  BY <1>2, <1>3, <1>4

\* The directories hold nothing else, whatever a job does.
LEMMA PublishedTypes ==
  ASSUME TypeOK, CleanInv, StageInv, NEW j \in Job, Pipeline(j)
  PROVE  published' \in [Tier \X Names ->
                           {None, Remains} \cup
                           [made : {"whole"}, by : Job, in : 1..MaxBatches,
                            tampered : BOOLEAN]]
<1> DEFINE P == {None, Remains} \cup
                 [made : {"whole"}, by : Job, in : 1..MaxBatches, tampered : BOOLEAN]
<1>1. published \in [Tier \X Names -> P]
  BY DEF TypeOK
<1>2. Package(j) \in P /\ None \in P /\ Remains \in P
  BY DEF TypeOK, Package
<1> HIDE DEF P
<1>3. DOMAIN published' = Tier \X Names /\ published' = [x \in Tier \X Names |-> published'[x]]
  <2>1. CASE Quiet(j) \/ Take(j) \/ Stage(j)
    BY <1>1, <2>1, QuietStep DEF Take, Stage
  <2>2. CASE Publish(j) \/ Remove(j) \/ Move(j)
    BY <1>1, <2>2 DEF Publish, Remove, Move
  <2>3. CASE Sweep(j)
    BY <1>1, <2>3 DEF Sweep
  <2> QED  BY <2>1, <2>2, <2>3 DEF Pipeline, Quiet
<1>4. \A x \in Tier \X Names : published'[x] \in P
  BY <1>1, <1>2, JobStep
<1> QED  BY <1>3, <1>4 DEF P

\* Every step keeps the types.
LEMMA TypeOKStep == TypeOK /\ CleanInv /\ StageInv /\ [Next]_vars => TypeOK'
<1> SUFFICES ASSUME TypeOK, CleanInv, StageInv, [Next]_vars PROVE TypeOK'
  OBVIOUS
<1> USE DGAssumption
<1>1. ASSUME NEW j \in Job, Pipeline(j) PROVE TypeOK'
  <2> DEFINE Moved == /\ stage' \in [Job -> Stages] /\ attempt' \in [Job -> 1..MaxAttempts]
                      /\ run' \in [Job -> RunRecord]
                      /\ outcome' \in [Job -> Status \cup {"none"}]
  <2>1. run[j] \in RunRecord /\ FreshRun \in RunRecord
    BY FreshRunTyped DEF TypeOK, RunRecord
  <2>2. \A s \in Stages, r \in RunRecord : Advance(j, s, r) => Moved
    BY MoveTypes
  <2>3. \A result \in Status : Return(j, result) => Moved
    BY MoveTypes
  <2>4. \A retryable \in BOOLEAN : Fail(j, retryable) => Moved
    BY MoveTypes
  <2>5. Moved
    <3> HIDE DEF Moved
    <3>1. CASE Quiet(j)
      <4>1. Working \cup {"publish"} \subseteq Stages
        BY DEF Working, Stages
      <4> QED  BY <2>2, <2>4, <3>1, <4>1, QuietStep
    <3>2. CASE Take(j)
      <4>1. CASE Return(j, "skipped_existing")
        BY <2>3, <4>1 DEF Status
      <4>2. CASE ~Return(j, "skipped_existing")
        BY <3>2, <4>2 DEF Take, Goto, TypeOK, Stages, Moved, RunRecord
      <4> QED  BY <4>1, <4>2
    <3>3. CASE Stage(j)
      BY <2>1, <2>2, <2>4, <3>3 DEF Stage, Stages
    <3>4. CASE Publish(j) \/ Remove(j)
      BY <2>1, <2>2, <2>4, <3>4 DEF Publish, Remove, Stages
    <3>5. CASE Move(j) \/ Sweep(j)
      BY <2>1, <2>2, <2>3, <2>4, <3>5 DEF Move, Sweep, Stages, Status
    <3> QED  BY <1>1, <3>1, <3>2, <3>3, <3>4, <3>5 DEF Pipeline, Quiet
  <2>6. UNCHANGED shared /\ unswept' \subseteq unswept \cup {j}
    BY <1>1, JobStep
  <2> QED  BY <1>1, <2>5, <2>6, PublishedTypes DEF TypeOK, shared, RunRecord
<1>2. ASSUME NEW j \in Job, Collected(j) PROVE TypeOK'
  <2>1. Entry(j) \in Status
    BY <1>2 DEF Collected, Entry, StageInv
  <2> QED  BY <1>2, <2>1 DEF Collected, Goto, TypeOK, Stages
<1>3. CASE Finish \/ Kill
  BY <1>3 DEF Finish, Kill, TypeOK
<1>4. CASE StartBatch
  <2>1. batch' \in 1..MaxBatches
    BY <1>4 DEF StartBatch, TypeOK
  <2>2. run' \in [Job -> RunRecord]
    BY <1>4, FreshRunTyped DEF StartBatch
  <2>3. stage' \in [Job -> Stages] /\ attempt' \in [Job -> 1..MaxAttempts]
    <3>1. 1 \in 1..MaxAttempts /\ "queued" \in Stages
      BY DEF Stages
    <3> QED  BY <1>4, <3>1 DEF StartBatch
  <2> QED  BY <1>4, <2>1, <2>2, <2>3 DEF StartBatch, TypeOK, RunRecord
<1>5. CASE UNCHANGED vars
  BY <1>5 DEF vars, TypeOK
<1> QED
  BY <1>1, <1>2, <1>3, <1>4, <1>5 DEF Next, Work

\* Every run that goes on is clean.
LEMMA CleanInvStep == TypeOK /\ CleanInv /\ [Next]_vars => CleanInv'
<1> SUFFICES ASSUME TypeOK, CleanInv, [Next]_vars PROVE CleanInv'
  OBVIOUS
<1> USE FreshRunTyped DEF TypeOK, CleanInv, RunRecord
<1>1. ASSUME NEW j \in Job, Quiet(j) PROVE CleanInv'
  BY <1>1, QuietStep DEF Advance, Fail, Return
<1>2. ASSUME NEW j \in Job, Take(j) \/ Stage(j) PROVE CleanInv'
  BY <1>2 DEF Take, Stage, Advance, Fail, Return
<1>3. ASSUME NEW j \in Job, Publish(j) \/ Remove(j) \/ Move(j) \/ Sweep(j) PROVE CleanInv'
  BY <1>3 DEF Publish, Remove, Move, Sweep, Advance, Fail, Return
<1>4. ASSUME NEW j \in Job, Collected(j) PROVE CleanInv'
  BY <1>4 DEF Collected
<1>5. CASE Finish \/ Kill \/ StartBatch
  BY <1>5 DEF Finish, Kill, StartBatch
<1>6. CASE UNCHANGED vars
  BY <1>6 DEF vars
<1> QED
  BY <1>1, <1>2, <1>3, <1>4, <1>5, <1>6 DEF Next, Work, Pipeline, Quiet

\* Outcomes and entries of the report follow the stage of their job.
LEMMA StageInvStep == TypeOK /\ CleanInv /\ StageInv /\ [Next]_vars => StageInv'
<1> SUFFICES ASSUME TypeOK, CleanInv, StageInv, [Next]_vars PROVE StageInv'
  OBVIOUS
<1> USE DEF TypeOK, StageInv, Status, shared, Advance, Fail, Return, Goto
<1>1. ASSUME NEW j \in Job, Quiet(j) PROVE StageInv'
  BY <1>1, QuietStep DEF Working
<1>2. ASSUME NEW j \in Job, Take(j) \/ Stage(j) PROVE StageInv'
  BY <1>2 DEF Take, Stage
<1>3. ASSUME NEW j \in Job, Publish(j) \/ Remove(j) \/ Move(j) \/ Sweep(j) PROVE StageInv'
  BY <1>3 DEF Publish, Remove, Move, Sweep
<1>4. ASSUME NEW j \in Job, Collected(j) PROVE StageInv'
  BY <1>4 DEF Collected, Entry
<1>5. CASE Finish \/ Kill \/ StartBatch
  BY <1>5 DEF Finish, Kill, StartBatch
<1>6. CASE UNCHANGED vars
  BY <1>6 DEF vars
<1> QED
  BY <1>1, <1>2, <1>3, <1>4, <1>5, <1>6 DEF Next, Work, Pipeline, Quiet

\* What is moved into place is clean and of this batch; batches are numbered upwards.
LEMMA PackageInvStep ==
  TypeOK /\ CleanInv /\ StageInv /\ PackageInv /\ [Next]_vars => PackageInv'
<1> SUFFICES ASSUME TypeOK, CleanInv, StageInv, PackageInv, [Next]_vars PROVE PackageInv'
  OBVIOUS
<1>1. ASSUME NEW j \in Job, Pipeline(j) PROVE PackageInv'
  <2>1. Package(j).in = batch /\ ~Package(j).tampered /\ batch \in Nat
    BY DEF Package, CleanInv, TypeOK
  <2>2. batch' = batch
    BY <1>1, JobStep DEF shared
  <2>3. ASSUME NEW x \in Tier \X Names, published'[x] \notin {None, Remains}
        PROVE  published'[x].in <= batch' /\ ~published'[x].tampered
    BY <1>1, <2>1, <2>2, <2>3, JobStep DEF PackageInv
  <2> QED  BY <2>3 DEF PackageInv, None, Remains
<1>2. CASE StartBatch
  <2>1. \A x \in Tier \X Names :
          published[x] \notin {None, Remains} => published[x].in \in Nat
    BY DEF TypeOK
  <2> QED  BY <1>2, <2>1 DEF StartBatch, PackageInv, TypeOK, None, Remains
<1>3. CASE (\E j \in Job : Collected(j)) \/ Finish \/ Kill \/ UNCHANGED vars
  BY <1>3 DEF Collected, Finish, Kill, vars, PackageInv, None, Remains
<1> QED
  BY <1>1, <1>2, <1>3 DEF Next, Work

\* No step of another job, and no step of its own that gives up, puts a package of
\* the job into place.
LEMMA OwnInvStep ==
  ASSUME TypeOK, CleanInv, StageInv, PackageInv, NEW k \in Job, OwnInv(k), [Next]_vars
  PROVE  OwnInv(k)'
<1>1. ASSUME NEW j \in Job, Pipeline(j) PROVE OwnInv(k)'
  <2> SUFFICES ASSUME stage'[k] # "sweep", outcome'[k] # "completed",
                      NEW x \in Tier \X Names
               PROVE  ~Mine(published[x], k)'
    BY DEF OwnInv
  <2>1. batch' = batch
    BY <1>1, JobStep DEF shared
  <2>2. stage[k] # "sweep" /\ outcome[k] # "completed"
    <3>1. CASE k # j  BY <1>1, <3>1, JobStep
    <3>2. CASE k = j
      BY <1>1, <3>2, QuietStep
         DEF Pipeline, Quiet, Take, Stage, Publish, Remove, Move, Sweep, Working, StageInv,
             Return, TypeOK
    <3> QED  BY <3>1, <3>2
  <2>3. ~Mine(published[x], k)
    BY <2>2 DEF OwnInv
  <2>4. CASE published'[x] \in {published[x], None, Remains}
    BY <2>1, <2>3, <2>4 DEF Mine, None, Remains
  <2>5. CASE published'[x] = Package(j) /\ k # j
    BY <2>5 DEF Package, Mine
  <2> QED  BY <1>1, <2>4, <2>5, JobStep
<1>2. CASE StartBatch
  <2>1. \A x \in Tier \X Names :
          published[x] \notin {None, Remains} =>
            published[x].in <= batch /\ published[x].in \in Nat
    BY DEF PackageInv, TypeOK
  <2> QED  BY <1>2, <2>1 DEF StartBatch, OwnInv, Mine, TypeOK, None, Remains
<1>3. ASSUME NEW j \in Job, Collected(j) PROVE OwnInv(k)'
  BY <1>3 DEF Collected, Goto, OwnInv, Mine, None, Remains, TypeOK
<1>4. CASE Finish \/ Kill \/ UNCHANGED vars
  BY <1>4 DEF Finish, Kill, vars, OwnInv, Mine, None, Remains
<1> QED
  BY <1>1, <1>2, <1>3, <1>4 DEF Next, Work

\* Until it moves its package into place a job has not completed.
LEMMA NotYet ==
  ASSUME TypeOK, CleanInv, StageInv, NEW j \in Job,
         Quiet(j) \/ Take(j) \/ Stage(j) \/ Publish(j) \/ Remove(j)
  PROVE  stage'[j] # "sweep" /\ outcome'[j] # "completed"
<1> USE DEF TypeOK, StageInv, Advance, Fail, Return, Goto
<1>1. CASE Quiet(j)
  BY <1>1, QuietStep DEF Working
<1>2. CASE Take(j) \/ Stage(j)
  BY <1>2 DEF Take, Stage
<1>3. CASE Publish(j) \/ Remove(j)
  BY <1>3 DEF Publish, Remove
<1> QED  BY <1>1, <1>2, <1>3

\* A move either puts the package into place or fails and changes nothing.
LEMMA MoveStep ==
  ASSUME TypeOK, StageInv, NEW j \in Job, Move(j)
  PROVE  \/ /\ published[Output(j)] = None
            /\ published' = [published EXCEPT ![Output(j)] = Package(j)]
            /\ \/ options.overwrite /\ stage'[j] = "sweep" /\ run'[j] = run[j]
                  /\ outcome'[j] = "none"
               \/ ~options.overwrite /\ stage'[j] = "returned"
         \/ /\ published' = published
            /\ stage'[j] \in {"staging", "returned"} /\ outcome'[j] \in {"none", "failed"}
  BY DEF Move, CanMove, Advance, Fail, Return, Goto, TypeOK, StageInv

\* A package in place stays there but for the jobs of the same name.
LEMMA PresentInvStep ==
  ASSUME TypeOK, CleanInv, StageInv, NEW k \in Job, PresentInv(k), [Next]_vars
  PROVE  PresentInv(k)'
<1>1. ASSUME NEW j \in Job, Pipeline(j), j # k PROVE PresentInv(k)'
  <2> SUFFICES ASSUME Alone(k)' \/ ~options'.overwrite PROVE PresentInv(k)'
    BY DEF PresentInv
  <2>1. UNCHANGED shared /\ stage'[k] = stage[k] /\ run'[k] = run[k] /\ outcome'[k] = outcome[k]
    BY <1>1, JobStep
  <2>2. Name(k)' = Name(k) /\ Output(k)' = Output(k) /\ Output(k) = <<OutputTier(k), Name(k)>>
    BY <2>1 DEF shared, Name, Output, OutputTier
  <2>3. Alone(k) \/ ~options.overwrite
    BY <2>1 DEF shared, Alone, Name
  <2>4. Alone(k) => Name(k) # Name(j)
    BY <1>1 DEF Alone
  <2>5. ASSUME NEW t \in Tier, Mine(published[<<t, Name(k)>>], k)
        PROVE  Mine(published[<<t, Name(k)>>], k)'
    <3>1. <<t, Name(k)>> \in Tier \X Names
      BY NameTyped
    <3>2. published[<<t, Name(k)>>] # None
      BY <2>5 DEF Mine
    <3>3. published'[<<t, Name(k)>>] = published[<<t, Name(k)>>]
      BY <1>1, <2>3, <2>4, <3>1, <3>2, JobStep
    <3> QED  BY <2>1, <2>2, <2>5, <3>3 DEF Mine, shared, None, Remains
  <2>6. OutputTier(k) \in Tier
    BY DEF OutputTier, Tier
  <2> QED  BY <2>1, <2>2, <2>3, <2>5, <2>6 DEF PresentInv
<1>2. ASSUME Quiet(k) \/ Take(k) \/ Stage(k) \/ Publish(k) \/ Remove(k) PROVE PresentInv(k)'
  BY <1>2, NotYet DEF PresentInv
<1>3. CASE Move(k)
  <2>1. UNCHANGED shared
    BY <1>3 DEF Move
  <2>2. PICK t \in Tier : t = OutputTier(k)
    BY DEF OutputTier, Tier
  <2>3. Name(k)' = Name(k) /\ Output(k) = <<t, Name(k)>>
    BY <2>1, <2>2 DEF shared, Name, Output
  <2>4. CASE /\ published' = [published EXCEPT ![Output(k)] = Package(k)]
             /\ stage'[k] = "sweep" => run'[k] = run[k]
    <3>1. published'[<<t, Name(k)>>] = Package(k)
      BY <2>3, <2>4, OutputTyped DEF TypeOK
    <3>2. Mine(published[<<t, Name(k)>>], k)'
      BY <2>1, <2>3, <3>1, Kinds DEF Mine, Package, shared, None, Remains
    <3>3. stage'[k] = "sweep" => Output(k)' = <<t, Name(k)>>
      BY <2>2, <2>3, <2>4 DEF Output, OutputTier
    <3>4. stage'[k] = "sweep" => Mine(published[Output(k)], k)'
      BY <2>3, <3>2, <3>3 DEF Mine, None, Remains
    <3> QED  BY <3>2, <3>4 DEF PresentInv
  <2>5. CASE stage'[k] \in {"staging", "returned"} /\ outcome'[k] \in {"none", "failed"}
    BY <2>5 DEF PresentInv
  <2> QED  BY <1>3, <2>4, <2>5, MoveStep
<1>4. CASE Sweep(k)
  <2>1. UNCHANGED shared /\ stage[k] = "sweep" /\ stage'[k] = "returned"
    BY <1>4 DEF Sweep, Return, Goto, TypeOK
  <2>2. PICK t \in Tier : t = OutputTier(k)
    BY DEF OutputTier, Tier
  <2>3. Name(k)' = Name(k) /\ Output(k) = <<t, Name(k)>>
    BY <2>1, <2>2 DEF shared, Name, Output
  <2>4. published'[<<t, Name(k)>>] = published[<<t, Name(k)>>]
    <3>1. PICK rest \in Rest(published[Other(k)]) :
            published' = [published EXCEPT ![Other(k)] = rest]
      BY <1>4 DEF Sweep
    <3>2. Other(k) # <<t, Name(k)>>
      BY <2>3, OtherTyped
    <3> QED  BY <3>1, <3>2, <2>2, NameTyped DEF TypeOK
  <2>5. Alone(k)' = Alone(k)
    BY <2>1 DEF Alone, Name, shared
  <2>6. Mine(published[<<t, Name(k)>>], k) => Mine(published[<<t, Name(k)>>], k)'
    BY <2>1, <2>3, <2>4 DEF Mine, shared, None, Remains
  <2> QED  BY <2>1, <2>3, <2>5, <2>6 DEF PresentInv, shared
<1>5. ASSUME UNCHANGED <<options, batch, run, outcome, published>>,
             stage'[k] = "sweep" => stage[k] = "sweep"
      PROVE  PresentInv(k)'
  <2>1. Name(k)' = Name(k) /\ Alone(k)' = Alone(k) /\ Output(k)' = Output(k)
    BY <1>5 DEF Name, Alone, Output, OutputTier
  <2>2. \A x : Mine(published[x], k) => published'[x] # None /\ published'[x] # Remains
                 /\ published'[x].by = k /\ published'[x].in = batch'
    BY <1>5 DEF Mine
  <2>3. \A t \in Tier :
          Mine(published[<<t, Name(k)>>], k) => Mine(published[<<t, Name(k)>>], k)'
    BY <2>1, <2>2 DEF Mine, None, Remains
  <2>4. Mine(published[Output(k)], k) => Mine(published[Output(k)], k)'
    BY <2>1, <2>2 DEF Mine, None, Remains
  <2> QED  BY <1>5, <2>1, <2>3, <2>4 DEF PresentInv
<1>6. ASSUME NEW j \in Job, Collected(j) PROVE PresentInv(k)'
  <2>1. stage'[k] = "sweep" => stage[k] = "sweep"
    BY <1>6 DEF Collected, Goto, TypeOK
  <2> QED  BY <1>5, <1>6, <2>1 DEF Collected
<1>7. CASE Finish \/ Kill \/ UNCHANGED vars
  BY <1>5, <1>7 DEF Finish, Kill, vars
<1>8. CASE StartBatch
  BY <1>8 DEF StartBatch, PresentInv
<1> QED
  BY <1>1, <1>2, <1>3, <1>4, <1>6, <1>7, <1>8 DEF Next, Work, Pipeline, Quiet

\* The tiers of a name are one job's if no other has that name.
LEMMA TierInvStep ==
  ASSUME TypeOK, CleanInv, StageInv, NEW k \in Job, PresentInv(k), TierInv(k), [Next]_vars
  PROVE  TierInv(k)'
<1> DEFINE Free == \A t \in Tier : published[<<t, Name(k)>>] = None
           Once == \E t \in Tier : /\ published[<<t, Name(k)>>] # None
                                   /\ \A u \in Tier \ {t} : published[<<u, Name(k)>>] = None
           Early(s) == s \in Working \cup {"publish", "move"}
<1>1. ASSUME UNCHANGED options, \A t \in Tier : published'[<<t, Name(k)>>] = published[<<t, Name(k)>>],
             ~options.overwrite /\ Early(stage'[k]) => Early(stage[k]),
             outcome'[k] = "completed" /\ k \notin unswept' =>
               outcome[k] = "completed" /\ k \notin unswept
      PROVE  TierInv(k)'
  <2>1. Name(k)' = Name(k) /\ Alone(k)' = Alone(k)
    BY <1>1 DEF Name, Alone
  <2>2. (Free => Free') /\ (Once => Once')
    BY <1>1, <2>1 DEF None
  <2> QED  BY <1>1, <2>1, <2>2 DEF TierInv
<1>2. ASSUME NEW j \in Job, Pipeline(j), j # k PROVE TierInv(k)'
  <2>1. UNCHANGED options /\ stage'[k] = stage[k] /\ outcome'[k] = outcome[k]
    BY <1>2, JobStep DEF shared
  <2>2. Alone(k)' = Alone(k)
    BY <2>1 DEF Alone, Name
  <2>3. CASE Alone(k)
    <3>1. Name(k) # Name(j)
      BY <1>2, <2>3 DEF Alone
    <3>2. \A t \in Tier : published'[<<t, Name(k)>>] = published[<<t, Name(k)>>]
      BY <1>2, <3>1, NameTyped, JobStep
    <3>3. k \notin unswept' => k \notin unswept
      BY <1>2, JobStep
    <3> QED  BY <1>1, <2>1, <3>2, <3>3
  <2> QED  BY <2>2, <2>3 DEF TierInv
<1>3. CASE Quiet(k)
  <2>1. outcome'[k] # "completed" /\ UNCHANGED <<options, published>> /\ Early(stage[k])
    BY <1>3, NotYet, QuietStep DEF shared
  <2> QED  BY <1>1, <2>1
<1>4. CASE Take(k)
  <2>1. outcome'[k] # "completed" /\ UNCHANGED <<options, published>>
    BY <1>4, NotYet DEF Take, shared
  <2>2. ~Early(stage'[k])
    BY <1>4 DEF Take, Return, Goto, Working, TypeOK
  <2> QED  BY <1>1, <2>1, <2>2
<1>5. CASE Stage(k)
  <2>1. outcome'[k] # "completed" /\ UNCHANGED <<options, published>>
    BY <1>5, NotYet DEF Stage, shared
  <2>2. Name(k)' = Name(k)
    BY <2>1 DEF Name
  <2>3. CASE Exists(Name(k)) /\ ~options.overwrite
    <3>1. ~Early(stage'[k])
      BY <1>5, <2>3 DEF Stage, Fail, Return, Goto, Working, TypeOK
    <3> QED  BY <1>1, <2>1, <3>1
  <2>4. CASE ~Exists(Name(k))
    <3>1. Free
      BY <2>4 DEF Exists
    <3>2. Free'
      BY <2>1, <2>2, <3>1 DEF None
    <3> QED  BY <2>1, <3>2 DEF TierInv
  <2>5. CASE options.overwrite
    BY <2>1, <2>5 DEF TierInv
  <2> QED  BY <2>3, <2>4, <2>5
<1>6. CASE Publish(k) \/ Remove(k)
  <2>1. outcome'[k] # "completed" /\ UNCHANGED options
    BY <1>6, NotYet DEF Publish, Remove, shared
  <2>2. CASE options.overwrite
    BY <2>1, <2>2 DEF TierInv
  <2>3. CASE ~options.overwrite
    <3>1. Publish(k) /\ stage[k] = "publish" /\ UNCHANGED published
      BY <1>6, <2>3 DEF Publish, Remove, StageInv
    <3> QED  BY <1>1, <2>1, <3>1
  <2> QED  BY <2>2, <2>3
<1>7. CASE Move(k)
  <2>1. UNCHANGED options /\ stage[k] = "move"
    BY <1>7 DEF Move, shared
  <2>2. Name(k)' = Name(k) /\ Alone(k)' = Alone(k)
    BY <2>1 DEF Name, Alone
  <2>3. PICK t \in Tier : t = OutputTier(k)
    BY DEF OutputTier, Tier
  <2>4. Output(k) = <<t, Name(k)>> /\ Output(k) \in Tier \X Names
    BY <2>3, OutputTyped DEF Output
  <2>5. CASE /\ published' = [published EXCEPT ![Output(k)] = Package(k)]
             /\ options.overwrite /\ stage'[k] = "sweep" /\ outcome'[k] = "none"
    BY <2>1, <2>5 DEF TierInv
  <2>6. CASE /\ published' = [published EXCEPT ![Output(k)] = Package(k)]
             /\ ~options.overwrite /\ stage'[k] = "returned"
    <3>1. published'[<<t, Name(k)>>] # None
      BY <2>4, <2>6, Kinds DEF TypeOK
    <3>2. ASSUME Alone(k), NEW u \in Tier \ {t} PROVE published'[<<u, Name(k)>>] = None
      <4>1. published[<<u, Name(k)>>] = None
        BY <2>1, <2>6, <3>2 DEF TierInv
      <4>2. <<u, Name(k)>> \in Tier \X Names /\ <<u, Name(k)>> # Output(k)
        BY <2>4, NameTyped
      <4> QED  BY <2>6, <4>1, <4>2 DEF TypeOK
    <3>3. Alone(k) => Once'
      BY <2>2, <3>1, <3>2 DEF None
    <3> QED  BY <2>2, <2>6, <3>3 DEF TierInv, Working
  <2>7. CASE /\ published' = published
             /\ stage'[k] \in {"staging", "returned"} /\ outcome'[k] \in {"none", "failed"}
    BY <1>1, <2>1, <2>7 DEF Working
  <2> QED  BY <1>7, <2>5, <2>6, <2>7, MoveStep
<1>8. CASE Sweep(k)
  <2>1. UNCHANGED options /\ stage[k] = "sweep" /\ stage'[k] = "returned" /\ options.overwrite
    BY <1>8 DEF Sweep, shared, Return, Goto, TypeOK, StageInv
  <2>2. Name(k)' = Name(k) /\ Alone(k)' = Alone(k)
    BY <2>1 DEF Name, Alone
  <2>3. PICK t \in Tier : t = OutputTier(k)
    BY DEF OutputTier, Tier
  <2>4. ASSUME Alone(k) PROVE published[<<t, Name(k)>>] # None
    BY <2>1, <2>3, <2>4 DEF PresentInv, Mine, Output
  <2>5. PICK rest \in Rest(published[Other(k)]) :
          /\ published' = [published EXCEPT ![Other(k)] = rest]
          /\ unswept' = IF rest = None THEN unswept ELSE unswept \cup {k}
    BY <1>8 DEF Sweep
  <2>6. published'[<<t, Name(k)>>] = published[<<t, Name(k)>>]
    <3>1. Other(k) # <<t, Name(k)>>
      BY <2>3, OtherTyped DEF Output
    <3> QED  BY <2>3, <2>5, <3>1, NameTyped DEF TypeOK
  <2>7. rest = None => \A u \in Tier \ {t} : published'[<<u, Name(k)>>] = None
    <3>1. \A u \in Tier \ {t} : <<u, Name(k)>> = Other(k)
      BY <2>3, OtherTyped
    <3>2. rest = None => published'[Other(k)] = None
      BY <2>5, OtherTyped DEF TypeOK
    <3> QED  BY <3>1, <3>2
  <2>8. Alone(k) /\ rest = None => Once'
    BY <2>2, <2>3, <2>4, <2>6, <2>7 DEF None
  <2>9. k \notin unswept' => rest = None
    BY <2>5
  <2> QED  BY <2>1, <2>2, <2>8, <2>9 DEF TierInv
<1>9. ASSUME NEW j \in Job, Collected(j) PROVE TierInv(k)'
  <2>1. Early(stage'[k]) => Early(stage[k])
    BY <1>9 DEF Collected, Goto, TypeOK, Working
  <2> QED  BY <1>1, <1>9, <2>1 DEF Collected
<1>10. CASE StartBatch
  BY <1>10 DEF StartBatch, TierInv, Working
<1>11. CASE Finish \/ Kill \/ UNCHANGED vars
  BY <1>1, <1>11 DEF Finish, Kill, vars
<1> QED
  BY <1>2, <1>3, <1>4, <1>5, <1>6, <1>7, <1>8, <1>9, <1>10, <1>11
     DEF Next, Work, Pipeline, Quiet

LEMMA InitIInv == Init => IInv
<1> SUFFICES ASSUME Init PROVE IInv
  OBVIOUS
<1> USE DGAssumption
<1>1. TypeOK
  <2>1. run \in [Job -> RunRecord]
    BY FreshRunTyped DEF Init
  <2>2. attempt \in [Job -> 1..MaxAttempts] /\ batch \in 1..MaxBatches
    <3>1. 1 \in 1..MaxAttempts /\ 1 \in 1..MaxBatches  OBVIOUS
    <3> QED  BY <3>1 DEF Init
  <2>3. stage \in [Job -> Stages]
    BY DEF Init, Stages
  <2> QED  BY <2>1, <2>2, <2>3 DEF Init, TypeOK, RunRecord
<1>2. CleanInv /\ StageInv
  BY FreshRunTyped DEF Init, CleanInv, StageInv
<1>3. \A x \in Tier \X Names : published[x] = None
  BY DEF Init
<1>4. PackageInv
  BY <1>3 DEF PackageInv
<1>5. ASSUME NEW j \in Job PROVE OwnInv(j) /\ PresentInv(j) /\ TierInv(j)
  BY <1>3 DEF Init, OwnInv, Mine, PresentInv, TierInv, Working
<1> QED  BY <1>1, <1>2, <1>4, <1>5 DEF IInv

LEMMA IInvStep == IInv /\ [Next]_vars => IInv'
<1> SUFFICES ASSUME IInv, [Next]_vars PROVE IInv'
  OBVIOUS
<1> USE DEF IInv
<1>1. TypeOK' /\ CleanInv' /\ StageInv' /\ PackageInv'
  BY TypeOKStep, CleanInvStep, StageInvStep, PackageInvStep
<1>2. ASSUME NEW j \in Job PROVE OwnInv(j)' /\ PresentInv(j)' /\ TierInv(j)'
  BY OwnInvStep, PresentInvStep, TierInvStep
<1> QED  BY <1>1, <1>2

\* Every batch, and every one started after it, stays in the inductive invariant.
LEMMA IInvHolds == Spec => []IInv
  BY InitIInv, IInvStep, PTL DEF Spec

\* The variables keep their types; no job is tried more often than max_attempts.
THEOREM TypesCorrect == Spec => []TypeOK
<1>1. IInv => TypeOK  BY DEF IInv
<1> QED  BY <1>1, IInvHolds, PTL

\* A job the report calls completed has its own package of this batch in place
\* (_run_job, freeze_and_publish_environment).
LEMMA CompletedHasPackage == Spec => []CompletedIsThere
<1>1. IInv => CompletedIsThere
  BY DEF IInv, StageInv, PresentInv, CompletedIsThere
<1> QED  BY <1>1, IInvHolds, PTL

\* A job the report calls failed or skipped has published nothing in this batch.
LEMMA FailedHasNothing == Spec => []FailedLeavesNothing
<1>1. ASSUME IInv PROVE FailedLeavesNothing
  <2> SUFFICES ASSUME NEW j \in Job, report[j] \in {"failed", "skipped_existing"}
               PROVE  \A x \in Tier \X Names : ~Mine(published[x], j)
    BY DEF FailedLeavesNothing
  <2>1. stage[j] = "reported" /\ outcome[j] # "completed"
    BY <1>1 DEF IInv, StageInv
  <2> QED  BY <1>1, <2>1 DEF IInv, OwnInv
<1> QED  BY <1>1, IInvHolds, PTL

\* The report of a batch and the published directories agree (run_batch).
THEOREM ReportHolds == Spec => []ReportIsTrue
<1>1. CompletedIsThere /\ FailedLeavesNothing => ReportIsTrue
  BY DEF ReportIsTrue
<1> QED
  BY <1>1, CompletedHasPackage, FailedHasNothing, PTL

\* The name of a completed job has exactly one tier, if no other job shares it
\* and the job could remove the others (run_pipeline).
THEOREM CompletedHasOneTier == Spec => []OneTier
<1>1. ASSUME IInv PROVE OneTier
  <2> SUFFICES ASSUME NEW j \in Job, report[j] = "completed", Alone(j), j \notin unswept
               PROVE  Cardinality({t \in Tier : published[<<t, Name(j)>>] # None}) = 1
    BY DEF OneTier
  <2>1. outcome[j] = "completed"
    BY <1>1 DEF IInv, StageInv
  <2>2. PICK t \in Tier : /\ published[<<t, Name(j)>>] # None
                          /\ \A u \in Tier \ {t} : published[<<u, Name(j)>>] = None
    BY <1>1, <2>1 DEF IInv, TierInv
  <2>3. {u \in Tier : published[<<u, Name(j)>>] # None} = {t}
    BY <2>2
  <2> QED  BY <2>3, FS_Singleton
<1> QED  BY <1>1, IInvHolds, PTL

\* No published package has a protected input that an agent of Step 3 changed
\* (_verify_integration_inputs).
THEOREM PublishedIsUntampered == Spec => []PublishedUntampered
<1>1. IInv => PublishedUntampered
  BY DEF IInv, PackageInv, PublishedUntampered
<1> QED  BY <1>1, IInvHolds, PTL

\* Without overwrite no retry, no other job and no later batch touches a package
\* that is in place.
THEOREM PackagesStay == Spec => PackageStays
<1> DEFINE A == \A x \in Tier \X Names :
                  ~options.overwrite /\ published[x] # None => published'[x] = published[x]
<1>1. ASSUME IInv, [Next]_vars PROVE [A]_vars
  <2>1. ASSUME NEW j \in Job, Pipeline(j) PROVE A
    BY <1>1, <2>1, JobStep DEF IInv
  <2>2. CASE (\E j \in Job : Collected(j)) \/ Finish \/ Kill \/ StartBatch
    BY <2>2 DEF Collected, Finish, Kill, StartBatch
  <2> QED  BY <1>1, <2>1, <2>2 DEF Next, Work
<1> QED  BY <1>1, IInvHolds, PTL DEF Spec, PackageStays
=============================================================================
