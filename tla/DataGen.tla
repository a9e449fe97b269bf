------------------------------- MODULE DataGen -------------------------------
(***************************************************************************)
(* Batches of the data generation pipeline (env_gen/data_gen): batch.py    *)
(* runs one job per seed on a pool of threads and writes a report;         *)
(* run_pipeline.py takes a job through its steps in a staging directory    *)
(* and publishes the result as <output_root>/<tier>/<name>; a failed       *)
(* attempt may be made again.  Jobs meet in the published directories:     *)
(* names are normalised, so two of them can have the same one.  A batch    *)
(* may be killed at any step, and started again with the same options.     *)
(*                                                                         *)
(* What an agent session returns, and what a check says of it, is any of   *)
(* the outcomes the code tells apart.  A package knows who made it.        *)
(***************************************************************************)
EXTENDS Naturals, FiniteSets

CONSTANTS
    Job,              \* the valid seeds of the batch
    Namings,          \* possible _safe_directory_name functions on them
    Ascii,            \* jobs for which _safe_name gives the same name
    Concurrency,      \* threads of the pool
    MaxAttempts,      \* max_attempts of a job
    ResearchAttempts, \* max_scenario_research_attempts
    Rounds,           \* max_integration_rounds
    IdleRounds,       \* max_no_progress_rounds
    MaxBatches        \* bound on batches

ASSUME DGAssumption ==
    /\ Concurrency \in Nat \ {0}
    /\ MaxAttempts \in Nat \ {0}
    /\ ResearchAttempts \in Nat \ {0}
    /\ Rounds \in Nat \ {0}
    /\ IdleRounds \in Nat \ {0}
    /\ MaxBatches \in Nat \ {0}

VARIABLES
    options,    \* overwrite, allow_partial_integration and the naming
    batch,      \* how many batches have been started
    main,       \* the main thread: "collecting", "finished" or "killed"
    stage,      \* where each job is
    attempt,    \* the attempt of each job
    run,        \* the run of run_pipeline of each job
    outcome,    \* what _run_job has returned
    report,     \* the job's entry in report.json
    published,  \* the output directories
    unswept     \* history: jobs of this batch whose sweep left something

vars == <<options, batch, main, stage, attempt, run, outcome, report,
          published, unswept>>

Tier == {"rich", "partial"}
Sessions == 2   \* agent sessions of Step 2 before the repair
None == [made |-> "none"]
Remains == [made |-> "remains"]   \* of a directory whose removal broke off
Package(j) == [made |-> "whole", by |-> j, in |-> batch,
               tampered |-> run[j].tampered]

Name(j) == options.naming[j]
\* batch.py normalises names by a rule of its own.
Seen(j) == IF j \in Ascii THEN Name(j) ELSE "seed"
Names == UNION {{n[j] : j \in Job} : n \in Namings} \cup {"seed"}
Exists(name) == \E t \in Tier : published[<<t, name>>] # None

\* tries counts sessions of the current step; flaky says that last_error of
\* Step 3 is retryable; tampered is history.  Values that are not read again
\* are reset.
FreshRun == [tries |-> 1, decision |-> "none", idle |-> 0, flaky |-> FALSE,
             tampered |-> FALSE]

-----------------------------------------------------------------------------
Init ==
    /\ options \in [overwrite : BOOLEAN, partial : BOOLEAN, naming : Namings]
    /\ batch = 1
    /\ main = "collecting"
    /\ stage = [j \in Job |-> "queued"]
    /\ attempt = [j \in Job |-> 1]
    /\ run = [j \in Job |-> FreshRun]
    /\ outcome = [j \in Job |-> "none"]
    /\ report = [j \in Job |-> "pending"]
    /\ published = [x \in Tier \X Names |-> None]
    /\ unswept = {}

shared == <<options, batch, main, report>>

Goto(j, s) == stage' = [stage EXCEPT ![j] = s]

Return(j, result) ==
    /\ outcome' = [outcome EXCEPT ![j] = result]
    /\ Goto(j, "returned")
    /\ attempt' = [attempt EXCEPT ![j] = 1]
    /\ run' = [run EXCEPT ![j] = FreshRun]

\* Bug: retries are not counted.
Fail_Uncounted(j, retryable) ==
    IF retryable
    THEN /\ Goto(j, "staging")
         /\ run' = [run EXCEPT ![j] = FreshRun]
         /\ UNCHANGED <<attempt, outcome>>
    ELSE Return(j, "failed")

\* An exception of run_pipeline: another attempt, or the job has failed.
Fail(j, retryable) ==
    IF retryable /\ attempt[j] < MaxAttempts
    THEN /\ attempt' = [attempt EXCEPT ![j] = @ + 1]
         /\ Goto(j, "staging")
         /\ run' = [run EXCEPT ![j] = FreshRun]
         /\ UNCHANGED outcome
    ELSE Return(j, "failed")

\* On to the next step of the pipeline, with the run's record updated.
Advance(j, s, r) ==
    /\ Goto(j, s)
    /\ run' = [run EXCEPT ![j] = r]
    /\ UNCHANGED <<attempt, outcome>>

-----------------------------------------------------------------------------
(* _run_job and Step 0.                                                    *)

Busy == {j \in Job : stage[j] \notin {"queued", "returned", "reported"}}

\* A thread takes a job; what exists already is not made again.
Take(j) ==
    /\ stage[j] = "queued"
    /\ Cardinality(Busy) < Concurrency
    /\ IF Exists(Seen(j)) /\ ~options.overwrite
       THEN Return(j, "skipped_existing")
       ELSE Goto(j, "staging") /\ UNCHANGED <<attempt, run, outcome>>
    /\ UNCHANGED <<shared, published, unswept>>

\* _create_staging, under the pipeline's own name for the directory.
Stage(j) ==
    /\ stage[j] = "staging"
    /\ IF Exists(Name(j)) /\ ~options.overwrite
       THEN Fail(j, FALSE)
       ELSE Advance(j, "prepare", FreshRun)
    /\ UNCHANGED <<shared, published, unswept>>

Prepare(j) ==
    /\ stage[j] = "prepare"
    /\ \/ Advance(j, "research", run[j])
       \/ Fail(j, FALSE)
    /\ UNCHANGED <<shared, published, unswept>>

-----------------------------------------------------------------------------
(* Steps 1 to 3: agent sessions, each followed by checks.                  *)

\* The draft of a session is valid; or there is none, or it is not, and the
\* session is repeated; or the attempts or the time are used up, or a
\* protected input was changed.  Errors of sessions are not passed on, so
\* that no failure of Step 1 is retryable.
Research(j) ==
    /\ stage[j] = "research"
    /\ \/ Advance(j, "collect", [run[j] EXCEPT !.tries = 1])
       \/ /\ run[j].tries < ResearchAttempts
          /\ Advance(j, "research", [run[j] EXCEPT !.tries = @ + 1])
       \/ Fail(j, FALSE)
    /\ UNCHANGED <<shared, published, unswept>>

\* One of the two collection sessions: it may leave the result file, and it
\* may fail.  A file that is there is used whether it failed or not.
Collect(j) ==
    /\ stage[j] = "collect"
    /\ \E wrote \in BOOLEAN, error \in {"none", "retryable", "fatal"} :
         IF wrote THEN Advance(j, "finalize", run[j])
         ELSE IF error # "fatal" /\ run[j].tries < Sessions
         THEN Advance(j, "collect", [run[j] EXCEPT !.tries = @ + 1])
         ELSE Fail(j, error = "retryable")
    /\ UNCHANGED <<shared, published, unswept>>

\* The time of Step 2 is up before its second session, or before its repair.
CollectLate(j) ==
    /\ \/ stage[j] = "collect" /\ run[j].tries > 1
       \/ stage[j] = "repair"
    /\ Fail(j, TRUE)
    /\ UNCHANGED <<shared, published, unswept>>

\* What run_pipeline makes of the decision.  A partial result that is not
\* allowed is retryable, by its message.
Decide(j, decision) ==
    IF decision = "ready" \/ (decision = "partial" /\ options.partial)
    THEN Advance(j, "integrate",
                 [run[j] EXCEPT !.tries = 1, !.decision = decision])
    ELSE Fail(j, decision = "partial")

Decision == {"ready", "partial", "insufficient_data"}

\* _finalize_agent_result accepts the result or it is repaired, once.
Finalize(j) ==
    /\ stage[j] = "finalize"
    /\ \/ \E d \in Decision : Decide(j, d)
       \/ Advance(j, "repair", run[j])
    /\ UNCHANGED <<shared, published, unswept>>

Repair(j) ==
    /\ stage[j] = "repair"
    /\ \/ \E d \in Decision : Decide(j, d)
       \/ \E retryable \in BOOLEAN : Fail(j, retryable)
    /\ UNCHANGED <<shared, published, unswept>>

\* _verify_integration_inputs after every session, whatever came of it.
Verified(tampers, error) == ~tampers

\* One round of Step 3.  last_error stays from round to round.
Integrate(j) ==
    /\ stage[j] = "integrate"
    /\ \E tampers, ready, progress \in BOOLEAN,
          error \in {"none", "retryable", "fatal"} :
         LET r == [run[j] EXCEPT
                     !.tampered = @ \/ tampers,
                     !.flaky = IF error = "none" THEN @
                               ELSE error = "retryable",
                     !.idle = IF progress THEN 0 ELSE @ + 1,
                     !.tries = @ + 1]
         IN IF ~Verified(tampers, error)
            THEN Fail(j, FALSE)
            ELSE IF ready
            THEN Advance(j, "freeze", [FreshRun EXCEPT
                   !.decision = r.decision, !.tampered = r.tampered])
            ELSE IF r.idle >= IdleRounds
            THEN Fail(j, FALSE)
            ELSE IF run[j].tries = Rounds
            THEN Fail(j, r.flaky)
            ELSE Advance(j, "integrate", r)
    /\ UNCHANGED <<shared, published, unswept>>

\* The time of Step 3 is up before a round.
IntegrateLate(j) ==
    /\ stage[j] = "integrate"
    /\ Fail(j, TRUE)
    /\ UNCHANGED <<shared, published, unswept>>

-----------------------------------------------------------------------------
(* Step 4: freeze_and_publish_environment and the rest of run_pipeline.    *)

\* The state is assessed again, frozen and validated, without an agent.
Freeze(j) ==
    /\ stage[j] = "freeze"
    /\ \/ Advance(j, "publish", run[j])
       \/ Fail(j, FALSE)
    /\ UNCHANGED <<shared, published, unswept>>

OutputTier(j) == IF run[j].decision = "partial" THEN "partial" ELSE "rich"
Output(j) == <<OutputTier(j), Name(j)>>

\* Only the directory of this tier is looked at.  With overwrite its removal
\* begins, and may break off before anything is gone or after.
Publish(j) ==
    /\ stage[j] = "publish"
    /\ IF published[Output(j)] = None
       THEN Advance(j, "move", run[j]) /\ UNCHANGED published
       ELSE IF options.overwrite
       THEN /\ published' \in
                  {published, [published EXCEPT ![Output(j)] = Remains]}
            /\ Advance(j, "remove", run[j])
       ELSE Fail(j, FALSE) /\ UNCHANGED published
    /\ UNCHANGED <<shared, unswept>>

\* rmtree ends, or raises and leaves what it has not removed.
Remove(j) ==
    /\ stage[j] = "remove"
    /\ \/ /\ published' = [published EXCEPT ![Output(j)] = None]
          /\ Advance(j, "move", run[j])
       \/ Fail(j, FALSE) /\ UNCHANGED published
    /\ UNCHANGED <<shared, unswept>>

\* Bug: the move replaces what has appeared in the meantime.
CanMove_Anyway(j) == TRUE

\* A directory cannot be renamed onto one that is not empty.
CanMove(j) == published[Output(j)] = None

Move(j) ==
    /\ stage[j] = "move"
    /\ IF CanMove(j)
       THEN /\ published' = [published EXCEPT ![Output(j)] = Package(j)]
            /\ IF options.overwrite THEN Advance(j, "sweep", run[j])
               ELSE Return(j, "completed")
       ELSE Fail(j, FALSE) /\ UNCHANGED published
    /\ UNCHANGED <<shared, unswept>>

\* Bug: the other tiers are left as they are.
Sweep_Nothing(j) ==
    /\ stage[j] = "sweep"
    /\ Return(j, "completed")
    /\ UNCHANGED <<shared, published, unswept>>

Other(j) == <<IF OutputTier(j) = "rich" THEN "partial" ELSE "rich", Name(j)>>

\* What rmtree leaves if it ignores errors: nothing, a part, or all there was.
Rest(directory) ==
    IF directory = None THEN {None} ELSE {None, Remains, directory}

\* With overwrite the name's directories of the other tiers go; what cannot
\* be removed stays there, and the job has been completed all the same.
Sweep(j) ==
    /\ stage[j] = "sweep"
    /\ \E rest \in Rest(published[Other(j)]) :
         /\ published' = [published EXCEPT ![Other(j)] = rest]
         /\ unswept' = IF rest = None THEN unswept ELSE unswept \cup {j}
    /\ Return(j, "completed")
    /\ UNCHANGED shared

-----------------------------------------------------------------------------
(* run_batch.                                                              *)

\* Bug: every job that returned is written down as completed.
Entry_Completed(j) == "completed"

Entry(j) == outcome[j]

\* as_completed: the result replaces the entry, the report is written.
Collected(j) ==
    /\ main = "collecting"
    /\ stage[j] = "returned"
    /\ report' = [report EXCEPT ![j] = Entry(j)]
    /\ Goto(j, "reported")
    /\ UNCHANGED <<options, batch, main, attempt, run, outcome, published,
                   unswept>>

Finish ==
    /\ main = "collecting"
    /\ \A j \in Job : stage[j] = "reported"
    /\ main' = "finished"
    /\ UNCHANGED <<options, batch, stage, attempt, run, outcome, report,
                   published, unswept>>

Kill ==
    /\ main = "collecting"
    /\ main' = "killed"
    /\ UNCHANGED <<options, batch, stage, attempt, run, outcome, report,
                   published, unswept>>

\* A new batch, in a directory of its own, over the same output root.
StartBatch ==
    /\ main # "collecting"
    /\ batch < MaxBatches
    /\ batch' = batch + 1
    /\ main' = "collecting"
    /\ stage' = [j \in Job |-> "queued"]
    /\ attempt' = [j \in Job |-> 1]
    /\ run' = [j \in Job |-> FreshRun]
    /\ outcome' = [j \in Job |-> "none"]
    /\ report' = [j \in Job |-> "pending"]
    /\ unswept' = {}
    /\ UNCHANGED <<options, published>>

Pipeline(j) ==
    \/ Take(j) \/ Stage(j) \/ Prepare(j)
    \/ Research(j) \/ Collect(j) \/ CollectLate(j) \/ Finalize(j) \/ Repair(j)
    \/ Integrate(j) \/ IntegrateLate(j)
    \/ Freeze(j) \/ Publish(j) \/ Remove(j) \/ Move(j) \/ Sweep(j)

Work == \E j \in Job : (main = "collecting" /\ Pipeline(j)) \/ Collected(j)

Next == Work \/ Finish \/ Kill \/ StartBatch

Spec == Init /\ [][Next]_vars

\* The threads and the main loop keep running; sessions have time limits.
FairSpec == Spec /\ WF_vars(Work) /\ WF_vars(Finish)

-----------------------------------------------------------------------------
(* Properties.                                                             *)

Stages == {"queued", "staging", "prepare", "research", "collect", "finalize",
           "repair", "integrate", "freeze", "publish", "remove", "move",
           "sweep", "returned", "reported"}
Status == {"completed", "failed", "skipped_existing"}

TypeOK ==
    /\ options \in [overwrite : BOOLEAN, partial : BOOLEAN, naming : Namings]
    /\ batch \in 1..MaxBatches
    /\ main \in {"collecting", "finished", "killed"}
    /\ stage \in [Job -> Stages]
    /\ attempt \in [Job -> 1..MaxAttempts]
    /\ run \in [Job -> [tries : Nat,
                        decision : Decision \cup {"none"}, idle : Nat,
                        flaky : BOOLEAN, tampered : BOOLEAN]]
    /\ outcome \in [Job -> Status \cup {"none"}]
    /\ report \in [Job -> Status \cup {"pending"}]
    /\ published \in [Tier \X Names ->
                        {None, Remains} \cup
                        [made : {"whole"}, by : Job, in : 1..MaxBatches,
                         tampered : BOOLEAN]]
    /\ unswept \subseteq Job

Alone(j) == \A k \in Job \ {j} : Name(k) # Name(j)
Mine(p, j) == p # None /\ p # Remains /\ p.by = j /\ p.in = batch

\* A job reported as completed has its own package of this batch in place,
\* whole, however the jobs interleave; with overwrite this needs a name that
\* no other job shares, since each one sweeps the other's tier.
CompletedIsThere ==
    \A j \in Job : report[j] = "completed" /\ (Alone(j) \/ ~options.overwrite)
        => \E t \in Tier : Mine(published[<<t, Name(j)>>], j)

\* A job reported as failed or skipped has published nothing in this batch.
FailedLeavesNothing ==
    \A j \in Job : report[j] \in {"failed", "skipped_existing"} =>
        \A x \in Tier \X Names : ~Mine(published[x], j)

\* The report of a batch and the published directories agree.
ReportIsTrue == CompletedIsThere /\ FailedLeavesNothing

\* A completed name has one tier: downstream finds one environment.  What a
\* batch killed between its move and its sweep, or a sweep that could not
\* remove everything, has left is swept by the next batch as well; only a
\* removal of the job's own sweep that fails leaves a second tier.
OneTier ==
    \A j \in Job : report[j] = "completed" /\ Alone(j) /\ j \notin unswept =>
        Cardinality({t \in Tier : published[<<t, Name(j)>>] # None}) = 1

\* No package is published whose protected inputs an agent of Step 3 changed.
PublishedUntampered ==
    \A x \in Tier \X Names :
        published[x] \notin {None, Remains} => ~published[x].tampered

\* Without overwrite a published package is never touched again, by a retry,
\* by a job of the same name, or by a later batch.
PackageStays ==
    [][\A x \in Tier \X Names :
         ~options.overwrite /\ published[x] # None
            => published'[x] = published[x]]_vars

\* Every batch that is not killed reports all its jobs.
BatchEnds == main = "collecting" ~> main # "collecting"
=============================================================================
