--------------------------- MODULE BatchDispatch ---------------------------
(***************************************************************************)
(* A taskgen distillation batch: the dispatcher that keeps a bounded       *)
(* number of cases in a thread pool (distill/__main__.py,                  *)
(* _bounded_results and run), the monitor thread of each running case and  *)
(* the live circuit breaker they share, and the semaphores a case passes:  *)
(* Docker sessions, Docker MCP startup, verifier slots                     *)
(* (distill/runner.py).                                                    *)
(***************************************************************************)
EXTENDS Integers, FiniteSets

CONSTANTS
  NumCases,       \* cases selected for the batch
  Docker,         \* those whose delivery runs in Docker
  MinWidth,       \* min_concurrency
  MaxWidth,       \* max_concurrency
  Sessions,       \* KIMI_DOCKER_MCP_SESSION_CONCURRENCY
  VerifierSlots,  \* verifier_concurrency
  BatchLimit,     \* max_environment_errors
  TaskLimit,      \* max_environment_errors_per_task
  MaxErrors,      \* bound: environment errors the batch meets
  Faults          \* which exceptions may be raised outside every handler

Case == 1..NumCases
Line == 1..MaxErrors

ASSUME BatchAssumption ==
  /\ NumCases \in Nat
  /\ Docker \subseteq Case
  /\ MinWidth \in Nat \ {0} /\ MaxWidth \in Nat /\ MinWidth <= MaxWidth
  /\ Sessions \in Nat \ {0}
  /\ VerifierSlots \in Nat \ {0}
  /\ BatchLimit \in Nat \ {0} /\ TaskLimit \in Nat \ {0}
  /\ MaxErrors \in Nat
  /\ Faults \subseteq {"startup", "worker"}

VARIABLES
  main,        \* the dispatcher
  next,        \* cases dispatched so far: 1..next
  pending,     \* futures not yet collected
  done,        \* futures wait() returned that are still to be processed
  width,       \* target of the adaptive controller
  stop,        \* stop_reason
  results,     \* cases in the summary
  stage,       \* where each case stands
  status,      \* how its run ended
  startup,     \* cases holding a permit of the startup semaphore
  errors,      \* environment errors in the traces
  observed,    \* those the circuit breaker has seen
  tripped      \* the circuit breaker's event

dispatcher == <<main, next, pending, done, width, stop, results>>
breaker    == <<observed, tripped>>
vars == <<main, next, pending, done, width, stop, results, stage, status,
          startup, errors, observed, tripped>>

Stage == {"unsent", "queued", "preflight_wait", "preflight", "launch_wait", "launch",
          "run", "ended", "verify", "judged", "finished", "raised"}

TypeOK ==
  /\ main \in {"submit", "wait", "collect", "aborting", "aborted", "done"}
  /\ next \in 0..NumCases
  /\ pending \subseteq Case
  /\ done \subseteq pending
  /\ width \in MinWidth..MaxWidth
  /\ stop \in {"none", "breaker", "count"}
  /\ results \subseteq Case
  /\ stage \in [Case -> Stage]
  /\ status \in [Case -> {"none", "completed", "failed", "environment_stopped"}]
  /\ startup \subseteq Docker
  /\ errors \subseteq Case \X Line
  /\ observed \subseteq Case \X Line
  /\ tripped \in BOOLEAN

Init ==
  /\ main = "submit"
  /\ next = 0
  /\ pending = {} /\ done = {} /\ results = {}
  /\ width \in MinWidth..MaxWidth
  /\ stop = "none"
  /\ stage = [c \in Case |-> "unsent"]
  /\ status = [c \in Case |-> "none"]
  /\ startup = {}
  /\ errors = {} /\ observed = {} /\ tripped = FALSE

Move(c, to) == stage' = [stage EXCEPT ![c] = to]

(***************************************************************************)
(* The dispatcher.  Definitions named X_Y are X with the bug Y.            *)
(***************************************************************************)
CanSubmit ==
  stop = "none" /\ ~tripped /\ next < NumCases /\ Cardinality(pending) < width

Submit ==
  /\ main = "submit" /\ CanSubmit
  /\ next' = next + 1
  /\ pending' = pending \cup {next + 1}
  /\ Move(next + 1, "queued")
  /\ UNCHANGED <<main, done, width, stop, results, status, startup,
                 errors, breaker>>

SubmitEnds_QuitOnEvent ==
  /\ main = "submit" /\ ~CanSubmit
  /\ main' = IF pending = {} \/ tripped THEN "done" ELSE "wait"
  /\ UNCHANGED <<next, pending, done, width, stop, results, stage, status, startup, errors, breaker>>

SubmitEnds ==
  /\ main = "submit" /\ ~CanSubmit
  /\ main' = IF pending = {} THEN "done" ELSE "wait"
  /\ UNCHANGED <<next, pending, done, width, stop, results, stage, status, startup, errors, breaker>>

Returned == {c \in pending : stage[c] \in {"finished", "raised"}}

Wait ==
  /\ main = "wait" /\ Returned # {}
  /\ done' = Returned
  /\ stop' = IF stop = "none" /\ tripped THEN "breaker" ELSE stop
  /\ main' = "collect"
  /\ UNCHANGED <<next, pending, width, results, stage, status, startup, errors, breaker>>

Counted(cases) == {e \in errors : e[1] \in cases}

\* In index order; the controller may move its target on every result.
Collect(c) ==
  /\ main = "collect" /\ c \in done /\ \A d \in done : c <= d
  /\ pending' = pending \ {c}
  /\ done' = done \ {c}
  /\ stage[c] = "finished"
  /\ results' = results \cup {c}
  /\ width' \in MinWidth..MaxWidth
  /\ stop' = IF stop = "none" /\ Cardinality(Counted(results')) >= BatchLimit
               THEN "count" ELSE stop
  /\ UNCHANGED <<main, next, stage, status, startup, errors, breaker>>

\* future.result() raises: the loop is left, and the pool joins its threads.
CollectRaises(c) ==
  /\ main = "collect" /\ c \in done /\ \A d \in done : c <= d
  /\ stage[c] = "raised"
  /\ pending' = pending \ {c}
  /\ main' = "aborting"
  /\ done' = {}
  /\ UNCHANGED <<next, width, stop, results, stage, status, startup,
                 errors, breaker>>

CollectEnds ==
  /\ main = "collect" /\ done = {}
  /\ main' = "submit"
  /\ UNCHANGED <<next, pending, done, width, stop, results, stage, status, startup, errors, breaker>>

PoolJoined ==
  /\ main = "aborting" /\ Returned = pending
  /\ main' = "aborted"
  /\ UNCHANGED <<next, pending, done, width, stop, results, stage, status, startup, errors, breaker>>

(***************************************************************************)
(* One case, from the pool's thread.                                       *)
(***************************************************************************)
InSession(c) == stage[c] \in {"preflight_wait", "preflight", "launch_wait", "launch", "run"}

PermitFree == startup = {}
TakePermit(c) ==
  IF c \in Docker THEN PermitFree /\ startup' = {c} ELSE UNCHANGED startup

ReleasePermit_Leak(c) == UNCHANGED startup
ReleasePermit(c) == startup' = startup \ {c}

End(c, result) ==
  /\ Move(c, "ended")
  /\ status' = [status EXCEPT ![c] = result]

Begin(c) ==
  /\ stage[c] = "queued"
  /\ c \in Docker => Cardinality({d \in Docker : InSession(d)}) < Sessions
  /\ Move(c, "preflight_wait")
  /\ UNCHANGED <<dispatcher, status, startup, errors, breaker>>

Preflight(c) ==
  /\ stage[c] = "preflight_wait"
  /\ TakePermit(c)
  /\ Move(c, "preflight")
  /\ UNCHANGED <<dispatcher, status, errors, breaker>>

PreflightEnds(c) ==
  /\ stage[c] = "preflight"
  /\ ReleasePermit(c)
  /\ \/ Move(c, "launch_wait") /\ UNCHANGED status
     \/ End(c, "environment_stopped")
  /\ UNCHANGED <<dispatcher, errors, breaker>>

Launch(c) ==
  /\ stage[c] = "launch_wait"
  /\ TakePermit(c)
  /\ Move(c, "launch")
  /\ UNCHANGED <<dispatcher, status, errors, breaker>>

\* The first model request arrives, or the startup deadline does.
Started(c) ==
  /\ stage[c] = "launch"
  /\ ReleasePermit(c)
  /\ \/ Move(c, "run") /\ UNCHANGED status
     \/ End(c, "environment_stopped")
  /\ UNCHANGED <<dispatcher, errors, breaker>>

\* A thread that cannot start, a marker that cannot be written: the exception
\* passes the release of the permit by.
LaunchRaises(c) ==
  /\ stage[c] = "launch" /\ "startup" \in Faults
  /\ End(c, "failed")
  /\ UNCHANGED <<dispatcher, startup, errors, breaker>>

TraceError(c) ==
  /\ stage[c] = "run" /\ Cardinality(errors) < MaxErrors
  /\ \E n \in Line :
       /\ n = Cardinality(Counted({c})) + 1
       /\ errors' = errors \cup {<<c, n>>}
  /\ UNCHANGED <<dispatcher, stage, status, startup, breaker>>

RunEnds(c) ==
  /\ stage[c] = "run"
  /\ \E result \in {"completed", "failed"} : End(c, result)
  /\ UNCHANGED <<dispatcher, startup, errors, breaker>>

\* EnvironmentErrorCircuitBreaker.observe
Observe_PerPoll(c) ==
  /\ observed' = observed \cup Counted({c})
  /\ tripped' = (tripped \/ Cardinality(observed) + Cardinality(Counted({c})) >= BatchLimit)

Observe(c) ==
  /\ observed' = observed \cup Counted({c})
  /\ tripped' = (tripped \/ Cardinality(observed') >= BatchLimit)

Poll_OwnErrorsOnly(c) ==
  /\ stage[c] \in {"launch", "run"}
  /\ Observe(c)
  /\ IF Cardinality(Counted({c})) >= TaskLimit
       THEN End(c, "environment_stopped") /\ ReleasePermit(c)
       ELSE UNCHANGED <<stage, status, startup>>
  /\ UNCHANGED <<dispatcher, errors>>

\* One round of the monitor thread.  Stopping a CLI that has not made its
\* first request also ends the startup wait.
Poll(c) ==
  /\ stage[c] \in {"launch", "run"}
  /\ Observe(c)
  /\ IF tripped' \/ Cardinality(Counted({c})) >= TaskLimit
       THEN End(c, "environment_stopped") /\ ReleasePermit(c)
       ELSE UNCHANGED <<stage, status, startup>>
  /\ UNCHANGED <<dispatcher, errors>>

InVerifier_KeepSlot(c) == stage[c] \in {"verify", "judged", "finished"} /\ status[c] = "completed"
InVerifier(c) == stage[c] = "verify"

Verify(c) ==
  /\ stage[c] = "ended" /\ status[c] = "completed"
  /\ Cardinality({d \in Case : InVerifier(d)}) < VerifierSlots
  /\ Move(c, "verify")
  /\ UNCHANGED <<dispatcher, status, startup, errors, breaker>>

Judge(c) ==
  /\ stage[c] = "verify"
  /\ Move(c, "judged")
  /\ UNCHANGED <<dispatcher, status, startup, errors, breaker>>

\* The result is written and the task's state deleted, or kept for a verifier
\* that gave no verdict.
Cleanup(c) ==
  /\ stage[c] = "judged" \/ (stage[c] = "ended" /\ status[c] # "completed")
  /\ Move(c, "finished")
  /\ UNCHANGED <<dispatcher, status, startup, errors, breaker>>

\* An exception in a step of run() outside its try.
Raise(c) ==
  /\ stage[c] \in {"queued", "ended"} /\ "worker" \in Faults
  /\ Move(c, "raised")
  /\ UNCHANGED <<dispatcher, status, startup, errors, breaker>>

Finished == main \in {"done", "aborted"} /\ UNCHANGED vars

Dispatch ==
  \/ Submit \/ SubmitEnds \/ Wait \/ CollectEnds \/ PoolJoined
  \/ \E c \in Case : Collect(c) \/ CollectRaises(c)

\* Steps of a case that some timeout or semaphore bounds.
Advance(c) ==
  \/ Begin(c) \/ Preflight(c) \/ PreflightEnds(c) \/ Launch(c) \/ Started(c)
  \/ Verify(c) \/ Judge(c) \/ Cleanup(c)

Next ==
  \/ Dispatch
  \/ \E c \in Case :
       Advance(c) \/ Poll(c) \/ TraceError(c) \/ RunEnds(c) \/ LaunchRaises(c) \/ Raise(c)
  \/ Finished

\* The dispatcher, the pool's threads and the monitors run.  Nothing bounds a
\* CLI: RunEnds is not fair.
Fairness ==
  /\ WF_vars(Dispatch)
  /\ \A c \in Case : WF_vars(Advance(c)) /\ WF_vars(Poll(c))

Spec     == Init /\ [][Next]_vars
FairSpec == Spec /\ Fairness

-----------------------------------------------------------------------------
(***************************************************************************)
(* Properties.                                                             *)
(***************************************************************************)

\* A batch that ends with the circuit breaker tripped says so, although the
\* event is read once per wait and may be set at any moment: the last case is
\* waited for, and the count of errors in the results has a say as well
\* (_bounded_results).
TripReported == main = "done" /\ tripped => stop # "none"

\* It never stops for fewer errors than the limit: an error polled many times
\* and counted again at the end of its case is still one error.
StopJustified == stop # "none" => Cardinality(errors) >= BatchLimit

\* A batch that is not stopped runs every case and reports it; one that is
\* stopped reports every case it dispatched.
NoCaseLost ==
  main = "done" => results = 1..next /\ (stop = "none" => next = NumCases)

\* What a batch reports at its end misses neither a trip nor a case.
NothingLost == TripReported /\ NoCaseLost

\* An exception between taking and releasing the startup permit, as
\* LaunchRaises has it, keeps the permit for good.
PermitLost == \E c \in startup : status[c] = "failed"

\* The breaker ends the batch, although nothing else bounds a running CLI: as
\* long as no case has lost the startup permit, whatever else has raised.
TripEndsBatch == tripped ~> main \in {"done", "aborted"} \/ PermitLost

\* A case that waits for the Docker startup permit gets it, unless an
\* exception has lost it, however the cases before it end.
StartupNotBlocked ==
  \A c \in Case :
    stage[c] \in {"preflight_wait", "launch_wait"} ~>
      stage[c] \notin {"preflight_wait", "launch_wait"} \/ PermitLost

\* Nothing else can hang a batch: unless some CLI runs for ever, it ends, however
\* the cases wait for each other's sessions, permits and verifier slots, and
\* whichever of them raise (_bounded_results, run_k3_distillation).
QuietBatchEnds ==
  <>[](\A c \in Case : stage[c] # "run") => <>(main \in {"done", "aborted"} \/ PermitLost)
=============================================================================
