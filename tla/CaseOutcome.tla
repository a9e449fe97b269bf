---------------------------- MODULE CaseOutcome ----------------------------
(***************************************************************************)
(* How one distillation case ends, and what is recorded of it: the runner  *)
(* that starts the CLI and waits for its first model request, the relay    *)
(* that inspects that request, the monitor thread that stops the CLI       *)
(* (distill/runner.py, distill/relay.py), and run(), which turns the       *)
(* exception and the marker files into a result (distill/__main__.py).     *)
(***************************************************************************)
EXTENDS Integers

CONSTANTS
  TaskLimit,  \* max_environment_errors_per_task
  MaxErrors   \* bound: environment errors the case meets

ASSUME CaseAssumption ==
  /\ TaskLimit \in Nat \ {0}
  /\ MaxErrors \in Nat

VARIABLES
  main,      \* the runner's thread, then run() in the same thread
  mon,       \* the monitor thread
  relay,     \* "refuse": a handler is about to write mcp_startup_failure.json
  cli,       \* the CLI; "ok" is exit code 0 with a complete, non-empty answer
  signal,    \* the last signal sent to its process group
  request,   \* what the first model request offered as tools
  over,      \* the CLI's stream shows more calls than allowed
  traced,    \* environment errors in the trace
  tripped,   \* the circuit breaker of the batch
  markers,   \* marker files in raw/
  errors,    \* the runner's list of errors
  ending,    \* how run_k3_distillation ended
  result     \* what run() returns

vars == <<main, mon, relay, cli, signal, request, over, traced, tripped, markers,
          errors, ending, result>>
cause == <<over, traced, tripped>>

Error == {"setup", "preflight", "omitted", "no_request", "evidence"}
Marker == {"upstream", "budget", "environment", "startup"}
Verdict == {"verifier_pass", "verifier_fail", "verification_error"}
Result == [status  : {"none", "completed", "failed", "environment_stopped"},
           stops   : SUBSET Marker,
           verdict : Verdict \cup {"none"}]
NoResult == [status |-> "none", stops |-> {}, verdict |-> "none"]

TypeOK ==
  /\ main \in {"preflight", "startup", "decide", "drain", "collect", "report",
               "verify", "done"}
  /\ mon \in {"off", "loop", "look", "grace", "done", "dead"}
  /\ relay \in {"idle", "refuse"}
  /\ cli \in {"none", "alive", "ok", "bad"}
  /\ signal \in {"none", "term", "kill"}
  /\ request \in {"none", "good", "bad"}
  /\ over \in BOOLEAN
  /\ traced \in 0..MaxErrors
  /\ tripped \in BOOLEAN
  /\ markers \subseteq Marker
  /\ errors \subseteq Error
  /\ ending \in {"none", "returned", "listed", "other"}
  /\ result \in Result

Init ==
  /\ main = "preflight" /\ mon = "off" /\ relay = "idle"
  /\ cli = "none" /\ signal = "none" /\ request = "none"
  /\ over = FALSE /\ traced = 0 /\ tripped = FALSE
  /\ markers = {} /\ errors = {}
  /\ ending = "none" /\ result = NoResult

Put(marker) == markers' = markers \cup {marker}

\* _stop_process_group; a process that is gone takes no signal.
Send(sig) == signal' = IF cli = "alive" /\ signal # "kill" THEN sig ELSE signal

(***************************************************************************)
(* The runner.  Definitions named X_Y are X with the bug Y.                *)
(***************************************************************************)
\* Checking the options and preparing the workspace may raise; some of these
\* exceptions are known to be the environment's fault.
SetupRaises ==
  /\ main = "preflight" /\ main' = "report" /\ ending' = "other"
  /\ \E known \in SUBSET {"setup"} : errors' = known
  /\ UNCHANGED <<mon, relay, cli, signal, request, cause, markers, result>>

\* The MCP server was started once for inspection and did not end, failed a step
\* of the protocol or listed other tools than the task's.
PreflightFails ==
  /\ main = "preflight" /\ main' = "report" /\ ending' = "listed"
  /\ Put("startup") /\ errors' = {"preflight"}
  /\ UNCHANGED <<mon, relay, cli, signal, request, cause, result>>

Launch ==
  /\ main = "preflight" /\ main' = "startup"
  /\ cli' = "alive" /\ mon' = "loop"
  /\ UNCHANGED <<relay, signal, request, cause, markers, errors, ending, result>>

\* The wait is over: the CLI has ended, the relay has set its event, or the
\* deadline has passed, which may be at any time.
StartupWait ==
  /\ main = "startup"
  /\ \/ /\ request = "bad"
        /\ main' = "drain" /\ errors' = errors \cup {"omitted"} /\ Send("term")
     \/ /\ request # "bad"
        /\ main' = "decide" /\ UNCHANGED <<errors, signal>>
  /\ UNCHANGED <<mon, relay, cli, request, cause, markers, ending, result>>

StartupDecide_NoMarker ==
  /\ main = "decide" /\ main' = "drain"
  /\ \/ /\ request = "none"
        /\ errors' = errors \cup {"no_request"} /\ Send("term")
     \/ request # "none" /\ UNCHANGED <<errors, signal>>
  /\ UNCHANGED <<mon, relay, cli, request, cause, markers, ending, result>>

StartupDecide ==
  /\ main = "decide" /\ main' = "drain"
  /\ \/ /\ request = "none"
        /\ Put("startup") /\ errors' = errors \cup {"no_request"} /\ Send("term")
     \/ request # "none" /\ UNCHANGED <<markers, errors, signal>>
  /\ UNCHANGED <<mon, relay, cli, request, cause, ending, result>>

Drain_NoJoin ==
  /\ main = "drain" /\ cli # "alive"
  /\ main' = "collect"
  /\ UNCHANGED <<mon, relay, cli, signal, request, cause, markers, errors, ending, result>>

Drain ==
  /\ main = "drain" /\ cli # "alive" /\ mon \in {"done", "dead"}
  /\ main' = "collect"
  /\ UNCHANGED <<mon, relay, cli, signal, request, cause, markers, errors, ending, result>>

\* The session may be missing, its export fail or its requests break the policy;
\* a marker that does not parse or a trajectory that does not validate raises
\* something else than the DistillRunError that carries the list of errors.
Collect ==
  /\ main = "collect" /\ main' = "report"
  /\ \E failed \in SUBSET {"evidence"} : errors' = errors \cup failed
  /\ \/ ending' = IF cli # "ok" \/ errors' # {} THEN "listed" ELSE "returned"
     \/ ending' = "other"
  /\ UNCHANGED <<mon, relay, cli, signal, request, cause, markers, result>>

(***************************************************************************)
(* run(): the result, and the verifier for a completed case.               *)
(***************************************************************************)
\* _is_environment_setup_error looks for known phrases in the exception's text.
IsSetupError == "setup" \in errors \/ ("omitted" \in errors /\ ending = "listed")

Status ==
  IF markers \cap {"startup", "environment"} # {} THEN "environment_stopped"
  ELSE IF ending = "returned" THEN "completed"
  ELSE IF IsSetupError THEN "environment_stopped"
  ELSE "failed"

Report ==
  /\ main = "report"
  /\ result' = [status  |-> Status,
                stops   |-> markers \cap {"upstream", "startup", "environment"},
                verdict |-> "none"]
  /\ main' = IF Status = "completed" THEN "verify" ELSE "done"
  /\ UNCHANGED <<mon, relay, cli, signal, request, cause, markers, errors, ending>>

Verify ==
  /\ main = "verify" /\ main' = "done"
  /\ \E v \in Verdict : result' = [result EXCEPT !.verdict = v]
  /\ UNCHANGED <<mon, relay, cli, signal, request, cause, markers, errors, ending>>

(***************************************************************************)
(* The monitor thread: one look at the markers and the trace per round.    *)
(***************************************************************************)
MonitorLoop ==
  /\ mon = "loop"
  /\ mon' = IF cli = "alive" THEN "look" ELSE "done"
  /\ UNCHANGED <<main, relay, cli, signal, request, cause, markers, errors, ending, result>>

OverBudget == over \/ "budget" \in markers
EnvironmentStop == tripped \/ traced >= TaskLimit

MonitorStop(marker) ==
  /\ mon = "look" /\ mon' = "grace"
  /\ Put(marker) /\ Send("term")
  /\ UNCHANGED <<main, relay, cli, request, cause, errors, ending, result>>

MonitorLook ==
  \/ "upstream" \in markers /\ MonitorStop("upstream")
  \/ "upstream" \notin markers /\ OverBudget /\ MonitorStop("budget")
  \/ /\ "upstream" \notin markers /\ ~OverBudget /\ EnvironmentStop
     /\ MonitorStop("environment")
  \/ /\ mon = "look" /\ "upstream" \notin markers /\ ~OverBudget /\ ~EnvironmentStop
     /\ mon' = "loop"
     /\ UNCHANGED <<main, relay, cli, signal, request, cause, markers, errors, ending, result>>

\* The server may be writing a line; if the part of it that is visible ends inside
\* a character, environment_errors raises and the thread is over.
MonitorDies ==
  /\ mon = "look" /\ "upstream" \notin markers /\ ~OverBudget /\ request = "good"
  /\ mon' = "dead"
  /\ UNCHANGED <<main, relay, cli, signal, request, cause, markers, errors, ending, result>>

MonitorGrace_TermOnly ==
  /\ mon = "grace" /\ mon' = "done"
  /\ UNCHANGED <<main, relay, cli, signal, request, cause, markers, errors, ending, result>>

MonitorGrace ==
  /\ mon = "grace" /\ mon' = "done"
  /\ Send("kill")
  /\ UNCHANGED <<main, relay, cli, request, cause, markers, errors, ending, result>>

(***************************************************************************)
(* The relay and the CLI with its tools.                                   *)
(***************************************************************************)
Running == main \in {"startup", "decide", "drain"}

FirstRequest ==
  /\ cli = "alive" /\ request = "none"
  /\ request' \in {"good", "bad"}
  /\ relay' = IF request' = "bad" THEN "refuse" ELSE relay
  /\ UNCHANGED <<main, mon, cli, signal, cause, markers, errors, ending, result>>

\* Nobody joins the handler's thread.
Refuse ==
  /\ relay = "refuse" /\ relay' = "idle"
  /\ Put("startup")
  /\ UNCHANGED <<main, mon, cli, signal, request, cause, errors, ending, result>>

FatalStream ==
  /\ Running /\ request = "good" /\ "upstream" \notin markers
  /\ Put("upstream")
  /\ UNCHANGED <<main, mon, relay, cli, signal, request, cause, errors, ending, result>>

\* A claim refused by the MCP server or by a file hook.
BudgetRefusal ==
  /\ Running /\ request = "good" /\ "budget" \notin markers
  /\ Put("budget")
  /\ UNCHANGED <<main, mon, relay, cli, signal, request, cause, errors, ending, result>>

\* The calls are counted in the CLI's output, which the runner only drains after
\* the startup; the server writes the trace.
ToolCall ==
  /\ Running /\ request = "good"
  /\ \/ main = "drain" /\ ~over /\ over' = TRUE /\ UNCHANGED traced
     \/ traced < MaxErrors /\ traced' = traced + 1 /\ UNCHANGED over
  /\ UNCHANGED <<main, mon, relay, cli, signal, request, tripped, markers, errors,
                 ending, result>>

\* The last error allowed to the batch, in a trace of this case or of another.
BatchTrips ==
  /\ main # "done" /\ ~tripped /\ tripped' = TRUE
  /\ UNCHANGED <<main, mon, relay, cli, signal, request, over, traced, markers, errors,
                 ending, result>>

\* An answer needs a model request that the relay has let pass.
CliExits ==
  /\ cli = "alive" /\ signal # "kill"
  /\ cli' \in {"ok", "bad"} /\ (cli' = "ok" => request = "good")
  /\ UNCHANGED <<main, mon, relay, signal, request, cause, markers, errors, ending, result>>

CliKilled ==
  /\ cli = "alive" /\ signal = "kill" /\ cli' = "bad"
  /\ UNCHANGED <<main, mon, relay, signal, request, cause, markers, errors, ending, result>>

Finished == main = "done" /\ UNCHANGED vars

Main ==
  \/ SetupRaises \/ PreflightFails \/ Launch
  \/ StartupWait \/ StartupDecide \/ Drain \/ Collect \/ Report \/ Verify
Monitor == MonitorLoop \/ MonitorLook \/ MonitorDies \/ MonitorGrace
Relay == FirstRequest \/ Refuse \/ FatalStream
Tools == BudgetRefusal \/ ToolCall \/ BatchTrips

Next == Main \/ Monitor \/ Relay \/ Tools \/ CliExits \/ CliKilled \/ Finished

Spec == Init /\ [][Next]_vars

\* Both threads run, and a killed process is gone.  A CLI that only got SIGTERM
\* need not end, and it may work for ever.
FairSpec == Spec /\ WF_vars(Main) /\ WF_vars(Monitor) /\ WF_vars(CliKilled)

(***************************************************************************)
(* Properties.                                                             *)
(***************************************************************************)
\* What makes the two invariants below inductive.
\* After the join nobody but the relay's thread writes a marker ...
Joined ==
  main \in {"collect", "report", "verify", "done"} =>
    cli # "alive" /\ mon \in {"off", "done", "dead"}
\* ... and that thread only if the request was bad, which no answer follows.
RequestChecked ==
  /\ cli = "ok" => request = "good"
  /\ request # "bad" => relay = "idle"
StartupMarked == errors \cap {"preflight", "no_request"} # {} => "startup" \in markers
EndedWell == ending = "returned" => cli = "ok" /\ errors = {}
NotStarted == main = "preflight" => cli = "none" /\ mon = "off" /\ errors = {}
NoResultYet == main \notin {"verify", "done"} => result = NoResult
Classified ==
  main \in {"verify", "done"} =>
    /\ result.status = "completed" =>
         ending = "returned" /\ markers \cap {"environment", "startup"} = {}
    /\ ("environment" \in markers \/ errors \cap {"preflight", "no_request"} # {} \/ IsSetupError)
         => result.status = "environment_stopped"
JudgedOnlyCompleted ==
  /\ main = "verify" => result.status = "completed"
  /\ result.verdict # "none" => main = "done" /\ result.status = "completed"

\* Only a run that ended by itself with an answer, with the tools offered to
\* the model, no error and no environment stop is shown to the verifier
\* (run, distill/__main__.py); in particular no stop of the monitor is still
\* to come when run() looks for the marker files.
JudgedRunsAreClean ==
  result.verdict # "none" =>
    /\ cli = "ok" /\ request = "good" /\ errors = {}
    /\ markers \cap {"environment", "startup"} = {}

\* Trouble of the environment is never counted as the model's failure: a failed
\* preflight, a startup without a model request, an environment stop, and missing
\* tools the runner has noticed make the case environment_stopped.
EnvironmentTroubleClassified ==
  main = "done"
    /\ \/ "environment" \in markers
       \/ errors \cap {"preflight", "no_request"} # {}
       \/ IsSetupError
  => result.status = "environment_stopped"

StopCause == markers \cap {"upstream", "budget"} # {} \/ over \/ EnvironmentStop

\* A stop marker, a call beyond the budget, an environment error at the limit or
\* a trip of the batch ends the run, even if the CLI ignores SIGTERM, as long as
\* the monitor thread lives (_monitor_environment_errors).
StopEndsRun == (cli = "alive" /\ StopCause) ~> (main = "done" \/ mon = "dead")
=============================================================================
