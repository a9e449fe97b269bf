# Formal models of the Agent World harness and its generators

The repository builds simulated environments (seeds, data, tools), writes tasks
for them, and lets a language model solve the tasks with the environment's tools
("distillation"). Most of its code transforms data around a language model. What
depends on order, failure and concurrency is the execution path of a distillation
batch (a thread pool of cases, for each case a CLI process with an MCP server, hook
processes and a relay to the model, monitor threads, a shared call budget, a transaction
around every tool process, and a verifier that judges the state left behind), and
the places where the generators run in parallel, are stopped and resumed, publish
what they made or rely on evidence: the batches of DataGen and ToolGen, the delivery
of tools, and the authoring session of a task. These modules model those parts. TLC
checks them on small instances, and TLAPS proves the main invariants for every value of
the constants.

All paths below are relative to the repository's `src/`.

## 1. Inventory

### The execution path

| Part | Source | State | Operations | What is hard |
|---|---|---|---|---|
| Tool budget | `harness/tool_budget.py`, `harness/kimi_file_policy.py`, monitor in `distill/runner.py` | counter file under `flock`, stop marker `tool_budget_stop.json` | claim, refuse, mark, poll, stop | claimants of two kinds in several processes; a hook killed after 5 s at any step; three writers of one marker and a reader that acts when the file exists |
| Tool transaction | `harness/execution.py`, `harness/sandbox.py` (`run_tool_direct`), `utils/record_store.py` | workspace, database and journal, backup | back up, run, time out, restore | the process is killed, not its children; the restore has several steps; SQLite recovers by itself |
| MCP server | `task_gen/task_eval_mcp.py`, `harness/mcp_protocol.py` | request being served, trace file | serve one request, write the trace, answer | the client has a timeout of its own and exits without waiting |
| Verifier | `distill/taskgen_verifier.py` | its copy of trace, database, workspace; verdict | read, judge, clean up | reads after the CLI's exit, not after the server's |
| Batch dispatcher | `distill/__main__.py` (`_bounded_results`, `run`) | pending futures, results, stop reason | submit, wait, collect, stop | exceptions of workers, an event set by other threads |
| Run of a case | `distill/runner.py` (`run_k3_distillation`), `distill/__main__.py` (`run`) | Docker session and startup permits, monitor thread, marker files, list of errors, result | preflight, launch, startup wait, poll, stop, end, classify | semaphores without `finally`, the circuit breaker shared by all monitors; four causes recorded by three threads while the CLI may end by itself |
| Concurrency controller | `distill/__main__.py` (`_AdaptiveConcurrencyController`) | target, window of results | observe | several rules with clamps of their own on the same target |
| Streaming relay | `distill/relay.py` | first-request check, stop marker, connections, watchers, request and response logs | admit, refuse, forward, retry, record, close | a handler and a watcher thread per request, clients that leave, a close while handlers connect |
| State snapshots (not modelled) | `harness/state_snapshot.py` | two caches | look up, read, store | files that change between the stat, the hash and the read |

They interact as follows. The dispatcher starts `run` for a case in a pool
thread; `run` calls the runner, which starts a CLI process and a monitor thread.
The CLI sends its model requests through the relay of its run and tool calls to its MCP server over a pipe, and starts a hook process
for every native file tool; server and hooks share the budget's files. The
server starts one tool process per call. The monitor reads trace and marker files,
shares the circuit breaker with the other monitors and with the dispatcher, and
kills the CLI's process group. After the CLI's exit `run` reads the files, has
the verifier judge them and deletes the state; the dispatcher collects the result
and shows it to the controller, which moves the number of cases in flight.

What makes these parts correct:

- budget: never more calls than allowed, a refusal is final, the excess ends the
  run, and nothing else does;
- transaction: a failed call leaves nothing, a successful one everything, for
  later tools, for read-only tools on the live state and for the verifier; what
  the model was told is what the trace says; no call hangs;
- run: only a clean run is judged, the environment's trouble is told from the
  model's failure, every reason to stop does stop the run, each cause is counted
  as what it is;
- batch: no case and no stop is lost, a stop has its reason, a trip ends the
  batch, no case waits for ever, neither for a permit nor for another case;
- controller: it stays in its range, backs off and comes back;
- relay: what is refused or comes after a stop is not forwarded, what is forwarded is
  on record, a client that waits is answered, one that left is not waited for.

### The generators

| Part | Source | State | Operations | What is hard |
|---|---|---|---|---|
| ToolGen batch | `env_gen/tool_gen/batch.py` | status file, stop event, process table | start, resume, spawn, watch, retry, stop | a signal handler between a spawn and its registration, or before the status file is read; restarts after a crash while old processes live, or for other environments |
| ToolGen delivery | `env_gen/tool_gen/delivery.py` | published packages, shared software profiles | publish | two renames with a rollback that may fail; environments that publish the same profile |
| Solution authoring | `task_gen/program/solution_validation.py`, `author_submission.py`, `single_agent_hardening.py` | baseline, results, two evidence files | validate, submit, stop, resolve | a cache of results, three processes on the same files, appends that fail or are read halfway |
| DataGen | `env_gen/data_gen/batch.py`, `run_pipeline.py`, `steps/` | report, staging, published tiers | run a job, repeat a session, publish, sweep | jobs with the same normalised name, four nested kinds of repetition, a kill between the renames, removals that fail unnoticed |

The three do not share state at run time: DataGen's packages are ToolGen's input, and
both are the input of TaskGen. A batch calls one process (ToolGen) or one thread
(DataGen) per environment; the ToolGen process publishes by itself. An author is a CLI
with the same MCP server as in distillation, in another mode, plus a stop hook.

What makes them correct: what a report or a status file says is what is published;
nothing that is published is lost or replaced unasked; a stop ends a
batch and the ToolGen processes it has started (their Codex sessions it does not reach); an
accepted solution was run from the initial state and checked, and
every place that decides about it agrees.

### Other parts

The ToolGen compiler and runtime, the steps of the TaskGen pipelines, evaluation
drivers and report, data-set tools, seed collection, dashboards and scripts are listed in
`PROJECT.json` with their status. They are sequential transformations of files, prompts
and schema checks.

## 2. Modules

| Module | Models | Proofs |
|---|---|---|
| `ToolBudget` | the counter, the marker, the monitor's budget stop | `ToolBudget_proofs` |
| `AtomicBudget` | the promise: every claim on the budget is allowed or refused in one step | |
| `AtomicCalls` | the promise: tool calls take effect atomically and are recorded truthfully | |
| `ToolTransaction` | MCP server, transaction, tool process, journal, CLI, the verifier's reading | `ToolTransaction_proofs` |
| `BatchDispatch` | dispatcher, cases, permits, monitors and breaker, verifier slots | `BatchDispatch_proofs` |
| `CaseOutcome` | how one case ends: startup wait, marker files, stop reasons, the result | `CaseOutcome_proofs` |
| `AdaptiveConcurrency` | the controller | in `BatchDispatch_proofs` |
| `StreamingRelay` | the relay: admission, attempts, records, watchers, closing | `StreamingRelay_proofs` |
| `DeliveryPublish` | publication of tools and of the profile they share | in `ToolGenBatch_proofs` |
| `ToolGenBatch` | extends it: the batch that runs the publishers, selection, signals, crashes, resuming, Codex sessions left behind | `ToolGenBatch_proofs` |
| `SolutionAuthoring` | an author session: server, validator, stop hook, final check | `SolutionAuthoring_proofs` |
| `DataGen` | batches of the data pipeline, its steps, and the published directories | `DataGen_proofs` |
| `MC*` | constants for TLC | |

In every module a definition named `X_Y` is `X` with the bug `Y`. It is not part
of the specification; it shows that some property notices such a bug.

`ToolTransaction` implements `AtomicCalls` and `ToolBudget` implements `AtomicBudget` under
refinement mappings (`AtomicSpec` in both), and `ToolGenBatch` is the
batch with the publishers of `DeliveryPublish` as its processes. The others meet at
interfaces that each side leaves open: for `CaseOutcome` the budget's marker
and the errors in the trace come at any time, for `BatchDispatch` a run ends when it
likes and the controller chooses any width in its range, for `ToolBudget` the run is
stopped for other reasons too.

### ToolBudget

`pc[p]` follows a claimant through `claim_tool_call`: `Acquire` takes the flock
and reads the count, `Truncate` and `Store` are the `ftruncate` and the write,
`Grant` returns; `Mark` and `Deny` are the path of a refusal, on which the marker
is written with the lock held. The MCP server writes the marker once more without
the lock (`Remark`). `UnclaimedCall` is a call in the CLI's output that claims
nothing. `HookTimeout` is the CLI's 5 s limit on a hook and may strike at any step;
the kernel then drops the lock, and a truncated counter stays empty. `Killed` is
the group signal. The monitor counts calls in the CLI's output (`MonitorCount`), may
write the marker itself, and signals when the marker exists (`MonitorStop`); it
never reads the text, so `marker` is a Boolean. `MonitorOtherStop` is a stop for
another reason, which kills claimants just the same, and `MonitorDies` the end of the
thread by an exception (see `CaseOutcome`); the two liveness properties are about
runs in which it lives. `tears`, `granted` and `denied` are
history variables.

`AtomicBudget` is what a caller of `claim_tool_call` may rely on: one counter, claims that
take effect in a single step, a refusal only with the marker in place. A claimant that dies may
waste a call (`Waste`) or, while the budget is not spent, make the count start again
(`Forget`); a spent budget stays spent. `Used`, the refinement mapping, is the count as it was
before the claim under way, whose effect comes when it lets the lock go.

### ToolTransaction

`phase` is the server's place in `_call` and `call_environment_tool`. A call
leaves one file and two rows, committed in two transactions; three effects in any
interleaving are the smallest case in which a call can be half done between
files and rows and between two commits. All rows share their pages, so a hot journal
is a whole earlier image: `journal` is empty or holds it, and `Recovered` is the
database as the next writer will find it. `ToolTimeout` kills the tool process.
The constant `Faults` says what may happen around it:

- `kill_in_commit`: the timeout strikes inside a commit;
- `orphan`: a child of the tool lives on after the kill; it goes on writing its file
  (`OrphanWrites`) and committing rows (`OrphanBegins`, `OrphanCommits`), and while it is in a
  transaction it holds the database lock (`busy`);
- `exit_in_call`: the CLI exits with the server in the middle of a call, and takes
  the server with it or not;
- `late_error`: the server raises after the tool's end and the restore, for instance in the
  encoding of the result or in the append to the trace.

A request may be refused with a line in the trace (budget, arguments outside the schema) or
without (no such tool, arguments that are no object): the second disjunct of `Receive`. The
backup may raise, and so may the server during the tool. `record` is what has become of a call:
a line of success or of failure, or `raised`, an error of JSON-RPC without a line. The CLI is
told of both failures in the same way (`Reply`). A call takes its temporary backup with it
as it ends. `VerifyAfterEach` is the option of that name: without it nobody reads the
state afterwards.

The inbox is a set: the properties do not depend on the order of pending requests.
`GiveUp` is the client's `toolTimeoutMs`, which counts from the send and can
therefore run out at any time. The verifier reads the trace, the database and
the workspace in three steps.

`AtomicCalls` has a set of effects and the trace. `ToolTransaction` implements it
with `Stable` for the effects: while a call that writes is running or being undone
the backup, otherwise the disk.

### BatchDispatch

`main` is the dispatcher's place in `_bounded_results`; `stage[c]` is the place of
a case in `run` and `run_k3_distillation`. `Collect` handles one future of the set
that `wait` returned, in index order, as the code does. The controller is a free
choice of `width` here: the properties hold for every controller that keeps its
range. The breaker is `observed` (the distinct errors seen) and `tripped`.
`Poll` is one round of a monitor, including the end of the startup wait when it
stops the CLI. `Faults` are the exceptions nothing catches: `worker` in the steps
of `run` outside its `try`, `startup` between taking and releasing the startup
permit. `InSession` and `InVerifier` are the cases that hold a Docker session or a
verifier slot, which `with` blocks give back. The option `verify_after_each` and the
breaker's limits are assumed set; `Cleanup` is the end of `run`, whether it deletes the
task's state, keeps it for a verifier without a verdict, or leaves it.

### CaseOutcome

`main` is the runner's thread, which continues in `run` and the verifier; `mon` is the
monitor thread, `relay` a handler that has refused the first request and is
about to record it, `cli` and `signal` the process. `SetupRaises`, `PreflightFails`
and `Launch` are the outcomes of the preparation. `StartupWait` and `StartupDecide`
are the two tests after the startup wait, which the first request or the refusal can
fall between. `Drain` waits for the CLI's end and joins the monitor but not the
handler. `Collect` is the end of `run_k3_distillation`: `returned`, `listed` (a
`DistillRunError` with the list of errors) or `other`, for instance a marker that does
not parse or a trajectory that does not validate. `Report` maps ending and marker
files to a result, and `Verify` has it judged.

A round of the monitor is `MonitorLoop` and `MonitorLook`, whose disjuncts have the
code's priorities; `MonitorGrace` is the SIGKILL ten seconds after the SIGTERM.
`MonitorDies` is the end of the thread by an exception: the trace is read as strict
UTF-8 while the server may be appending to it. The CLI is free to end, well or
badly, and to ignore SIGTERM; an answer needs a model request the relay has let
pass. `BatchTrips` is the circuit breaker, set by any case of the batch. A preflight
that fails does not depend on the startup permit, which is in `BatchDispatch`.
Exceptions between the launch and the join, which would leave the CLI without a
waiting parent, are left out.

### AdaptiveConcurrency

One action, `Observe`, takes any result and any condition of the host. The window,
the thresholds and the steps are constants with the code's order
(`SmallStep <= BigStep`). `parity` flips with every result so that a result that
changes nothing else is still a step, which the fairness needs.

### StreamingRelay

`pc[r]` is the place of a request's handler thread in `_handler`: the first-request
check, the test of the stop marker, the token check, then the attempts (`Attempt`,
`Connect`, `Recheck`, `Send`, `Response`, `Pause`), the stream to the client, the record
and the marker. `Fail` is the `except` branch and `End` the `finally`. `socket` is the
handler's entry in `_active_connections`; its watcher thread (`WatchSees`, `WatchShuts`)
shuts it when the client has left or the relay is closing. `Close`, `List` and `Closed`
are `__exit__`, which sets the event, takes the list of connections and shuts those; it
joins handlers for a limited time, so it may return while some still run. Retryability,
fatal errors and token counts are free choices. A request that is not well formed
(`relay.py:401-432`, before the handler's `try`) ends its handler with an exception and is outside the
model: such a client gets neither an answer nor a record. `late` is a history variable.

### DeliveryPublish and ToolGenBatch

A publisher is one attempt of one environment. `CheckProfile` and `PlaceProfile` are
`_publish_software`: look, copy, rename, and compare with the winner if the rename
fails. `Look`, `MoveAway`, `Place` and `Rollback` are `_replace_directory`. Everything
is prepared in a temporary directory, so what is renamed into place is whole. `saved`
is the previous package inside the publisher's temporary directory, which goes with it;
if the rename of `Rollback` fails, the package goes too (`cut`). `Software` says what an
environment's tools may need of the profile, which may be nothing. A publisher that is killed while
it works may leave a Codex session (`codex`), a process of a session of its own that no signal to
ToolGen's group reaches; it ends some time (`CodexEnds`).

`ToolGenBatch` starts them. `Start` takes the lock, installs the handlers and selects
environments (`--environment`); `ReadStatus` and `PrepareStatus` are `_prepare_status`, which
keeps the entries of the selected environments only. A signal between `Start` and `ReadStatus`
finds no status in memory and writes an empty one (`Forget`). `main` then runs the scan for
delivered environments, the pool and the end; `worker[e]` follows `_run_environment`: the
attempt's number is written before the process is spawned (`Begin`, `Spawn`), the process
is registered after it was (`Register`), and `WatchStops` terminates it on a stop. The
handler runs in the main thread: `Signal` sets the event and lists the registered
processes, `HandlerTerminates` ends one of them. `SignalInWrite` is a signal in the
middle of a status write of the main thread, whose temporary file the handler's own write
takes away. `Crash` kills the batch at any step and leaves its processes (`orphans`),
which may still publish or die; the next start resumes from the status file. `logged` has the
attempts in the log of each environment, and `forgotten` the environments whose attempt number the
status file has lost; both are history. A spawn that raises counts as logged, also when it was the
log that failed: this only makes `FreshAttempt` stronger.

### SolutionAuthoring

The author sends one request at a time but may stop waiting for an answer (`GiveUp`).
The server takes requests in order; every one but a submission first needs the
baseline, the copy of the workspace taken once (`BaselineReady`). `Execute` runs a list on
a fresh copy of it, `Reuse` takes the result of an earlier passed run of the same list.
`Check` keeps the report in memory and `Log` appends it; `Submit` appends the identifier
of an acceptable report. Any copy or append may fail (`MaxFaults`), an append with part of a
line in the file (`torn`). `CheckRaises` is an exception of the check that `validate` does not catch,
of the novelty review for instance. The hook reads the validations, then the submissions,
and decides. A read that falls into an append (`Appending`) may get part of a line: `Readings` are
the possible outcomes, and a file that cannot be read makes the hook block. `Finish` is `run_case` after the session: it resolves a receipt or a full
answer against the evidence. `runs` records what each execution started from.

### DataGen

`stage[j]` follows a job through `_run_job`, `run_pipeline` and its steps. Sessions of
agents have any outcome the code tells apart; `run[j]` holds what the steps keep between
sessions: the number of sessions, the decision of Step 2, the rounds without
progress, whether the last error is retryable. `Fail` is an exception of the pipeline: a
new attempt, or the end of the job. `Publish`, `Remove` and `Move` are the end of
`freeze_and_publish_environment`, `Sweep` the removal of the other tiers, which ignores errors and
may leave a directory whole or in part (`Rest`; `unswept` keeps the jobs it happened to). `Name` and
`Seen` are the normalised names of the pipeline and of the batch, which differ for
names that are not ASCII. A batch may be killed at any step and a new one started.

## 3. What is checked

| Run | Shows | Bounds |
|---|---|---|
| `tool_budget` | `BudgetBound`, `BudgetStopJustified`, `NoGrantAfterDenial`, `BudgetStopsRun`, refinement `AtomicSpec` | server and two hooks, limit 2, at most 5 calls emitted |
| `tool_transaction` | `FailedCallsLeaveNothing` (files and rows), `ObserversSeeCommitted` (read-only tools and the verifier), refinement `AtomicSpec`, without faults | two writing calls, one read-only |
| `tool_transaction_faults` | `SuccessKept`, `AnswersMatchTrace`, `EveryCallAnswered`, under all faults | two writing calls, no verifier |
| `tool_transaction_journal` (violated) | a hot journal brings a row of a failed call back | as `tool_transaction` |
| `batch_dispatch` | `NothingLost` (`TripReported`, `NoCaseLost`), `StopJustified`, `TripEndsBatch`, `StartupNotBlocked`, `QuietBatchEnds`, with both kinds of exceptions | 3 cases, 2 in Docker, 1 or 2 in flight, 2 sessions, 1 verifier slot, 2 errors of the environment |
| `case_outcome` | `JudgedRunsAreClean`, `EnvironmentTroubleClassified`, `StopEndsRun` | limit of 2 errors per task, at most 3 errors |
| `adaptive_concurrency` | `Recovers`, `BacksOff` | two kinds of errors, range 1..9, window 3, threshold 2 |
| `streaming_relay` | `BarredNotForwarded` (`RefusedNothingForwarded`, `LateNotForwarded`), `ForwardedIsRecorded`, `StayersAnswered`, `NothingSentAfterClose`, `AbandonedEnds` | 2 requests, 1 retry each |
| `toolgen_batch` | `PackageHasProfile`, `DeliveryStays`, `NoToolGenLeft`, `CompletedIsDelivered`, `FreshAttempt`, `StopEndsBatch`, with crashes | 2 environments, 2 versions, 2 starts, 2 and 1 attempts |
| `toolgen_batch_codex` (violated) | a stop leaves a Codex session behind | same, without crashes |
| `solution_authoring` | `ReportsAreTrue` (`PassedRanClean`, `FailedRanFresh`), `DueIsAllowed`, `AllowedIsValidated`, `FinalIsValidated` | 2 lists, 2 texts, 5 calls, 2 validations, 1 failing file operation, 1 answer given up |
| `data_gen` | `ReportIsTrue` (`CompletedIsThere`, `FailedLeavesNothing`), `OneTier`, `PackageStays`, `BatchEnds` | 2 jobs, equal or different names, 2 attempts, 3 rounds, 2 batches |

The type invariant of every module but the two abstract ones is proved for every value of its
constants (section 4) and is in no run.

Why the bounds are enough to be interesting. The budget needs two hooks for a race
under the lock and the server for its second write of the marker; five calls
are a call granted before the count is forgotten, a full budget after it, a refused
call and one more, so the bound is reached and a grant after a refusal is within reach. Two writing calls are one that succeeds and one
that fails after it, in either order, and the reader comes before, between or
after them; under the faults the reader and the verifier add nothing to what is checked and are
left out. Three cases, two at a time, leave a case to be dispatched after a stop, and two
in Docker compete for the permit; the two errors may come from one case, which is the limit
of a task, or from two, and reach the limit of the batch either way. One verifier slot makes
the second of two finished cases wait for it. In `CaseOutcome` every other
variable is finite by itself; three errors are one below the limit, the limit and
one beyond it. In the controller the window
is longer than the threshold, the range is wide enough for halving, for the big
step with its floor (9, 5, 1) and for a climb from 1 by the small step.

In the relay two requests race for the first check, one can write the marker while
the other is past its test, and a retry gives `__exit__` a connection made after its list.
Two environments compete for one profile, one of which may need none, and the second attempt
of one of them may meet an orphan of the first after a restart; the second start may be for one
of them only. In an author session two lists tell a result
from that of another list, two texts a proposal from another with the same calls; five calls
are a business call, two validations and two submissions. In DataGen two jobs share
names and tiers, three rounds are one more than the rounds without progress that
end Step 3, and the second batch finds what the first one left.

Deadlock is checked except in five runs, whose systems really may stop. In
`batch_dispatch` the fault `startup` (an exception between taking and releasing the startup
permit) loses the permit, and the batch may stop for good; the three liveness properties
except that case (`PermitLost`), the others hold in spite of it. `solution_authoring`
ends with `Finish`, or when the bounds allow nothing more. The two runs of `ToolGenBatch` and
`data_gen` end with their last batch; a worker of `ToolGenBatch` also stops at the bound on
publishers of its environment.

### Fairness

- `ToolBudget`: the monitor thread runs until it returns or raises, and a signalled
  CLI exits (SIGKILL follows SIGTERM after ten seconds). No claimant is fair: a hook may hang until it is killed.
- `ToolTransaction`: only `Serve`, the server's own steps with the timeout that
  `subprocess.run` enforces. Tools may hang, and the CLI need never give up.
- `BatchDispatch`: the dispatcher, the steps of a case that a timeout or a
  semaphore bounds, and the monitors' polls. `RunEnds` is not fair: nothing
  bounds a CLI that keeps working, so only the breaker can end it, and `QuietBatchEnds` is about
  batches in which from some point on none keeps working. Monitors do not die
  there; the death of a monitor thread is in `CaseOutcome`.
- `CaseOutcome`: the two threads of the runner, and the end of a process that got
  SIGKILL. The CLI itself is not fair, not even after a SIGTERM, and a startup
  failure sends nothing else; such a run may never end, and `StopEndsRun` is about
  the monitor's stops only.
- `AdaptiveConcurrency`: results keep coming.
- `StreamingRelay`: the handlers' own steps, the watchers, and `__exit__` once it has
  begun. What waits for the model (`Response`, `Stream`) is fair only once its connection was
  shut: an endpoint may take for ever.
- `ToolGenBatch`: the threads of the batch, the handler included. ToolGen processes and Codex
  sessions are not fair; they may hang until they are terminated.
- `DataGen`: the pool and the main loop. Every session has a time limit, so each step of a
  job ends, and the model counts a session as one step.
- `SolutionAuthoring` has safety properties only.

### Violated runs

Each of these runs checks one property that a document or a help text states, and
the trace TLC prints is a behaviour of the code; `PROJECT.json`, `findings`, quotes
the sentences.

- `tool_transaction_journal`: the restore copies the database file but leaves
  `records.sqlite-journal`; the next connection rolls the restored file
  "back" to an image with the first row of the failed call.
- `toolgen_batch_codex`: a stop signals the process group of ToolGen, and Codex, which ToolGen
  has started in a session of its own, goes on after the batch has ended.

Other departures are in the models without a run of their own; where a property would
not hold for them, it says so.

- Under the fault `orphan` of `ToolTransaction` a child of a tool killed at its timeout
  writes files and commits rows after the restore, so neither `FailedCallsLeaveNoFiles` nor
  `FailedCallsLeaveNoRows` holds.
- Under the fault `late_error` a call that has taken effect, and is not undone, is answered with
  an error and has no line in the trace: for instance a result with a NaN in it, which the output
  schema lets pass and `json.dumps(allow_nan=False)` does not (`task_gen/task_eval_mcp.py:271-273`),
  or an append that fails. Again neither property holds, nor does `VerifierSeesCommitted`.
- Under the fault `exit_in_call` `VerifierSeesCommitted` does not hold: the client's limit
  on a call (`distill/runner.py:372`) is the server's tool timeout counted from the send, so
  the CLI may give up on a call that is being served and exit; the runner waits for the CLI
  alone (`runner.py:1478`), and the verifier copies the state while the call is half
  applied or half undone. `docs/HARNESS阶段接入说明.md:167` promises
  "成功提交；失败恢复调用前状态".
- Steps of `run` outside its `try` (for instance reading the trace afterwards) raise
  out of `future.result()`, and no later case is dispatched (`CollectRaises`), while
  `distill/__main__.py:943` says "failures do not stop later cases". With the fault
  `startup` a later case waits for ever for the permit.
- The monitor reads the trace as strict UTF-8 while the server appends to it; a line that
  ends inside a character raises `UnicodeDecodeError`, the thread ends (`MonitorDies`), and
  errors at the limit no longer stop the task as `docs/CONFIGURATION_ZH.md:51` says.
- A run stopped for its budget is not counted as such: `run` hands the upstream, startup and
  environment stops on to the result (`distill/__main__.py:698-711`) but not the
  `tool_budget_stop` that `eval/report.py:12` looks for, while `docs/EVALUATION_ZH.md:108` says
  "达到工具预算 | 任务失败，和 verifier FAIL 分列". The report is not modelled.
- After a body that broke off in the middle the relay writes a second response head
  into the stream (`Fail`); a local rejection whose client is gone loses its record
  (`Reject`).
- A batch of ToolGen that was stopped may end as `failed` (`SignalInWrite`) or stay
  `stopping` (a signal after its last write), where `env_gen/tool_gen/BATCH_RUN_ZH.md` says
  `interrupted`. A package moved away by a process killed before its second rename, or whose
  rename back fails, is lost (`cut`).
- Attempt numbers of ToolGen are used again, and the lines of the log no longer tell the attempts
  apart, after a start without the environment (`_prepare_status` keeps the selected entries
  only) and after a signal that comes before `status.json` is read (`forgotten`).
- An append of evidence that fails leaves a validation in memory which `submit` accepts and the
  stop hook then blocks; a torn line makes its file unreadable for the rest of the session. A
  hook whose read falls into an append may get part of a line and blocks an author whose
  submission is complete (`overlap`); the author has to stop again. An exception of the novelty
  review other than those `validate` catches (`solution_validation.py:183`) leaves no report.
- What `rmtree(ignore_errors=True)` cannot remove of the other tiers
  (`env_gen/data_gen/run_pipeline.py:282`) stays published, whole or in part, and the job is
  reported as completed (`unswept`).
- With `--overwrite` DataGen removes the published directory and then renames, so a kill in
  between loses the package, while `docs/STEP4_FREEZE_ENVIRONMENT_ZH.md:30` speaks of an atomic
  move; what a removal that broke off leaves is skipped by a later batch without the
  option as if it were complete. A finished environment whose name is not ASCII is
  not skipped but fails (`Seen`, `Stage`).

## 4. What is proved

TLAPS checks, for every value of the constants that satisfies the modules' assumptions:

- `ToolBudget_proofs`, any claimants, whichever of them die: `TypeCorrect`,
  `MutualExclusion`, `BudgetHolds`, `RefusalIsFinal`, `StopIsJustified`, `RefusalIsSeen`,
  `ImplementsAtomicBudget`. `BudgetBound` is not inductive: `LockInv` says the lock's holder
  is the one claimant inside the critical section, and `CountInv` what that claimant knows
  about the counter file and how the file relates to the calls granted so far, each torn
  write having forgotten less than one budget (`granted <= (Limit - 1) * tears + counter`
  when no write is under way). `SpentInv` adds that once a claimant has found the budget
  spent the counter stays at the limit and nobody is on the way to a grant; a claimant that
  finds it spent does not touch the file, so this needs no exception for claimants that die.
  `StopInv` says that the count and the calls in flight together never exceed the calls
  emitted, which is why a marker means more than `Limit` calls, and `SeenInv` that the marker
  comes before the refusal. For the refinement `UsedInv` computes the abstract count from what
  the one claimant in the critical section has read.
- `ToolTransaction_proofs`, any faults: `TypeCorrect`, `TruthfulAnswers` and
  `WaitingIsServed`, from `CallInv`: a call is served once, from a request that was sent,
  nothing else is answered, what is answered has been recorded or has raised, and (`WaitingInv`)
  no request is lost. The faults break the transaction in different places, and each part of it is
  proved without those that do and with the others: `NoFilesOfFailedCalls` for `Faults` without
  `orphan` and `late_error` (`FilesInv`), `NoRowsOfFailedCalls` without `kill_in_commit` too
  (`RowsInv`; the run `tool_transaction_journal` shows that this is needed), and both
  together give `NothingOfFailedCalls`, for failures with and without a line in the trace.
  In both invariants, files, rows, journal images and the
  backup hold nothing of a failed call and, while there is a server, nothing but effects of
  successful calls and of the one being served. `ReadersSeeWholeCalls` has the hypothesis of
  `NoRowsOfFailedCalls`: the CLI may exit in a call. `ObserversSeeWholeCalls`, which includes the
  verifier, needs `Faults = {}`, from `DiskInv`: when no call
  is in its transaction the disk holds exactly what the trace accounts for
  (`QuietInv`); inside one, the backup does, and the disk differs from it by
  what the call wrote or what the restore has not yet put back (`BusyInv`); what
  the verifier has read so far is what it will find (`EvidenceInv`). `LiveInv` is the first two
  for as long as there is a server.
  `SuccessIsKept` holds under every fault, whatever an orphan writes: disk, journal images and backup all contain the
  effects of the successful calls (`KeptInv`), and the effects of the call being served are
  followed from the tool's steps to the record in the trace (`OwnInv`).
  `ImplementsAtomicCalls`, for `Faults = {}`, shows the refinement: `StableInv` computes the
  abstract state in every phase, and every step is a step of `AtomicCalls` or a stutter.
- `BatchDispatch_proofs`, any faults: `TypeCorrect`, `NothingIsLost`,
  `StopIsJustified`, `OneStartup`. `FutureInv` ties the
  sets of futures to the cases' stages; `TripInv` says that a trip that is not yet a
  stop reason comes from a case still to be waited for; `CountInv` that breaker and
  final count see only errors the traces hold, so the two can never add up an error
  twice; `StateInv` says which stages a status belongs to. `PermitInv` says that whoever holds the
  startup permit is in its startup or has lost it to the fault `startup`; without that fault
  `PermitComesBack` says that it is never lost, so the exemption `PermitLost` of the three
  liveness properties is empty. `ControllerTypeCorrect` closes the gap to
  `AdaptiveConcurrency`: started with the batch's range, the controller keeps its target within
  `MinWidth..MaxWidth`, which is all `BatchDispatch` assumes of it.
- `CaseOutcome_proofs`: `TypeCorrect`, `JudgedRunsClean`, `TroubleIsClassified`. A
  verdict is far from the race it depends on, so the inductive invariant follows the run
  step by step: after the join the CLI is gone and only the handler can still write a
  marker (`Joined`), the handler only after a bad request, which no answer follows
  (`RequestChecked`), errors that stand for trouble of the environment have their
  marker (`StartupMarked`), a normal end has neither errors nor a bad exit
  (`EndedWell`), and the result agrees with all that (`Classified`,
  `JudgedOnlyCompleted`, with `NotStarted` and `NoResultYet` for the start).
- `StreamingRelay_proofs`, any number of requests and retries: `TypesCorrect`,
  `BarredIsNotForwarded`, `ForwardedHasRecord`, `StayersGetAnswer`,
  `ClosedSendsNothing`. `AttemptInv` bounds the attempts by where the handler is; `FirstInv`
  says that while a refusal stands nobody has passed the first check with a model request;
  `LateInv` that a late request has not passed the marker; `RecordInv` that a record
  is written once, as the handler ends; `AnswerInv` that a client whose response is being
  passed on has its head, and one noted as gone has left unless the relay is closing;
  `SendInv` that a connection about to be used is on the list of `__exit__` once that is
  taken, and shut once the relay is closed, which is what makes `Recheck` enough.
- `SolutionAuthoring_proofs`, any lists, texts and bounds: `TypesCorrect`,
  `ReportsStandForRuns`, `DueSubmissionsAreAllowed`,
  `AllowedSubmissionsAreValidated`, `AcceptedIsValidated`. `BaselineInv`: until the baseline
  is taken the live workspace is clean, and the copy is. `RunInv`: kept results and the
  result in the server's hands name a run of their list. `ReportInv`: identifiers are
  unique and the lines of the file are among the validations. `HookInv`: what the hook has read is
  still in the file, and what was due when it started is in what it has read, which is readable
  unless a line is broken off or the read fell into an append.
- `DataGen_proofs`, any jobs, namings and numbers of batches: `TypesCorrect`,
  `ReportHolds`, `CompletedHasOneTier`, `PackagesStay`, and `PublishedIsUntampered` (nothing
  whose protected inputs an agent changed is published). `CleanInv`: a tampered run never
  leaves Step 3. `StageInv` ties a job's stage to its outcome and its report line;
  `PackageInv` says that packages are of this batch or an earlier one and clean. Job by job,
  `OwnInv` says that a job which has moved no package has none published, `PresentInv` that one
  it has moved is there unless another job's overwrite took it, and `TierInv` that a job with a
  name of its own leaves one tier of it if it has swept the others, and without overwrite finds
  none. The lemma `JobStep`
  reduces every step to the effect it has on one job and on the
  directories of one name.

- `ToolGenBatch_proofs`, for any environments, versions, publishers, starts and crashes, and
  for `DeliveryPublish`, whose actions the batch runs: `TypeCorrect`, `PackagesHaveProfile`,
  `DeliveriesStay`, `LeavesNoToolGen`, `CompletedHasDeliveries`, `AttemptsAreFresh`.
  `PackageInv` says that a package was put in place whole by a publisher of its environment,
  and that one moved away is held by a publisher between its two renames; `ProfileInv` that from
  its check of the profile on a publisher was built with what the profile says. Of the batch,
  `AttemptInv` says which processes have not been started and what a worker about to start one
  knows of its attempt, `LogInv` that the numbers in a log end with the one on file as long as the
  file keeps it, while a worker about to start a process has a higher one,
  `ChildInv` that a live process which is not an orphan is watched by its worker or about to be,
  `MainInv` that workers are busy only while the main thread waits for them, and `EntryInv` that
  a success on record has a package in place, unless an orphan holds it or died with it.

The assumptions are the named `ASSUME`s of the modules (finite sets are not assumed
where the proofs do not need them), and hypotheses about `Faults` stand in the statement of
the theorem that needs them.

Only model-checked: all liveness properties (`BudgetStopsRun`,
`EveryCallAnswered`, `StopEndsRun`, `TripEndsBatch`, `StartupNotBlocked`, `QuietBatchEnds`, `Recovers`,
`BacksOff`, `AbandonedEnds`, `StopEndsBatch`, `BatchEnds`; fairness and `ENABLED` are out of
the prover's reach). For four of them invariants that they rest on are theorems:
`RefusalIsSeen`, `WaitingIsServed`, `OneStartup` with `PermitComesBack`. What `Total` sums over
a window of any length would need induction over data and is not proved either; the proof about
the controller does not depend on it.

## 5. Not modelled

- Formats, prompts, schemas, paths, logging: they decide whether a call succeeds,
  which is a free choice in the models.
- The private mode of `call_environment_tool` (copy, run, two renames), bubblewrap
  and Docker launchers, resource limits.
- Disk errors in the middle of a restore: they are reported as errors of the call and leave a
  state no property speaks of (a hazard without a property).
- The text of the marker files: that one is not parsable is the ending `other`.
- Malformed requests to the relay, which raise before the handler's `try`.
- A copy of the sources of a ToolGen batch that fails halfway.
- Snapshots and caches of the state; the migration of deliveries; the flock of a ToolGen
  batch, which keeps a second one out.
- The text of prompts and the checks of drafts, sources, packages and proposals, which are most of
  the code of the generators: their outcome is a free choice.
- Everything listed as `not_modelled` in `PROJECT.json`, each with its reason.

The models cover the control of the parts above, a small share of the repository's
lines. The rest is, by size, prompts and schema checks around a language model
(`task_gen/program/step_2_solution_generate.py` alone has 4475 lines), one-off scripts that
rebuild or repair data sets, viewers, and experiments with recorded data. It has no state
that several steps share and nothing that interleaves; a model of it would repeat its text.

## 6. Plan

Done: `ToolBudget` with `AtomicBudget`, `ToolTransaction` with `AtomicCalls`, `BatchDispatch`,
`AdaptiveConcurrency`, `CaseOutcome`, `StreamingRelay`, `DeliveryPublish` with `ToolGenBatch`,
`SolutionAuthoring`, `DataGen`. What is left, in this order:

1. The private mode of tool calls, whose two renames have the shape of `DeliveryPublish`.
2. The resume of the tool-graph pipeline from its progress files, and of the program pipeline
   from its latest bundle.
3. The cache of state snapshots against a process that outlived its tool.
4. Pure algorithms (windows of the data set, the report's sums) against reference definitions.
5. Invariants behind the remaining liveness properties, as for the four of section 4: the
   relay's `AbandonedEnds`, `StopEndsRun`, and the ends of the two generator batches.
