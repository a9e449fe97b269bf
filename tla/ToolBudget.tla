----------------------------- MODULE ToolBudget -----------------------------
(***************************************************************************)
(* The tool-call budget of one distillation run: the counter file that the *)
(* MCP server and the native-file hook processes share under flock         *)
(* (harness/tool_budget.py, harness/kimi_file_policy.py,                   *)
(* task_gen/task_eval_mcp.py), the stop marker they write when the budget  *)
(* is spent, and the monitor thread of distill/runner.py that kills the    *)
(* CLI's process group once the marker exists.                             *)
(***************************************************************************)
EXTENDS Integers, FiniteSets

CONSTANTS
  Proc,        \* the claimants: the MCP server and the hook processes
  Server,      \* the MCP server, the one claimant that outlives a call
  Limit,       \* max_tool_calls
  MaxCalls     \* bound: tool calls the CLI emits in one run

ASSUME BudgetAssumption ==
  /\ Server \in Proc
  /\ IsFiniteSet(Proc)
  /\ Limit \in Nat \ {0}
  /\ MaxCalls \in Nat

VARIABLES
  pc,          \* where each claimant stands in claim_tool_call and its caller
  seen,        \* the count a claimant read
  counter,     \* count in the counter file; an empty or unreadable file is 0
  lock,        \* claimants holding the exclusive flock
  marker,      \* does tool_budget_stop.json exist?
  emitted,     \* tool calls in the CLI's output stream
  cli,         \* the CLI process
  signalled,   \* has the process group received SIGTERM?
  mon,         \* the monitor thread
  granted,     \* history: calls allowed to run
  denied,      \* history: calls refused for the budget
  tears        \* history: claimants killed with the counter file truncated

claimVars == <<pc, seen, counter, lock, granted, denied, tears>>
runVars   == <<emitted, cli, signalled, mon>>
vars      == <<claimVars, marker, runVars>>

Holding == {"truncate", "store", "granted", "mark", "denied"}
Step    == Holding \cup {"idle", "wait", "remark", "dead"}
MonStep == {"head", "check", "look", "stopping", "done", "dead"}

TypeOK ==
  /\ pc \in [Proc -> Step]
  /\ seen \in [Proc -> 0..Limit]
  /\ counter \in 0..Limit
  /\ lock \in SUBSET Proc
  /\ marker \in BOOLEAN
  /\ emitted \in 0..MaxCalls
  /\ cli \in {"running", "exited"}
  /\ signalled \in BOOLEAN
  /\ mon \in MonStep
  /\ granted \in Nat
  /\ denied \in Nat
  /\ tears \in Nat

Init ==
  /\ pc = [p \in Proc |-> "idle"]
  /\ seen = [p \in Proc |-> 0]
  /\ counter = 0
  /\ lock = {}
  /\ marker = FALSE
  /\ emitted = 0
  /\ cli = "running"
  /\ signalled = FALSE
  /\ mon = "head"
  /\ granted = 0
  /\ denied = 0
  /\ tears = 0

(***************************************************************************)
(* Definitions named X_Y are X with the bug Y; they show that the          *)
(* properties below can fail.                                              *)
(*                                                                         *)
(* One claim.  The CLI emits a call and a claimant picks it up: the server *)
(* is sequential, a hook process lives for one claim.                      *)
(***************************************************************************)
Emit ==
  /\ cli = "running" /\ ~signalled
  /\ emitted < MaxCalls
  /\ emitted' = emitted + 1

Call(p) ==
  /\ pc[p] = "idle"
  /\ Emit
  /\ pc' = [pc EXCEPT ![p] = "wait"]
  /\ UNCHANGED <<seen, counter, lock, granted, denied, tears, marker, cli, signalled, mon>>

\* A call that claims nothing: a tool without a hook, or a path the file
\* policy has already refused.
UnclaimedCall ==
  /\ Emit
  /\ UNCHANGED <<claimVars, marker, cli, signalled, mon>>

LockFree_NoFlock == TRUE
LockFree == lock = {}

Exhausted_Early(count) == count + 1 >= Limit
Exhausted(count) == count >= Limit

Acquire(p) ==
  /\ pc[p] = "wait"
  /\ LockFree
  /\ lock' = lock \cup {p}
  /\ seen' = [seen EXCEPT ![p] = counter]
  /\ pc' = [pc EXCEPT ![p] = IF Exhausted(counter) THEN "mark" ELSE "truncate"]
  /\ UNCHANGED <<counter, granted, denied, tears, marker, runVars>>

Truncate(p) ==
  /\ pc[p] = "truncate"
  /\ counter' = 0
  /\ pc' = [pc EXCEPT ![p] = "store"]
  /\ UNCHANGED <<seen, lock, granted, denied, tears, marker, runVars>>

Store(p) ==
  /\ pc[p] = "store"
  /\ counter' = seen[p] + 1
  /\ pc' = [pc EXCEPT ![p] = "granted"]
  /\ UNCHANGED <<seen, lock, granted, denied, tears, marker, runVars>>

Grant(p) ==
  /\ pc[p] = "granted"
  /\ lock' = lock \ {p}
  /\ granted' = granted + 1
  /\ pc' = [pc EXCEPT ![p] = "idle"]
  /\ UNCHANGED <<seen, counter, denied, tears, marker, runVars>>

Mark_AfterTruncate(p) ==
  /\ pc[p] = "mark"
  /\ marker' = TRUE
  /\ counter' = 0
  /\ pc' = [pc EXCEPT ![p] = "denied"]
  /\ UNCHANGED <<seen, lock, granted, denied, tears, runVars>>

Mark_LeftToServer(p) ==
  /\ pc[p] = "mark"
  /\ pc' = [pc EXCEPT ![p] = "denied"]
  /\ UNCHANGED <<seen, counter, lock, granted, denied, tears, marker, runVars>>

\* write_text: the file exists from its opening on, which is all the monitor asks.
Mark(p) ==
  /\ pc[p] = "mark"
  /\ marker' = TRUE
  /\ pc' = [pc EXCEPT ![p] = "denied"]
  /\ UNCHANGED <<seen, counter, lock, granted, denied, tears, runVars>>

\* The MCP server writes the same marker a second time, without the lock.
Deny(p) ==
  /\ pc[p] = "denied"
  /\ lock' = lock \ {p}
  /\ denied' = denied + 1
  /\ pc' = [pc EXCEPT ![p] = IF p = Server THEN "remark" ELSE "idle"]
  /\ UNCHANGED <<seen, counter, granted, tears, marker, runVars>>

Remark ==
  /\ pc[Server] = "remark"
  /\ marker' = TRUE
  /\ pc' = [pc EXCEPT ![Server] = "idle"]
  /\ UNCHANGED <<seen, counter, lock, granted, denied, tears, runVars>>

(***************************************************************************)
(* A claimant dies: the kernel drops its flock, and a counter file it had  *)
(* truncated stays empty.                                                  *)
(***************************************************************************)
Die(p, next) ==
  /\ lock' = lock \ {p}
  /\ tears' = IF pc[p] = "store" THEN tears + 1 ELSE tears
  /\ pc' = [pc EXCEPT ![p] = next]
  /\ UNCHANGED <<seen, counter, granted, denied, marker, runVars>>

\* The CLI kills a hook that has not answered within its timeout of 5 s.
HookTimeout(p) ==
  /\ p # Server
  /\ pc[p] \notin {"idle", "dead"}
  /\ Die(p, "idle")

\* SIGTERM, or SIGKILL ten seconds later, reaches a claimant.
Killed(p) ==
  /\ signalled
  /\ pc[p] # "dead"
  /\ Die(p, "dead")

(***************************************************************************)
(* The monitor thread and the end of the run.                              *)
(***************************************************************************)
MonitorPoll ==
  /\ mon = "head"
  /\ mon' = IF cli = "running" THEN "check" ELSE "done"
  /\ UNCHANGED <<claimVars, marker, emitted, cli, signalled>>

Overrun == emitted > Limit

MonitorCount ==
  /\ mon = "check"
  /\ mon' = "look"
  /\ marker' = (marker \/ Overrun)
  /\ UNCHANGED <<claimVars, emitted, cli, signalled>>

MonitorStop_NoSignal ==
  /\ mon = "look"
  /\ mon' = IF marker THEN "stopping" ELSE "head"
  /\ UNCHANGED <<claimVars, marker, emitted, cli, signalled>>

MonitorStop ==
  /\ mon = "look"
  /\ mon' = IF marker THEN "stopping" ELSE "head"
  /\ signalled' = (signalled \/ marker)
  /\ UNCHANGED <<claimVars, marker, emitted, cli>>

\* The monitor's other reasons: an upstream stop, which it looks for first, or
\* errors of the environment, which it looks for last.
MonitorOtherStop ==
  /\ mon = "check" \/ (mon = "look" /\ ~marker)
  /\ mon' = "stopping"
  /\ signalled' = TRUE
  /\ UNCHANGED <<claimVars, marker, emitted, cli>>

\* Reading the trace while the server appends to it may raise (CaseOutcome).
MonitorDies ==
  /\ mon = "look" /\ ~marker
  /\ mon' = "dead"
  /\ UNCHANGED <<claimVars, marker, emitted, cli, signalled>>

MonitorReturn ==
  /\ mon = "stopping"
  /\ cli = "exited"
  /\ mon' = "done"
  /\ UNCHANGED <<claimVars, marker, emitted, cli, signalled>>

\* The CLI ends by itself once its calls are answered, or is killed.
CliExit ==
  /\ cli = "running"
  /\ signalled \/ \A p \in Proc : pc[p] = "idle"
  /\ cli' = "exited"
  /\ UNCHANGED <<claimVars, marker, emitted, signalled, mon>>

\* The runner has waited for the process and joined the monitor.
Finished == cli = "exited" /\ mon \in {"done", "dead"} /\ UNCHANGED vars

Claim(p) ==
  \/ Call(p) \/ Acquire(p) \/ Truncate(p) \/ Store(p) \/ Grant(p)
  \/ Mark(p) \/ Deny(p)

MonitorStepTaken ==
  MonitorPoll \/ MonitorCount \/ MonitorStop \/ MonitorReturn

Next ==
  \/ \E p \in Proc : Claim(p) \/ HookTimeout(p) \/ Killed(p)
  \/ Remark \/ UnclaimedCall
  \/ MonitorStepTaken \/ MonitorOtherStop \/ MonitorDies
  \/ CliExit \/ Finished

\* The monitor is a running thread until it returns or raises, and SIGKILL follows
\* SIGTERM: these steps are not optional.  Claims need no fairness.
Fairness ==
  /\ WF_vars(MonitorStepTaken)
  /\ WF_vars(signalled /\ CliExit)

Spec     == Init /\ [][Next]_vars
FairSpec == Spec /\ Fairness

-----------------------------------------------------------------------------
(***************************************************************************)
(* Properties.                                                             *)
(***************************************************************************)

\* The budget: no more calls run than max_tool_calls allows, except that every
\* claimant killed between ftruncate and write makes the count forget what it had
\* read, which is less than a full budget (claim_tool_call,
\* harness/tool_budget.py).  Needs the flock, the order of read and write, and
\* the comparison with the limit.
BudgetBound == granted <= Limit + (Limit - 1) * tears

\* Once a claimant was refused nobody is allowed again, whichever process asks and
\* whoever is killed: a claimant that sees the budget spent does not touch the
\* counter file, so the count of a spent budget is never lost.
NoGrantAfterDenial == [][denied > 0 => granted' = granted]_vars

\* A refused call ends the run: the marker is there for the monitor to see, as long
\* as the monitor thread lives (_monitor_environment_errors).
DenialStopsRun == denied > 0 ~> (cli = "exited" \/ mon = "dead")

\* So does a CLI that emits more calls than the budget, even when no claimant
\* saw the excess (calls without a hook are counted in the stream only).
OverrunStopsRun == emitted > Limit ~> (cli = "exited" \/ mon = "dead")

\* Either excess ends the run.
BudgetStopsRun == DenialStopsRun /\ OverrunStopsRun

\* No run is stopped for its budget unless it asked for more calls than the budget:
\* what a claimant found in the counter file were calls of this run, each counted
\* once (claim_tool_call).
BudgetStopJustified == marker => emitted > Limit

\* What a claim has counted takes effect when its claimant lets the lock go.
Counting == {p \in Proc : pc[p] \in {"truncate", "store", "granted"}}
Used == IF Counting = {} THEN counter ELSE seen[CHOOSE p \in Counting : TRUE]

\* The promise: claims of all processes take effect one at a time, and nobody is
\* refused before the stop marker is written.
Atomic == INSTANCE AtomicBudget WITH used <- Used
AtomicSpec == Atomic!Spec
=============================================================================
