-------------------------- MODULE ToolTransaction --------------------------
(***************************************************************************)
(* Environment tool calls of one distillation task: the serial MCP server  *)
(* (task_gen/task_eval_mcp.py), the transaction around each tool process   *)
(* (harness/execution.py, workspace mode; harness/sandbox.py,              *)
(* run_tool_direct), the tool's writes through the record store            *)
(* (utils/record_store.py), the CLI that gives up on a slow call, and the  *)
(* verifier that reads the final state (distill/taskgen_verifier.py).      *)
(*                                                                         *)
(* A tool leaves one file and commits two database transactions.  All rows *)
(* share their database pages, so a hot journal holds a whole older image. *)
(***************************************************************************)
EXTENDS FiniteSets

CONSTANTS
  Call,        \* the calls the model may make
  ReadOnly,    \* calls of tools that declare sideEffects = []
  None,        \* no call
  Faults,      \* what may go wrong around a tool process
  VerifyAfterEach  \* whether the run asks for a verdict

ASSUME CallAssumption ==
  /\ ReadOnly \subseteq Call
  /\ None \notin Call
  /\ Faults \subseteq {"kill_in_commit", "orphan", "exit_in_call", "late_error"}
  /\ VerifyAfterEach \in BOOLEAN

VARIABLES
  told,        \* what the CLI told the model of each call
  cli,         \* the CLI process
  inbox,       \* requests the server has not read; their order does not matter
  phase,       \* the server: where it stands in _call and call_environment_tool
  cur,         \* the call it serves
  wrote,       \* what the current tool process has written
  outcome,     \* how it ended
  saved,       \* the temporary backup
  files,       \* the workspace
  rows,        \* the database file
  journal,     \* {} or {the image the next writer rolls back to}
  orphans,     \* calls with a process that outlived its call
  busy,        \* the orphan inside a transaction, or None
  record,      \* how each call ended: with a line of success or failure in the
               \* trace, environment_tool_calls.jsonl, or "raised", without one
  evidence     \* what the verifier has read

client  == <<told, cli>>
disk    == <<files, rows, journal>>
others  == <<orphans, busy>>
vars    == <<told, cli, inbox, phase, cur, wrote, outcome, saved, files, rows,
             journal, orphans, busy, record, evidence>>

FileEffects == Call \X {"file"}
RowEffects  == Call \X {"first", "second"}
Effects     == Call \X {"file", "first", "second"}
Of(c)       == {c} \X {"file", "first", "second"}
Effect(c)   == IF c \in ReadOnly THEN {} ELSE Of(c)

Restoring == {"wipe", "refill", "redb"}
InTool    == {"run", "commit"}
Phase     == {"idle", "backup", "trace", "answer", "gone"} \cup InTool \cup Restoring

TypeOK ==
  /\ told \in [Call -> {"unsent", "waiting", "gave_up", "ok", "failed"}]
  /\ cli \in {"running", "exited"}
  /\ inbox \subseteq Call
  /\ phase \in Phase
  /\ cur \in Call \cup {None}
  /\ wrote \subseteq {"file", "first", "second"}
  /\ outcome \in {"none", "ok", "failed", "raised"}
  /\ saved \in [files: SUBSET FileEffects, rows: SUBSET RowEffects]
  /\ files \subseteq FileEffects
  /\ rows \subseteq RowEffects
  /\ journal \subseteq SUBSET RowEffects
  /\ orphans \subseteq Call
  /\ busy \in Call \cup {None}
  /\ record \in [Call -> {"none", "ok", "failed", "raised"}]
  /\ evidence \in [step: {"none", "trace", "rows", "done"}, calls: SUBSET Call,
                   rows: SUBSET RowEffects, files: SUBSET FileEffects]

NoBackup == [files |-> {}, rows |-> {}]

Init ==
  /\ told = [c \in Call |-> "unsent"]
  /\ cli = "running"
  /\ inbox = {}
  /\ phase = "idle"
  /\ cur = None
  /\ wrote = {}
  /\ outcome = "none"
  /\ saved = NoBackup
  /\ files = {} /\ rows = {} /\ journal = {}
  /\ orphans = {} /\ busy = None
  /\ record = [c \in Call |-> "none"]
  /\ evidence = [step |-> "none", calls |-> {}, rows |-> {}, files |-> {}]

(***************************************************************************)
(* The CLI.  Its own limit on a call is the tool timeout, counted from the *)
(* moment it sends the request: it may give up on a call the server is     *)
(* still serving, or has not started.                                      *)
(***************************************************************************)
Send(c) ==
  /\ cli = "running"
  /\ told[c] = "unsent"
  /\ told' = [told EXCEPT ![c] = "waiting"]
  /\ inbox' = inbox \cup {c}
  /\ UNCHANGED <<cli, phase, cur, wrote, outcome, saved, disk, others, record, evidence>>

GiveUp(c) ==
  /\ cli = "running"
  /\ told[c] = "waiting"
  /\ told' = [told EXCEPT ![c] = "gave_up"]
  /\ UNCHANGED <<cli, inbox, phase, cur, wrote, outcome, saved, disk, others, record, evidence>>

CliExit ==
  /\ cli = "running"
  /\ \A c \in Call : told[c] # "waiting"
  /\ "exit_in_call" \in Faults \/ (phase = "idle" /\ inbox = {})
  /\ cli' = "exited"
  /\ UNCHANGED <<told, inbox, phase, cur, wrote, outcome, saved, disk, others, record, evidence>>

(***************************************************************************)
(* The server takes one request at a time.  Some never reach a tool: a     *)
(* spent budget and arguments outside the schema leave a line of failure   *)
(* in the trace; an unknown tool, parameters that are no object, and       *)
(* arguments that cannot be normalised end in an exception, which is       *)
(* answered with an error and leaves no line.                              *)
(* Definitions named X_Y are X with the bug Y.                             *)
(***************************************************************************)
Receive(c) ==
  /\ phase = "idle" /\ c \in inbox
  /\ cur' = c
  /\ inbox' = inbox \ {c}
  /\ wrote' = {}
  /\ \/ phase' = (IF c \in ReadOnly THEN "run" ELSE "backup") /\ outcome' = "none"
     \/ phase' = "trace" /\ outcome' \in {"failed", "raised"}
  /\ UNCHANGED <<client, saved, disk, others, record, evidence>>

Backup_FilesOnly ==
  /\ phase = "backup"
  /\ saved' = [files |-> files, rows |-> saved.rows]
  /\ phase' = "run"
  /\ UNCHANGED <<client, inbox, cur, wrote, outcome, disk, others, record, evidence>>

\* The workspace is copied, then the database file; the journal is not.  A copy
\* that fails raises before the tool has run.
Backup ==
  /\ phase = "backup"
  /\ \/ /\ saved' = [files |-> files, rows |-> rows]
        /\ phase' = "run"
        /\ UNCHANGED outcome
     \/ /\ phase' = "trace" /\ outcome' = "raised"
        /\ UNCHANGED saved
  /\ UNCHANGED <<client, inbox, cur, wrote, disk, others, record, evidence>>

(***************************************************************************)
(* The tool process.  Every store operation opens its own connection: a    *)
(* writer that finds a hot journal first rolls the database back to it, a  *)
(* reader cannot and fails.  Another process in the middle of its          *)
(* transaction (busy) holds the lock: a writer cannot begin, nor a reader  *)
(* read.                                                                   *)
(***************************************************************************)
Recovered == IF journal = {} THEN rows ELSE UNION journal

WriteFile ==
  /\ phase = "run" /\ cur \notin ReadOnly
  /\ files' = files \cup {<<cur, "file">>}
  /\ wrote' = wrote \cup {"file"}
  /\ UNCHANGED <<client, inbox, phase, cur, outcome, saved, rows, journal, others, record, evidence>>

NextRow == IF "first" \in wrote THEN "second" ELSE "first"

BeginCommit ==
  /\ phase = "run" /\ cur \notin ReadOnly
  /\ busy = None
  /\ NextRow \notin wrote
  /\ journal' = {Recovered}
  /\ rows' = Recovered \cup {<<cur, NextRow>>}
  /\ phase' = "commit"
  /\ UNCHANGED <<client, inbox, cur, wrote, outcome, saved, files, others, record, evidence>>

EndCommit ==
  /\ phase = "commit"
  /\ journal' = {}
  /\ wrote' = wrote \cup {NextRow}
  /\ phase' = "run"
  /\ UNCHANGED <<client, inbox, cur, outcome, saved, files, rows, others, record, evidence>>

AfterTool_RestoreNothing(result) ==
  /\ outcome' = result
  /\ phase' = "trace"

\* What the server does once the tool process is over.
AfterTool(result) ==
  /\ outcome' = result
  /\ phase' = IF result = "ok" \/ cur \in ReadOnly THEN "trace" ELSE "wipe"

ToolSucceeds ==
  /\ phase = "run"
  /\ IF cur \in ReadOnly THEN journal = {} ELSE wrote = {"file", "first", "second"}
  /\ AfterTool("ok")
  /\ UNCHANGED <<client, inbox, cur, wrote, saved, disk, others, record, evidence>>

\* An exception, success # true, a result outside the output schema, a limit; or
\* an exception in the server itself, which restores as well and then goes on up.
ToolFails ==
  /\ phase = "run"
  /\ \E result \in {"failed", "raised"} : AfterTool(result)
  /\ UNCHANGED <<client, inbox, cur, wrote, saved, disk, others, record, evidence>>

ToolTimeout_Never == FALSE /\ UNCHANGED vars

\* subprocess.run kills the tool process, and only that process.
ToolTimeout ==
  /\ phase \in InTool
  /\ AfterTool("failed")
  /\ \/ /\ phase = "run" \/ "kill_in_commit" \in Faults
        /\ UNCHANGED others
     \/ /\ "orphan" \in Faults /\ cur \notin ReadOnly
        /\ orphans' = orphans \cup {cur}
        /\ busy' = IF phase = "commit" THEN cur ELSE busy
  /\ UNCHANGED <<client, inbox, cur, wrote, saved, disk, record, evidence>>

(***************************************************************************)
(* What outlives its call goes on with it: it writes its file and commits  *)
(* rows, under the rules of the tool itself, for as long as it likes.  The *)
(* database a restore has put back under its transaction is overwritten by *)
(* the pages it had not written yet, or stays if there were none.          *)
(***************************************************************************)
\* Its rows are not told apart: one stands for those it may write.
OrphanRows(c) == {<<c, "second">>}

OrphanWrites(c) ==
  /\ c \in orphans
  /\ files' = files \cup {<<c, "file">>}
  /\ UNCHANGED <<client, inbox, phase, cur, wrote, outcome, saved, rows, journal, others, record, evidence>>

OrphanBegins(c) ==
  /\ c \in orphans
  /\ busy = None /\ phase # "commit"
  /\ journal' = {Recovered}
  /\ rows' = Recovered \cup OrphanRows(c)
  /\ busy' = c
  /\ UNCHANGED <<client, inbox, phase, cur, wrote, outcome, saved, files, orphans, record, evidence>>

OrphanCommits(c) ==
  /\ busy = c
  /\ rows' \in {rows, Recovered \cup OrphanRows(c)}
  /\ journal' = {}
  /\ busy' = None
  /\ UNCHANGED <<client, inbox, phase, cur, wrote, outcome, saved, files, orphans, record, evidence>>

OrphanEnds(c) ==
  /\ c \in orphans
  /\ orphans' = orphans \ {c}
  /\ busy' = IF busy = c THEN None ELSE busy
  /\ UNCHANGED <<client, inbox, phase, cur, wrote, outcome, saved, disk, record, evidence>>

Orphan(c) == OrphanWrites(c) \/ OrphanBegins(c) \/ OrphanCommits(c) \/ OrphanEnds(c)

(***************************************************************************)
(* The failed call is undone: delete what the workspace holds, copy the    *)
(* backup in, copy the database back.  The journal file is not touched,    *)
(* and no lock is asked for.                                               *)
(***************************************************************************)
Wipe_Skipped ==
  /\ phase = "wipe"
  /\ phase' = "refill"
  /\ UNCHANGED <<client, inbox, cur, wrote, outcome, saved, disk, others, record, evidence>>

Wipe ==
  /\ phase = "wipe"
  /\ files' = {}
  /\ phase' = "refill"
  /\ UNCHANGED <<client, inbox, cur, wrote, outcome, saved, rows, journal, others, record, evidence>>

Refill_Skipped ==
  /\ phase = "refill"
  /\ phase' = "redb"
  /\ UNCHANGED <<client, inbox, cur, wrote, outcome, saved, disk, others, record, evidence>>

Refill ==
  /\ phase = "refill"
  /\ files' = files \cup saved.files
  /\ phase' = "redb"
  /\ UNCHANGED <<client, inbox, cur, wrote, outcome, saved, rows, journal, others, record, evidence>>

RestoreRows ==
  /\ phase = "redb"
  /\ rows' = saved.rows
  /\ phase' = "trace"
  /\ UNCHANGED <<client, inbox, cur, wrote, outcome, saved, files, journal, others, record, evidence>>

\* The line in the trace.  What raises after the tool's end and is not undone
\* (removing the backup, encoding the result, the append itself) leaves none.
WriteTrace ==
  /\ phase = "trace"
  /\ outcome' \in {outcome} \cup (IF "late_error" \in Faults THEN {"raised"} ELSE {})
  /\ record' = [record EXCEPT ![cur] = outcome']
  /\ saved' = NoBackup /\ wrote' = {}
  /\ phase' = "answer"
  /\ UNCHANGED <<client, inbox, cur, disk, others, evidence>>

\* The answer does not say whether the trace has a line.
Reply == IF outcome = "ok" THEN "ok" ELSE "failed"

Answer_WrongRequest ==
  /\ phase = "answer"
  /\ \E c \in Call : told[c] = "waiting" /\ told' = [told EXCEPT ![c] = Reply]
  /\ phase' = IF cli = "running" THEN "idle" ELSE "gone"
  /\ cur' = None /\ outcome' = "none"
  /\ UNCHANGED <<cli, inbox, wrote, saved, disk, others, record, evidence>>

\* A late answer is dropped by the CLI; without a CLI the pipe is broken.
Answer ==
  /\ phase = "answer"
  /\ told' = IF told[cur] = "waiting" THEN [told EXCEPT ![cur] = Reply] ELSE told
  /\ phase' = IF cli = "running" THEN "idle" ELSE "gone"
  /\ cur' = None /\ outcome' = "none"
  /\ UNCHANGED <<cli, inbox, wrote, saved, disk, others, record, evidence>>

\* End of input on stdin.
ServerEnds ==
  /\ phase = "idle" /\ cli = "exited" /\ inbox = {}
  /\ phase' = "gone"
  /\ UNCHANGED <<client, inbox, cur, wrote, outcome, saved, disk, others, record, evidence>>

\* A CLI that exits takes its MCP server with it; a running tool stays behind.
ServerKilled ==
  /\ cli = "exited" /\ phase # "gone"
  /\ "exit_in_call" \in Faults
  /\ phase' = "gone"
  /\ IF phase \in InTool /\ cur \notin ReadOnly
     THEN /\ orphans' = orphans \cup {cur}
          /\ busy' = IF phase = "commit" THEN cur ELSE busy
     ELSE UNCHANGED others
  /\ cur' = None /\ wrote' = {} /\ outcome' = "none" /\ saved' = NoBackup
  /\ UNCHANGED <<client, inbox, disk, record, evidence>>

(***************************************************************************)
(* The verifier, once the CLI has exited: the trace, then the database     *)
(* file as it is, then the workspace.                                      *)
(***************************************************************************)
Recorded(result) == {c \in Call : record[c] = result}

ReadTrace ==
  /\ VerifyAfterEach
  /\ cli = "exited" /\ evidence.step = "none"
  /\ evidence' = [evidence EXCEPT !.step = "trace", !.calls = Recorded("ok")]
  /\ UNCHANGED <<client, inbox, phase, cur, wrote, outcome, saved, disk, others, record>>

ReadRows ==
  /\ evidence.step = "trace"
  /\ evidence' = [evidence EXCEPT !.step = "rows", !.rows = rows]
  /\ UNCHANGED <<client, inbox, phase, cur, wrote, outcome, saved, disk, others, record>>

ReadFiles ==
  /\ evidence.step = "rows"
  /\ evidence' = [evidence EXCEPT !.step = "done", !.files = files]
  /\ UNCHANGED <<client, inbox, phase, cur, wrote, outcome, saved, disk, others, record>>

Finished ==
  /\ phase = "gone"
  /\ VerifyAfterEach => evidence.step = "done"
  /\ UNCHANGED vars

Serve ==
  \/ \E c \in Call : Receive(c)
  \/ Backup \/ ToolTimeout \/ Wipe \/ Refill \/ RestoreRows
  \/ WriteTrace \/ Answer \/ ServerEnds

Tool == WriteFile \/ BeginCommit \/ EndCommit \/ ToolSucceeds \/ ToolFails

Verify == ReadTrace \/ ReadRows \/ ReadFiles

Next ==
  \/ \E c \in Call : Send(c) \/ GiveUp(c) \/ Orphan(c)
  \/ CliExit \/ Serve \/ Tool \/ ServerKilled \/ Verify \/ Finished

\* The server runs and subprocess.run enforces its timeout; a tool may hang.
Spec     == Init /\ [][Next]_vars
FairSpec == Spec /\ WF_vars(Serve)

-----------------------------------------------------------------------------
(***************************************************************************)
(* Properties.                                                             *)
(***************************************************************************)

\* The calls that ended without success, on record or not.
Failed == Recorded("failed") \cup Recorded("raised")

\* A call that failed has left no file behind, whatever came later: the restore
\* of call_environment_tool is complete and stays so.
FailedCallsLeaveNoFiles ==
  \A c \in Failed : <<c, "file">> \notin files

\* Nor a row, in the database as the next writer will find it.
FailedCallsLeaveNoRows ==
  \A c \in Failed : Recovered \cap Of(c) = {}

\* A failed call leaves nothing, in the workspace or in the database.
FailedCallsLeaveNothing == FailedCallsLeaveNoFiles /\ FailedCallsLeaveNoRows

\* For as long as there is a server, what a successful call left survives every
\* later call, failed or not; while a failed call is being undone it is in the
\* backup.
SuccessKept ==
  phase # "gone" =>
    \A c \in Recorded("ok") :
      Effect(c) \subseteq IF phase \in Restoring THEN saved.files \cup saved.rows
                                                 ELSE files \cup Recovered

\* The effects of exactly the calls recorded as successful.
Committed == UNION {Effect(c) : c \in Recorded("ok")}

\* A read-only tool works on the live state, without a copy: it never sees a
\* part of a call.
ReadersSeeCommitted ==
  phase = "run" /\ cur \in ReadOnly => files \cup rows = Committed

\* The verifier's copy of the final state is the one the trace accounts for
\* (reconstruct_actual_state, distill/taskgen_verifier.py).
VerifierSeesCommitted ==
  evidence.step = "done" =>
    evidence.rows \cup evidence.files = UNION {Effect(c) : c \in evidence.calls}

\* Whoever looks at the state from outside a call sees whole calls.
ObserversSeeCommitted == ReadersSeeCommitted /\ VerifierSeesCommitted

\* Whatever goes wrong, the model is told of a success exactly when the trace has
\* its line; a call answered with an error has a line of failure or none, never
\* one of success.  A call the CLI gave up on may still take effect.
AnswersMatchTrace ==
  \A c \in Call :
    /\ told[c] = "ok" => c \in Recorded("ok")
    /\ told[c] = "failed" => c \in Failed

\* No call hangs: the tool timeout bounds it even when the CLI never gives up.
EveryCallAnswered ==
  \A c \in Call : told[c] = "waiting" ~> told[c] # "waiting"

\* The promise: calls take effect atomically and are recorded truthfully.
InTransaction == phase \in InTool \cup Restoring /\ cur \notin ReadOnly
Stable == IF InTransaction THEN saved.files \cup saved.rows ELSE files \cup Recovered

Atomic == INSTANCE AtomicCalls WITH state <- Stable, record <- record
AtomicSpec == Atomic!Spec
=============================================================================
