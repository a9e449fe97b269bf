----------------------- MODULE ToolTransaction_proofs -----------------------
(***************************************************************************)
(* Proofs about ToolTransaction, for any number of calls.  Whatever goes   *)
(* wrong, states are well typed, answers agree with the trace and what a   *)
(* successful call left stays.  Each further property is proved without    *)
(* the faults that break it and with the others: a commit that is          *)
(* interrupted harms only rows, a process that outlives its tool and an    *)
(* error after the tool's success harm files and rows, and an exit of the  *)
(* CLI in a call only what the verifier sees.  Without any fault the tool  *)
(* calls of a task are atomic: ToolTransaction implements AtomicCalls.     *)
(***************************************************************************)
EXTENDS ToolTransaction, TLAPS

-----------------------------------------------------------------------------
(***************************************************************************)
(* Whatever goes wrong: one call is served at a time, from a request that  *)
(* was sent, is recorded once, and nothing else is answered.               *)
(***************************************************************************)
Idle    == {"idle", "gone"}
Serving == phase \notin Idle

ServingInv ==
  /\ Serving => cur \in Call /\ cur \notin inbox /\ told[cur] # "unsent"
  /\ Serving /\ phase # "answer" => record[cur] = "none"
  /\ phase \in Restoring \cup {"trace", "answer"} => outcome \in {"ok", "failed", "raised"}
  /\ phase = "answer" => record[cur] = outcome

RequestInv ==
  \A c \in Call :
    /\ c \in inbox => record[c] = "none" /\ told[c] # "unsent"
    /\ told[c] = "unsent" => record[c] = "none"
    /\ told[c] = "ok" => record[c] = "ok"
    /\ told[c] = "failed" => record[c] \in {"failed", "raised"}

CallInv == TypeOK /\ ServingInv /\ RequestInv

LEMMA InitCall == Init => CallInv
<1> SUFFICES ASSUME Init PROVE CallInv
  OBVIOUS
<1>1. TypeOK
  BY CallAssumption DEF Init, NoBackup, TypeOK, Phase, FileEffects, RowEffects, InTool, Restoring
<1>2. ServingInv /\ RequestInv
  BY DEF Init, ServingInv, RequestInv, Serving, Idle, Restoring
<1> QED
  BY <1>1, <1>2 DEF CallInv

LEMMA RecoveredType == TypeOK => Recovered \subseteq RowEffects
BY DEF TypeOK, Recovered

LEMMA EffectTypes ==
  ASSUME NEW c \in Call
  PROVE  /\ <<c, "file">> \in FileEffects
         /\ <<c, "first">> \in RowEffects /\ <<c, "second">> \in RowEffects
BY DEF FileEffects, RowEffects

LEMMA NextCall == CallInv /\ [Next]_vars => CallInv'
<1> SUFFICES ASSUME TypeOK, ServingInv, RequestInv, [Next]_vars
             PROVE  TypeOK' /\ ServingInv' /\ RequestInv'
  BY DEF CallInv
<1> USE CallAssumption DEF client, disk, others, Phase, InTool, Restoring, Serving, Idle
<1>1. ASSUME NEW c \in Call, Send(c) \/ GiveUp(c)
      PROVE  TypeOK' /\ ServingInv' /\ RequestInv'
  <2>1. TypeOK'
    BY <1>1 DEF Send, GiveUp, TypeOK
  <2>2. ServingInv'
    BY <1>1 DEF Send, GiveUp, TypeOK, ServingInv
  <2>3. RequestInv'
    BY <1>1 DEF Send, GiveUp, TypeOK, RequestInv
  <2> QED BY <2>1, <2>2, <2>3
<1>2. ASSUME NEW c \in Call, Receive(c)
      PROVE  TypeOK' /\ ServingInv' /\ RequestInv'
  <2>1. TypeOK'
    BY <1>2 DEF Receive, TypeOK
  <2>2. ServingInv'
    BY <1>2 DEF Receive, TypeOK, ServingInv, RequestInv
  <2>3. RequestInv'
    BY <1>2 DEF Receive, RequestInv
  <2> QED BY <2>1, <2>2, <2>3
<1>3. CASE ToolTimeout \/ ToolSucceeds \/ ToolFails
  <2>1. TypeOK'
    <3>1. CASE ToolTimeout
      <4>1. orphans' \subseteq Call /\ busy' \in Call \cup {None}
        BY <3>1 DEF ToolTimeout, TypeOK, ServingInv
      <4> QED BY <3>1, <4>1 DEF ToolTimeout, AfterTool, TypeOK
    <3>2. CASE ToolSucceeds \/ ToolFails
      BY <3>2 DEF ToolSucceeds, ToolFails, AfterTool, TypeOK
    <3> QED BY <1>3, <3>1, <3>2
  <2>2. ServingInv'
    BY <1>3 DEF ToolTimeout, ToolSucceeds, ToolFails, AfterTool, ServingInv
  <2>3. RequestInv'
    BY <1>3 DEF ToolTimeout, ToolSucceeds, ToolFails, RequestInv
  <2> QED BY <2>1, <2>2, <2>3
<1>4. CASE WriteFile \/ BeginCommit \/ EndCommit
  <2>0. cur \in Call
    BY <1>4 DEF WriteFile, BeginCommit, EndCommit, ServingInv
  <2>1. TypeOK'
    <3>1. CASE WriteFile
      BY <2>0, <3>1, EffectTypes DEF WriteFile, TypeOK
    <3>2. CASE BeginCommit
      <4>1. /\ rows' \subseteq RowEffects
            /\ journal' \subseteq SUBSET RowEffects
        BY <2>0, <3>2, EffectTypes, RecoveredType DEF BeginCommit, NextRow
      <4> QED BY <3>2, <4>1 DEF BeginCommit, TypeOK
    <3>3. CASE EndCommit
      BY <3>3 DEF EndCommit, NextRow, TypeOK
    <3> QED BY <1>4, <3>1, <3>2, <3>3
  <2>2. ServingInv'
    BY <1>4 DEF WriteFile, BeginCommit, EndCommit, ServingInv
  <2>3. RequestInv'
    BY <1>4 DEF WriteFile, BeginCommit, EndCommit, RequestInv
  <2> QED BY <2>1, <2>2, <2>3
<1>5. CASE Backup \/ Wipe \/ Refill \/ RestoreRows
  <2>1. TypeOK'
    <3>1. CASE Backup
      BY <3>1 DEF Backup, TypeOK
    <3>2. CASE Wipe \/ Refill \/ RestoreRows
      BY <3>2 DEF Wipe, Refill, RestoreRows, TypeOK
    <3> QED BY <1>5, <3>1, <3>2
  <2>2. ServingInv'
    BY <1>5 DEF Backup, Wipe, Refill, RestoreRows, ServingInv
  <2>3. RequestInv'
    BY <1>5 DEF Backup, Wipe, Refill, RestoreRows, RequestInv
  <2> QED BY <2>1, <2>2, <2>3
<1>6. CASE WriteTrace
  <2>1. TypeOK'
    BY <1>6 DEF WriteTrace, NoBackup, TypeOK, ServingInv
  <2>2. ServingInv'
    BY <1>6 DEF WriteTrace, TypeOK, ServingInv
  <2>3. RequestInv'
    BY <1>6 DEF WriteTrace, TypeOK, ServingInv, RequestInv
  <2> QED BY <2>1, <2>2, <2>3
<1>7. CASE Answer
  <2>1. TypeOK'
    BY <1>7 DEF Answer, Reply, TypeOK, ServingInv
  <2>2. ServingInv'
    BY <1>7 DEF Answer, ServingInv
  <2>3. RequestInv'
    BY <1>7 DEF Answer, Reply, TypeOK, ServingInv, RequestInv
  <2> QED BY <2>1, <2>2, <2>3
<1>8. ASSUME \/ CliExit \/ ServerEnds \/ ServerKilled \/ Verify \/ Finished \/ UNCHANGED vars
             \/ \E c \in Call : Orphan(c)
      PROVE  TypeOK' /\ ServingInv' /\ RequestInv'
  <2> USE DEF CliExit, ServerEnds, ServerKilled, Verify, ReadTrace, ReadRows,
                   ReadFiles, Finished, Orphan, OrphanWrites, OrphanBegins, OrphanCommits,
                   OrphanEnds, vars
  <2>1. TypeOK'
    <3>1. CASE CliExit \/ ServerEnds \/ Finished \/ UNCHANGED vars
      BY <3>1 DEF TypeOK
    <3>2. CASE ServerKilled
      <4>1. orphans' \subseteq Call /\ busy' \in Call \cup {None}
        BY <3>2 DEF TypeOK, ServingInv
      <4> QED BY <3>2, <4>1 DEF NoBackup, TypeOK
    <3>3. CASE Verify
      <4>1. Recorded("ok") \subseteq Call
        BY DEF Recorded
      <4>2. CASE ReadTrace
        BY <4>1, <4>2 DEF TypeOK
      <4>3. CASE ReadRows
        BY <4>3 DEF TypeOK
      <4>4. CASE ReadFiles
        BY <4>4 DEF TypeOK
      <4> QED BY <3>3, <4>2, <4>3, <4>4
    <3>4. ASSUME NEW c \in Call, Orphan(c) PROVE TypeOK'
      <4>1. CASE OrphanWrites(c)
        <5>1. files' \subseteq FileEffects
          BY <4>1, EffectTypes DEF TypeOK
        <5> QED BY <4>1, <5>1 DEF TypeOK
      <4>2. CASE OrphanBegins(c) \/ OrphanCommits(c)
        <5>0. Recovered \subseteq RowEffects /\ Recovered \cup OrphanRows(c) \subseteq RowEffects
          BY EffectTypes, RecoveredType DEF OrphanRows
        <5>1. rows' \subseteq RowEffects /\ journal' \subseteq SUBSET RowEffects
          BY <4>2, <5>0 DEF TypeOK
        <5>2. busy' \in Call \cup {None}
          BY <4>2
        <5> QED BY <4>2, <5>1, <5>2 DEF TypeOK
      <4>3. CASE OrphanEnds(c)
        <5>1. orphans' \subseteq Call
          BY <4>3 DEF TypeOK
        <5> QED BY <4>3, <5>1 DEF TypeOK
      <4> QED BY <3>4, <4>1, <4>2, <4>3
    <3> QED BY <1>8, <3>1, <3>2, <3>3, <3>4
  <2>2. ServingInv'
    BY <1>8 DEF ServingInv
  <2>3. RequestInv'
    BY <1>8 DEF RequestInv
  <2> QED BY <2>1, <2>2, <2>3
<1> QED
  BY <1>1, <1>2, <1>3, <1>4, <1>5, <1>6, <1>7, <1>8 DEF Next, Serve, Tool

LEMMA AlwaysCall == Spec => []CallInv
BY InitCall, NextCall, PTL DEF Spec

\* Every state is well typed; in particular the server never serves no call,
\* and no call ends without an outcome (TaskEvalMcpServer._call).
THEOREM TypeCorrect == Spec => []TypeOK
<1>1. CallInv => TypeOK
  BY DEF CallInv
<1> QED
  BY <1>1, AlwaysCall, PTL

\* Under every fault, also for calls that end without a line in the trace: the CLI
\* is told of a success only when environment_tool_calls.jsonl has it, and of an
\* error only when it has no success (TaskEvalMcpServer._call, serve_jsonrpc).
THEOREM TruthfulAnswers == Spec => []AnswersMatchTrace
<1>1. CallInv => AnswersMatchTrace
  BY DEF CallInv, RequestInv, AnswersMatchTrace, Failed, Recorded
<1> QED
  BY <1>1, AlwaysCall, PTL

-----------------------------------------------------------------------------
(***************************************************************************)
(* What EveryCallAnswered rests on: no request gets lost.                  *)
(***************************************************************************)
WaitingInv ==
  \A c \in Call : told[c] = "waiting" => cli = "running" /\ (c \in inbox \/ (Serving /\ cur = c))

LEMMA NextWaiting ==
  ASSUME CallInv, WaitingInv, [Next]_vars
  PROVE  WaitingInv'
<1> USE DEF client, disk, others, WaitingInv, Serving, Idle, InTool, Restoring, CallInv, TypeOK
<1>1. ASSUME NEW c \in Call, Send(c) \/ GiveUp(c) \/ Receive(c) \/ Orphan(c)
      PROVE  WaitingInv'
  BY <1>1 DEF Send, GiveUp, Receive, Orphan, OrphanWrites, OrphanBegins, OrphanCommits, OrphanEnds
<1>2. CASE Answer
  <2>1. told'[cur] # "waiting" /\ cur \in Call /\ cli = cli' /\ inbox = inbox'
    BY <1>2 DEF Answer, Reply, ServingInv
  <2> QED
    BY <1>2, <2>1 DEF Answer
<1>3. ASSUME \/ Backup \/ ToolTimeout \/ Wipe \/ Refill \/ RestoreRows \/ WriteTrace \/ Tool
      PROVE  WaitingInv'
  BY <1>3 DEF Backup, ToolTimeout, Wipe, Refill, RestoreRows, WriteTrace, Tool, WriteFile,
     BeginCommit, EndCommit, ToolSucceeds, ToolFails, AfterTool
<1>4. ASSUME CliExit \/ ServerEnds \/ ServerKilled \/ Verify \/ Finished \/ UNCHANGED vars
      PROVE  WaitingInv'
  BY <1>4 DEF CliExit, ServerEnds, ServerKilled, Verify, ReadTrace, ReadRows, ReadFiles,
     Finished, vars
<1> QED
  BY <1>1, <1>2, <1>3, <1>4 DEF Next, Serve

\* Whatever goes wrong, a call the CLI waits for is in the server's hands: still
\* to be read, or being served (main loop and _call, task_gen/task_eval_mcp.py);
\* in particular none waits for a server that is gone.
THEOREM WaitingIsServed ==
  Spec => [](\A c \in Call : told[c] = "waiting" => c \in inbox \/ (Serving /\ cur = c))
<1>1. Init => WaitingInv
  BY DEF Init, WaitingInv
<1>2. WaitingInv => \A c \in Call : told[c] = "waiting" => c \in inbox \/ (Serving /\ cur = c)
  BY DEF WaitingInv
<1> QED
  BY <1>1, <1>2, NextWaiting, AlwaysCall, PTL DEF Spec

-----------------------------------------------------------------------------
(***************************************************************************)
(* What a failed call left.  Of a set of effects: it holds nothing of a    *)
(* failed call, and, while there is a server, only effects of successful   *)
(* calls and perhaps of the one being served.  A tool the CLI's exit left  *)
(* behind belongs to a call that will never end.                           *)
(***************************************************************************)
Part == {"file", "first", "second"}

NoneFailed(es) ==
  \A c \in Call : record[c] \in {"failed", "raised"} => \A part \in Part : <<c, part>> \notin es

OnlyGood(es, own) ==
  \A c \in Call : \A part \in Part :
    <<c, part>> \in es => record[c] = "ok" \/ (c = cur /\ cur \notin ReadOnly /\ own)

Succeeded == phase = "trace" /\ outcome = "ok"

\* Only writing calls are undone, and only after a failure.
UndoInv ==
  /\ phase \in Restoring \cup {"commit", "backup"} => cur \notin ReadOnly
  /\ phase \in Restoring => outcome \in {"failed", "raised"}

FilesInv ==
  /\ UndoInv
  /\ NoneFailed(files)
  /\ \A c \in orphans : record[c] = "none"
  /\ phase # "gone" =>
       /\ orphans = {}
       /\ OnlyGood(files, phase \in InTool \cup {"wipe"} \/ Succeeded)
  /\ InTransaction => OnlyGood(saved.files, FALSE)

RowsInv ==
  /\ UndoInv
  /\ \A c \in orphans : record[c] = "none"
  /\ busy # None => record[busy] = "none"
  /\ NoneFailed(rows) /\ \A image \in journal : NoneFailed(image)
  /\ phase # "gone" =>
       /\ orphans = {} /\ busy = None
       /\ journal # {} => phase = "commit"
       /\ OnlyGood(rows, phase \in InTool \cup Restoring \/ Succeeded)
       /\ \A image \in journal : OnlyGood(image, TRUE)
  /\ InTransaction => OnlyGood(saved.rows, FALSE)

LEMMA InitFailed == Init => FilesInv /\ RowsInv
BY DEF Init, NoBackup, FilesInv, RowsInv, UndoInv, NoneFailed, OnlyGood, InTransaction, InTool, Restoring

LEMMA NextUndo ==
  ASSUME CallInv, UndoInv, [Next]_vars
  PROVE  UndoInv'
<1> USE DEF client, disk, others, Restoring, UndoInv
<1>1. ASSUME \/ \E c \in Call : Send(c) \/ GiveUp(c) \/ Orphan(c) \/ Receive(c)
             \/ Backup \/ Wipe \/ Refill \/ RestoreRows \/ WriteTrace \/ Answer \/ ServerEnds
      PROVE  UndoInv'
  BY <1>1 DEF Send, GiveUp, Orphan, OrphanWrites, OrphanBegins, OrphanCommits, OrphanEnds, Receive, Backup, Wipe, Refill, RestoreRows, WriteTrace,
     Answer, ServerEnds
<1>2. ASSUME ToolTimeout \/ Tool PROVE UndoInv'
  BY <1>2 DEF ToolTimeout, Tool, WriteFile, BeginCommit, EndCommit, ToolSucceeds, ToolFails, AfterTool
<1>3. ASSUME ServerKilled \/ CliExit \/ Verify \/ Finished \/ UNCHANGED vars PROVE UndoInv'
  BY <1>3 DEF ServerKilled, CliExit, Verify, ReadTrace, ReadRows, ReadFiles, Finished, vars
<1> QED
  BY <1>1, <1>2, <1>3 DEF Next, Serve

LEMMA NextFiles ==
  ASSUME Faults \subseteq {"kill_in_commit", "exit_in_call"}, CallInv, FilesInv, [Next]_vars
  PROVE  FilesInv'
<1> USE DEF client, disk, others, Phase, InTool, Restoring, Serving, Idle, InTransaction, NoneFailed,
            OnlyGood, Succeeded
<1>0. TypeOK /\ ServingInv /\ RequestInv /\ FilesInv /\ UndoInv /\ UndoInv'
  BY NextUndo DEF CallInv, FilesInv
<1>1. ASSUME NEW c \in Call, Send(c) \/ GiveUp(c) \/ Receive(c)
      PROVE  FilesInv'
  <2>1. CASE Receive(c)
    BY <1>0, <2>1 DEF Receive, FilesInv, RequestInv
  <2>2. CASE Send(c) \/ GiveUp(c)
    BY <1>0, <2>2 DEF Send, GiveUp, FilesInv
  <2> QED BY <1>1, <2>1, <2>2
<1>2. ASSUME NEW c \in Call, Orphan(c)
      PROVE  FilesInv'
  BY <1>0, <1>2 DEF Orphan, OrphanWrites, OrphanBegins, OrphanCommits, OrphanEnds, FilesInv
<1>3. CASE Backup
  BY <1>0, <1>3 DEF Backup, FilesInv
<1>4. CASE WriteFile
  BY <1>0, <1>4 DEF WriteFile, FilesInv, ServingInv
<1>5. CASE BeginCommit \/ EndCommit
  BY <1>0, <1>5 DEF BeginCommit, EndCommit, FilesInv
<1>6. CASE ToolSucceeds \/ ToolFails \/ ToolTimeout
  BY <1>0, <1>6 DEF ToolSucceeds, ToolFails, ToolTimeout, AfterTool, FilesInv
<1>7. CASE Wipe \/ Refill \/ RestoreRows
  BY <1>0, <1>7 DEF Wipe, Refill, RestoreRows, FilesInv, UndoInv
<1>8. CASE WriteTrace
  <2>1. /\ cur \in Call /\ record'[cur] = outcome /\ outcome' = outcome
        /\ \A c \in Call : c # cur => record'[c] = record[c]
    BY <1>0, <1>8 DEF WriteTrace, ServingInv, TypeOK
  <2> QED
    BY <1>0, <1>8, <2>1 DEF WriteTrace, FilesInv, ServingInv
<1>9. CASE ServerKilled
  BY <1>0, <1>9 DEF ServerKilled, FilesInv, ServingInv
<1>10. CASE Answer \/ ServerEnds \/ CliExit \/ Verify \/ Finished \/ UNCHANGED vars
  BY <1>0, <1>10 DEF Answer, ServerEnds, CliExit, Verify, ReadTrace, ReadRows, ReadFiles,
     Finished, vars, FilesInv
<1> QED
  BY <1>1, <1>2, <1>3, <1>4, <1>5, <1>6, <1>7, <1>8, <1>9, <1>10 DEF Next, Serve, Tool

LEMMA NextRows ==
  ASSUME Faults \subseteq {"exit_in_call"}, CallInv, RowsInv, [Next]_vars
  PROVE  RowsInv'
<1> USE DEF client, disk, others, Phase, InTool, Restoring, Serving, Idle, InTransaction, NoneFailed,
            OnlyGood, Succeeded
<1>0. TypeOK /\ ServingInv /\ RequestInv /\ RowsInv /\ UndoInv /\ UndoInv'
  BY NextUndo DEF CallInv, RowsInv
<1>1. ASSUME NEW c \in Call, Send(c) \/ GiveUp(c) \/ Orphan(c) \/ Receive(c)
      PROVE  RowsInv'
  <2>1. CASE Receive(c)
    BY <1>0, <2>1 DEF Receive, RowsInv, RequestInv
  <2>2. CASE Send(c) \/ GiveUp(c) \/ OrphanWrites(c) \/ OrphanEnds(c)
    BY <1>0, <2>2 DEF Send, GiveUp, OrphanWrites, OrphanEnds, RowsInv
  <2>3. CASE OrphanBegins(c) \/ OrphanCommits(c)
    <3>1. phase = "gone" /\ record[c] = "none"
      BY <1>0, <2>3, CallAssumption DEF OrphanBegins, OrphanCommits, RowsInv
    <3>2. NoneFailed(Recovered)
      BY <1>0 DEF RowsInv, Recovered
    <3>3. NoneFailed(Recovered \cup OrphanRows(c))
      BY <3>1, <3>2 DEF OrphanRows
    <3>4. NoneFailed(rows') /\ \A image \in journal' : NoneFailed(image)
      BY <1>0, <2>3, <3>2, <3>3 DEF OrphanBegins, OrphanCommits, RowsInv
    <3> QED
      BY <1>0, <2>3, <3>1, <3>4 DEF OrphanBegins, OrphanCommits, RowsInv
  <2> QED BY <1>1, <2>1, <2>2, <2>3 DEF Orphan
<1>2. CASE Backup
  BY <1>0, <1>2 DEF Backup, RowsInv
<1>3. CASE BeginCommit
  <2>1. journal = {} /\ Recovered = rows
    BY <1>0, <1>3 DEF BeginCommit, RowsInv, Recovered
  <2> QED
    BY <1>0, <1>3, <2>1 DEF BeginCommit, NextRow, RowsInv, ServingInv
<1>4. CASE EndCommit \/ WriteFile
  BY <1>0, <1>4 DEF EndCommit, WriteFile, RowsInv
<1>5. CASE ToolSucceeds \/ ToolFails \/ ToolTimeout
  BY <1>0, <1>5 DEF ToolSucceeds, ToolFails, ToolTimeout, AfterTool, RowsInv
<1>6. CASE Wipe \/ Refill \/ RestoreRows
  BY <1>0, <1>6 DEF Wipe, Refill, RestoreRows, RowsInv, UndoInv
<1>7. CASE WriteTrace
  <2>1. /\ cur \in Call /\ record'[cur] = outcome /\ outcome' = outcome
        /\ \A c \in Call : c # cur => record'[c] = record[c]
    BY <1>0, <1>7 DEF WriteTrace, ServingInv, TypeOK
  <2> QED
    BY <1>0, <1>7, <2>1 DEF WriteTrace, RowsInv, ServingInv
<1>8. CASE ServerKilled
  BY <1>0, <1>8 DEF ServerKilled, RowsInv, ServingInv
<1>9. CASE Answer \/ ServerEnds \/ CliExit \/ Verify \/ Finished \/ UNCHANGED vars
  BY <1>0, <1>9 DEF Answer, ServerEnds, CliExit, Verify, ReadTrace, ReadRows, ReadFiles,
     Finished, vars, RowsInv
<1> QED
  BY <1>1, <1>2, <1>3, <1>4, <1>5, <1>6, <1>7, <1>8, <1>9 DEF Next, Serve, Tool

\* A failed call leaves no file in the workspace (call_environment_tool,
\* harness/execution.py), even when a commit is cut in two or the CLI exits in
\* the middle of a call, as long as no child of a tool outlives its timeout and
\* nothing raises between the tool's success and the trace.
THEOREM NoFilesOfFailedCalls ==
  ASSUME Faults \subseteq {"kill_in_commit", "exit_in_call"}
  PROVE  Spec => []FailedCallsLeaveNoFiles
<1>1. CallInv /\ FilesInv /\ [Next]_vars => (CallInv /\ FilesInv)'
  BY NextFiles, NextCall
<1>2. FilesInv => FailedCallsLeaveNoFiles
  BY DEF FilesInv, NoneFailed, Part, Recorded, Failed, FailedCallsLeaveNoFiles
<1> QED
  BY <1>1, <1>2, InitFailed, InitCall, PTL DEF Spec

\* A failed call leaves no row in the database, nor in what the next writer
\* recovers (harness/execution.py, utils/record_store.py), even when the CLI exits
\* in the middle of a call; a tool killed inside a commit and a child that outlives
\* its tool and commits by itself are excluded, for they do leave rows.
THEOREM NoRowsOfFailedCalls ==
  ASSUME Faults \subseteq {"exit_in_call"}
  PROVE  Spec => []FailedCallsLeaveNoRows
<1>1. CallInv /\ RowsInv /\ [Next]_vars => (CallInv /\ RowsInv)'
  BY NextRows, NextCall
<1>2. ASSUME RowsInv, NEW c \in Failed
      PROVE  Recovered \cap Of(c) = {}
  <2>1. NoneFailed(Recovered)
    BY <1>2 DEF RowsInv, NoneFailed, Recovered
  <2>2. c \in Call /\ record[c] \in {"failed", "raised"}
    BY <1>2 DEF Failed, Recorded
  <2>3. Of(c) = {<<c, part>> : part \in Part}
    BY DEF Of, Part
  <2> QED BY <2>1, <2>2, <2>3 DEF NoneFailed
<1>3. RowsInv => FailedCallsLeaveNoRows
  BY <1>2 DEF FailedCallsLeaveNoRows
<1> QED
  BY <1>1, <1>3, InitFailed, InitCall, PTL DEF Spec

\* A failed call leaves nothing at all (call_environment_tool), whether it has a
\* line in the trace or not, without the other faults but wherever the CLI exits.
THEOREM NothingOfFailedCalls ==
  ASSUME Faults \subseteq {"exit_in_call"}
  PROVE  Spec => []FailedCallsLeaveNothing
<1>1. Spec => []FailedCallsLeaveNoFiles
  BY NoFilesOfFailedCalls
<1>2. Spec => []FailedCallsLeaveNoRows
  BY NoRowsOfFailedCalls
<1>3. FailedCallsLeaveNoFiles /\ FailedCallsLeaveNoRows => FailedCallsLeaveNothing
  BY DEF FailedCallsLeaveNothing
<1> QED
  BY <1>1, <1>2, <1>3, PTL

-----------------------------------------------------------------------------
(***************************************************************************)
(* Without faults: what is on disk at every step of a call.  Of every call *)
(* c the disk holds the effects of c exactly if c is recorded as           *)
(* successful, and of the call being served those its tool has written.    *)
(***************************************************************************)
Done(c) == record[c] = "ok" /\ c \notin ReadOnly

FilesAre(fs, own) ==
  \A c \in Call : <<c, "file">> \in fs <=> Done(c) \/ (c = cur /\ own)

RowsAre(rs, first, second) ==
  \A c \in Call :
    /\ <<c, "first">>  \in rs <=> Done(c) \/ (c = cur /\ first)
    /\ <<c, "second">> \in rs <=> Done(c) \/ (c = cur /\ second)

Clean(fs, rs) == FilesAre(fs, FALSE) /\ RowsAre(rs, FALSE, FALSE)

Written(rs) == RowsAre(rs, "first" \in wrote, "second" \in wrote)

\* Where the disk shows finished calls only.
QuietInv ==
  /\ orphans = {} /\ busy = None
  /\ journal # {} => phase = "commit"
  /\ phase \in Idle \cup {"backup", "answer"} => Clean(files, rows)
  /\ cur \in ReadOnly /\ phase \in {"run", "trace"} => Clean(files, rows)
  /\ phase = "trace" /\ outcome # "ok" => Clean(files, rows)
  /\ phase = "trace" /\ outcome = "ok" /\ cur \notin ReadOnly =>
       FilesAre(files, TRUE) /\ RowsAre(rows, TRUE, TRUE)
  /\ phase \in Restoring \cup {"commit", "backup"} => cur \notin ReadOnly
  /\ phase \in Restoring => outcome \in {"failed", "raised"}

\* While a writing tool runs or is undone: the backup shows finished calls
\* only, and so does the image of the journal but for transactions of cur.
BusyInv ==
  /\ InTransaction => Clean(saved.files, saved.rows)
  /\ phase = "backup" => wrote = {}
  /\ phase \in InTool /\ "second" \in wrote => "first" \in wrote
  /\ cur \notin ReadOnly /\ phase \in InTool \cup {"wipe"} => FilesAre(files, "file" \in wrote)
  /\ cur \notin ReadOnly /\ phase \in {"run"} \cup Restoring => Written(rows)
  /\ phase = "refill" => files = {}
  /\ phase = "redb" => FilesAre(files, FALSE)
  /\ phase = "commit" =>
       /\ NextRow \notin wrote
       /\ \E image \in SUBSET RowEffects : journal = {image} /\ Written(image)
       /\ RowsAre(rows, TRUE, "first" \in wrote)

\* The verifier starts when the server has nothing left to do.
EvidenceInv ==
  /\ cli = "exited" => ~Serving /\ inbox = {}
  /\ evidence.step # "none" => cli = "exited" /\ evidence.calls = Recorded("ok")
  /\ evidence.step \in {"rows", "done"} => evidence.rows = rows
  /\ evidence.step = "done" => evidence.files = files

DiskInv == CallInv /\ QuietInv /\ BusyInv /\ EvidenceInv

LEMMA InitDisk == Init => DiskInv
<1> SUFFICES ASSUME Init PROVE DiskInv
  OBVIOUS
<1> USE DEF Init, Serving, Idle, InTool, Restoring, InTransaction
<1>1. QuietInv
  BY DEF QuietInv, Clean, FilesAre, RowsAre, Done
<1>2. BusyInv
  BY DEF BusyInv
<1>3. EvidenceInv
  BY DEF EvidenceInv
<1> QED
  BY <1>1, <1>2, <1>3, InitCall DEF DiskInv

LEMMA NextLive ==
  ASSUME Faults \subseteq {"exit_in_call"}, CallInv, QuietInv, BusyInv, [Next]_vars, ~ServerKilled
  PROVE  QuietInv' /\ BusyInv'
<1> USE DEF client, disk, others, Phase, InTool, Restoring, Serving, Idle, InTransaction,
            Clean, Written, FilesAre, RowsAre, Done
<1>0. TypeOK /\ ServingInv /\ RequestInv /\ QuietInv /\ BusyInv
  BY DEF CallInv
<1>1. ASSUME NEW c \in Call, Send(c) \/ GiveUp(c)
      PROVE  QuietInv' /\ BusyInv'
  <2>1. QuietInv'
    BY <1>0, <1>1 DEF Send, GiveUp, QuietInv
  <2>2. BusyInv'
    BY <1>0, <1>1 DEF Send, GiveUp, BusyInv, NextRow
  <2> QED BY <2>1, <2>2
<1>2. ASSUME NEW c \in Call, Receive(c)
      PROVE  QuietInv' /\ BusyInv'
  <2>1. QuietInv'
    BY <1>0, <1>2 DEF Receive, QuietInv
  <2>2. BusyInv'
    BY <1>0, <1>2 DEF Receive, QuietInv, BusyInv
  <2> QED BY <2>1, <2>2
<1>3. CASE Backup
  <2>0. wrote = {} /\ Clean(files, rows)
    BY <1>0, <1>3 DEF Backup, QuietInv, BusyInv
  <2>1. CASE phase' = "run"
    <3>1. saved' = [files |-> files, rows |-> rows] /\ outcome' = outcome
      BY <1>3, <2>1 DEF Backup
    <3>2. QuietInv'
      BY <1>0, <1>3, <2>0, <2>1 DEF Backup, QuietInv
    <3>3. BusyInv'
      BY <1>3, <2>0, <2>1, <3>1 DEF Backup, BusyInv
    <3> QED BY <3>2, <3>3
  <2>2. CASE phase' = "trace" /\ outcome' = "raised"
    <3>1. QuietInv'
      BY <1>0, <1>3, <2>0, <2>2 DEF Backup, QuietInv
    <3>2. BusyInv'
      BY <1>3, <2>2 DEF Backup, BusyInv
    <3> QED BY <3>1, <3>2
  <2> QED BY <1>3, <2>1, <2>2 DEF Backup
<1>4. CASE WriteFile
  <2>1. QuietInv'
    BY <1>0, <1>4 DEF WriteFile, QuietInv
  <2>2. BusyInv'
    BY <1>0, <1>4 DEF WriteFile, BusyInv
  <2> QED BY <2>1, <2>2
<1>5. CASE BeginCommit
  <2>1. QuietInv'
    BY <1>0, <1>5 DEF BeginCommit, QuietInv
  <2>2. BusyInv'
    <3>1. journal = {} /\ Recovered = rows /\ rows \in SUBSET RowEffects
      BY <1>0, <1>5 DEF BeginCommit, QuietInv, Recovered, TypeOK
    <3>2. Written(rows) /\ NextRow \notin wrote
      BY <1>0, <1>5 DEF BeginCommit, BusyInv
    <3>3. RowsAre(rows', TRUE, "first" \in wrote)
      BY <1>0, <1>5, <3>1, <3>2 DEF BeginCommit, BusyInv, NextRow, ServingInv, TypeOK
    <3> QED BY <1>0, <1>5, <3>1, <3>2, <3>3 DEF BeginCommit, BusyInv, NextRow
  <2> QED BY <2>1, <2>2
<1>6. CASE EndCommit
  <2>1. QuietInv'
    BY <1>0, <1>6 DEF EndCommit, QuietInv
  <2>2. BusyInv'
    BY <1>0, <1>6 DEF EndCommit, QuietInv, BusyInv, NextRow
  <2> QED BY <2>1, <2>2
<1>7. CASE ToolSucceeds \/ ToolFails \/ ToolTimeout
  <2> USE DEF ToolSucceeds, ToolFails, ToolTimeout, AfterTool
  <2>1. QuietInv'
    BY <1>0, <1>7 DEF QuietInv, BusyInv
  <2>2. BusyInv'
    BY <1>0, <1>7 DEF BusyInv
  <2> QED BY <2>1, <2>2
<1>8. CASE Wipe \/ Refill
  <2> USE DEF Wipe, Refill
  <2>1. QuietInv'
    BY <1>0, <1>8 DEF QuietInv
  <2>2. BusyInv'
    BY <1>0, <1>8 DEF QuietInv, BusyInv
  <2> QED BY <2>1, <2>2
<1>9. CASE RestoreRows
  <2>1. QuietInv'
    BY <1>0, <1>9 DEF RestoreRows, QuietInv, BusyInv
  <2>2. BusyInv'
    BY <1>0, <1>9 DEF RestoreRows, BusyInv
  <2> QED BY <2>1, <2>2
<1>10. CASE WriteTrace
  <2>1. QuietInv'
    BY <1>0, <1>10 DEF WriteTrace, QuietInv, ServingInv, TypeOK
  <2>2. BusyInv'
    BY <1>0, <1>10 DEF WriteTrace, BusyInv
  <2> QED BY <2>1, <2>2
<1>11. CASE Answer \/ ServerEnds \/ CliExit
  <2> USE DEF Answer, ServerEnds, CliExit
  <2>1. QuietInv'
    BY <1>0, <1>11 DEF QuietInv
  <2>2. BusyInv'
    BY <1>0, <1>11 DEF BusyInv, NextRow
  <2> QED BY <2>1, <2>2
<1>12. CASE Verify
  <2> USE DEF Verify, ReadTrace, ReadRows, ReadFiles
  <2>1. QuietInv'
    BY <1>0, <1>12 DEF QuietInv
  <2>2. BusyInv'
    BY <1>0, <1>12 DEF BusyInv, NextRow
  <2> QED BY <2>1, <2>2
<1>13. CASE Finished \/ UNCHANGED vars
  <2> USE DEF Finished, vars
  <2>1. QuietInv'
    BY <1>0, <1>13 DEF QuietInv
  <2>2. BusyInv'
    BY <1>0, <1>13 DEF BusyInv, NextRow
  <2> QED BY <2>1, <2>2
<1>14. ASSUME NEW c \in Call PROVE ~Orphan(c)
  BY <1>0, CallAssumption DEF Orphan, OrphanWrites, OrphanBegins, OrphanCommits, OrphanEnds, QuietInv
<1> QED
  BY <1>1, <1>2, <1>3, <1>4, <1>5, <1>6, <1>7, <1>8, <1>9, <1>10, <1>11, <1>12,
     <1>13, <1>14 DEF Next, Serve, Tool

LEMMA NextEvidence ==
  ASSUME Faults = {}, DiskInv, [Next]_vars
  PROVE  EvidenceInv'
<1> USE DEF client, disk, others, Serving, Idle
<1>0. ServingInv /\ QuietInv /\ EvidenceInv
  BY DEF DiskInv, CallInv
<1>1. CASE Verify
  <2> USE <1>0 DEF Verify, ReadTrace, ReadRows, ReadFiles, EvidenceInv, Recorded, DiskInv, CallInv, TypeOK
  <2>1. CASE ReadTrace
    BY <2>1
  <2>2. CASE ReadRows
    BY <2>2
  <2>3. CASE ReadFiles
    BY <2>3
  <2> QED BY <1>1, <2>1, <2>2, <2>3
<1>2. ASSUME \/ WriteFile \/ BeginCommit \/ EndCommit \/ RestoreRows \/ WriteTrace
             \/ Wipe \/ Refill \/ Backup \/ ToolSucceeds \/ ToolFails \/ ToolTimeout
             \/ \E c \in Call : Send(c) \/ GiveUp(c) \/ Receive(c)
      PROVE  EvidenceInv'
  <2>1. cli = "running" /\ evidence.step = "none"
    BY <1>0, <1>2 DEF EvidenceInv, WriteFile, BeginCommit, EndCommit, RestoreRows, WriteTrace, Wipe,
       Refill, Backup, ToolSucceeds, ToolFails, ToolTimeout, Send, GiveUp, Receive, InTool,
       DiskInv, CallInv, TypeOK
  <2>2. cli' = "running" /\ evidence' = evidence
    BY <1>2, <2>1 DEF WriteFile, BeginCommit, EndCommit, RestoreRows, WriteTrace, Wipe,
       Refill, Backup, ToolSucceeds, ToolFails, ToolTimeout, Send, GiveUp, Receive
  <2> QED BY <2>1, <2>2 DEF EvidenceInv
<1>3. CASE Answer \/ ServerEnds \/ ServerKilled \/ CliExit \/ Finished \/ UNCHANGED vars
  BY <1>0, <1>3 DEF Answer, ServerEnds, ServerKilled, CliExit, Finished, vars, EvidenceInv, Recorded
<1>4. ASSUME NEW c \in Call PROVE ~Orphan(c)
  BY <1>0, CallAssumption DEF Orphan, OrphanWrites, OrphanBegins, OrphanCommits, OrphanEnds, QuietInv
<1> QED
  BY <1>1, <1>2, <1>3, <1>4 DEF Next, Serve, Tool

LEMMA AlwaysDisk ==
  ASSUME Faults = {}
  PROVE  Spec => []DiskInv
<1>1. DiskInv /\ [Next]_vars => ~ServerKilled
  BY DEF ServerKilled
<1>2. DiskInv /\ [Next]_vars => DiskInv'
  BY <1>1, NextLive, NextEvidence, NextCall DEF DiskInv
<1> QED
  BY <1>2, InitDisk, PTL DEF Spec

-----------------------------------------------------------------------------
(***************************************************************************)
(* What follows without faults.                                            *)
(***************************************************************************)

\* Sets of effects are determined by what they hold of each call.
LEMMA CleanIsCommitted ==
  ASSUME NEW fs \in SUBSET FileEffects, NEW rs \in SUBSET RowEffects, Clean(fs, rs)
  PROVE  fs \cup rs = Committed
<1> USE DEF Clean, FilesAre, RowsAre, Done
<1>1. ASSUME NEW e \in fs \cup rs PROVE e \in Committed
  <2>1. PICK c \in Call, part \in {"file", "first", "second"} : e = <<c, part>>
    BY <1>1 DEF FileEffects, RowEffects
  <2>2. <<c, "file">> \notin rs /\ <<c, "first">> \notin fs /\ <<c, "second">> \notin fs
    BY DEF FileEffects, RowEffects
  <2>3. c \in Recorded("ok") /\ c \notin ReadOnly
    BY <1>1, <2>1, <2>2 DEF Recorded
  <2> QED
    BY <2>1, <2>3 DEF Committed, Effect, Of
<1>2. ASSUME NEW e \in Committed PROVE e \in fs \cup rs
  <2>1. PICK c \in Recorded("ok") : e \in Effect(c)
    BY <1>2 DEF Committed
  <2>2. Done(c) /\ c \in Call /\ e \in Of(c)
    BY <2>1 DEF Effect, Recorded
  <2>3. PICK part \in {"file", "first", "second"} : e = <<c, part>>
    BY <2>2 DEF Of
  <2> QED
    BY <2>2, <2>3
<1> QED
  BY <1>1, <1>2

LEMMA DiskTypes ==
  ASSUME CallInv
  PROVE  /\ files \in SUBSET FileEffects /\ rows \in SUBSET RowEffects
         /\ saved.files \in SUBSET FileEffects /\ saved.rows \in SUBSET RowEffects
BY DEF CallInv, TypeOK

\* While there is a server, a CLI that exits in a call changes nothing of this.
LiveInv == phase # "gone" => QuietInv /\ BusyInv

LEMMA AlwaysLive ==
  ASSUME Faults \subseteq {"exit_in_call"}
  PROVE  Spec => [](CallInv /\ LiveInv)
<1>1. Init => CallInv /\ LiveInv
  BY InitDisk DEF DiskInv, LiveInv
<1>2. ASSUME CallInv, LiveInv, [Next]_vars PROVE LiveInv'
  <2>1. CASE ServerKilled
    BY <2>1 DEF ServerKilled, LiveInv
  <2>2. CASE phase = "gone" /\ ~ServerKilled
    <3>1. phase' = "gone"
      BY <1>2, <2>2 DEF Next, Serve, Tool, Send, GiveUp, Orphan, OrphanWrites, OrphanBegins,
         OrphanCommits, OrphanEnds, CliExit, Receive, Backup,
         ToolTimeout, Wipe, Refill, RestoreRows, WriteTrace, Answer, ServerEnds, WriteFile,
         BeginCommit, EndCommit, ToolSucceeds, ToolFails, Verify, ReadTrace, ReadRows, ReadFiles,
         Finished, vars
    <3> QED BY <3>1 DEF LiveInv
  <2>3. CASE phase # "gone" /\ ~ServerKilled
    BY <1>2, <2>3, NextLive DEF LiveInv
  <2> QED BY <2>1, <2>2, <2>3
<1> QED
  BY <1>1, <1>2, NextCall, PTL DEF Spec

\* A read-only tool, which runs on the live state (harness/execution.py), sees
\* exactly the effects of the calls that succeeded, even when the CLI has exited
\* in the middle of a call.
THEOREM ReadersSeeWholeCalls ==
  ASSUME Faults \subseteq {"exit_in_call"}
  PROVE  Spec => []ReadersSeeCommitted
<1>1. CallInv /\ LiveInv => ReadersSeeCommitted
  <2> SUFFICES ASSUME CallInv, LiveInv, phase = "run", cur \in ReadOnly
               PROVE  files \cup rows = Committed
    BY DEF ReadersSeeCommitted
  <2> QED BY DiskTypes, CleanIsCommitted DEF LiveInv, QuietInv
<1> QED
  BY <1>1, AlwaysLive, PTL

\* The verifier judges the state that the trace accounts for
\* (verify_distilled_case, distill/taskgen_verifier.py), as long as the CLI
\* does not exit during a call.
LEMMA VerifierSeesWholeCalls ==
  ASSUME Faults = {}
  PROVE  Spec => []VerifierSeesCommitted
<1>1. DiskInv => VerifierSeesCommitted
  <2> SUFFICES ASSUME DiskInv, evidence.step = "done"
               PROVE  evidence.rows \cup evidence.files
                        = UNION {Effect(c) : c \in evidence.calls}
    BY DEF VerifierSeesCommitted
  <2>1. evidence.rows = rows /\ evidence.files = files /\ evidence.calls = Recorded("ok")
    BY DEF DiskInv, EvidenceInv
  <2>2. Clean(files, rows)
    BY DEF DiskInv, QuietInv, EvidenceInv, Serving, Idle
  <2>3. files \cup rows = Committed
    BY <2>2, DiskTypes, CleanIsCommitted DEF DiskInv
  <2> QED BY <2>1, <2>3 DEF Committed
<1> QED
  BY <1>1, AlwaysDisk, PTL

\* Read-only tools and the verifier see exactly the calls that succeeded
\* (harness/execution.py, distill/taskgen_verifier.py), without the faults.
THEOREM ObserversSeeWholeCalls ==
  ASSUME Faults = {}
  PROVE  Spec => []ObserversSeeCommitted
<1>0. Faults \subseteq {"exit_in_call"}
  OBVIOUS
<1>1. Spec => []ReadersSeeCommitted
  BY <1>0, ReadersSeeWholeCalls
<1>2. Spec => []VerifierSeesCommitted
  BY VerifierSeesWholeCalls
<1>3. ReadersSeeCommitted /\ VerifierSeesCommitted => ObserversSeeCommitted
  BY DEF ObserversSeeCommitted
<1> QED
  BY <1>1, <1>2, <1>3, PTL

-----------------------------------------------------------------------------
(***************************************************************************)
(* Refinement.  Between the end of a successful tool process and its trace *)
(* record the call has taken effect and is not yet recorded.               *)
(***************************************************************************)
Settling == phase = "trace" /\ outcome = "ok" /\ cur \notin ReadOnly

StableInv == Stable = IF Settling THEN Committed \cup Of(cur) ELSE Committed

LEMMA StableValue == DiskInv => StableInv
<1> SUFFICES ASSUME DiskInv PROVE StableInv
  OBVIOUS
<1> USE DEF DiskInv, StableInv
<1>1. CASE InTransaction
  <2>1. Clean(saved.files, saved.rows)
    BY <1>1 DEF BusyInv
  <2>2. saved.files \cup saved.rows = Committed
    BY <2>1, DiskTypes, CleanIsCommitted
  <2> QED
    BY <1>1, <2>2 DEF Stable, InTransaction, InTool, Restoring, Settling
<1>2. CASE ~InTransaction
  <2>1. Stable = files \cup rows
    BY <1>2 DEF QuietInv, Recovered, Stable, InTransaction, InTool
  <2>2. CASE Settling
    <3>1. cur \in Call
      BY <2>2 DEF Settling, CallInv, ServingInv, Serving, Idle
    <3> DEFINE own == {<<cur, "file">>}
               two == {<<cur, "first">>, <<cur, "second">>}
    <3>2. Of(cur) = own \cup two
      BY DEF Of
    <3>3. own \subseteq files /\ two \subseteq rows
      BY <2>2, <3>1 DEF Settling, QuietInv, FilesAre, RowsAre
    <3>4. Clean(files \ own, rows \ two)
      <4>1. FilesAre(files, TRUE) /\ RowsAre(rows, TRUE, TRUE) /\ record[cur] = "none"
        BY <2>2 DEF Settling, QuietInv, CallInv, ServingInv, Serving, Idle
      <4> QED BY <4>1 DEF Clean, FilesAre, RowsAre, Done
    <3>5. (files \ own) \cup (rows \ two) = Committed
      BY <3>4, DiskTypes, CleanIsCommitted
    <3> QED BY <2>1, <2>2, <3>2, <3>3, <3>5
  <2>3. CASE ~Settling
    <3>1. Clean(files, rows)
      BY <1>2, <2>3 DEF Settling, InTransaction, QuietInv, CallInv, ServingInv, TypeOK,
                        Phase, Idle, InTool, Restoring
    <3> QED BY <2>1, <2>3, <3>1, DiskTypes, CleanIsCommitted
  <2> QED BY <2>2, <2>3
<1> QED
  BY <1>1, <1>2

LEMMA StableValueNext == DiskInv' => StableInv'
BY StableValue, PTL

LEMMA CommittedStep ==
  ASSUME CallInv, cur \in Call, record[cur] = "none", NEW r,
         record' = [record EXCEPT ![cur] = r]
  PROVE  Committed' = Committed \cup IF r = "ok" THEN Effect(cur) ELSE {}
<1>1. Recorded("ok")' = Recorded("ok") \cup IF r = "ok" THEN {cur} ELSE {}
  BY DEF CallInv, TypeOK, Recorded
<1> QED
  BY <1>1 DEF Committed, Effect, Of

LEMMA StepRefines ==
  ASSUME Faults = {}, DiskInv, DiskInv', [Next]_vars
  PROVE  Atomic!Next \/ UNCHANGED <<Stable, record>>
<1> USE DEF client, disk, others
<1>1. /\ Stable = IF Settling THEN Committed \cup Of(cur) ELSE Committed
      /\ Stable' = IF Settling' THEN Committed' \cup Of(cur)' ELSE Committed'
  BY StableValue, StableValueNext DEF StableInv
<1>2. CASE WriteTrace
  <2>1. cur \in Call /\ record[cur] = "none" /\ outcome \in {"ok", "failed", "raised"} /\ outcome' = outcome
    BY <1>2 DEF WriteTrace, DiskInv, CallInv, ServingInv, Serving, Idle
  <2>2. Committed' = Committed \cup IF outcome = "ok" THEN Effect(cur) ELSE {}
    BY <1>2, <2>1, CommittedStep DEF WriteTrace, DiskInv
  <2>3. Committed \cap Of(cur) = {}
    BY <2>1 DEF Committed, Effect, Of, Recorded
  <2>4. Stable' = Stable
    BY <1>1, <1>2, <2>2 DEF WriteTrace, Settling, Effect
  <2>5. CASE outcome = "ok"
    <3>1. Effect(cur) \subseteq Stable
      BY <1>1, <1>2, <2>5 DEF WriteTrace, Settling, Effect
    <3>2. Atomic!Succeed(cur)
      BY <1>2, <2>1, <2>4, <2>5, <3>1
         DEF WriteTrace, Atomic!Succeed, Atomic!Effect, Atomic!Part, Effect, Of
    <3> QED BY <2>1, <3>2 DEF Atomic!Next
  <2>6. CASE outcome # "ok"
    <3>1. Stable \cap Of(cur) = {}
      BY <1>1, <2>3, <2>6 DEF Settling
    <3>2. Atomic!Fail(cur)
      BY <1>2, <2>1, <2>4, <2>6, <3>1 DEF WriteTrace, Atomic!Fail, Atomic!Part, Of
    <3> QED BY <2>1, <3>2 DEF Atomic!Next
  <2> QED BY <2>1, <2>5, <2>6
<1>3. CASE ToolSucceeds /\ cur \notin ReadOnly
  <2>1. cur \in Call /\ record[cur] = "none"
    BY <1>3 DEF ToolSucceeds, DiskInv, CallInv, ServingInv, Serving, Idle
  <2>2. Committed' = Committed /\ record' = record /\ Of(cur)' = Of(cur)
    BY <1>3 DEF ToolSucceeds, Committed, Recorded, Effect, Of
  <2>3. Stable' = Stable \cup Effect(cur)
    BY <1>1, <1>3, <2>2 DEF ToolSucceeds, AfterTool, Settling, Effect
  <2>4. Atomic!Commit(cur)
    BY <2>1, <2>2, <2>3 DEF Atomic!Commit, Atomic!Effect, Atomic!Part, Effect, Of
  <2> QED BY <2>1, <2>4 DEF Atomic!Next
<1>4. CASE ~WriteTrace /\ ~(ToolSucceeds /\ cur \notin ReadOnly)
  <2>1. record' = record /\ Settling' = Settling /\ (Settling => cur' = cur)
    <3> USE DEF Settling
    <3>1. ASSUME NEW c \in Call, Send(c) \/ GiveUp(c) \/ Orphan(c) \/ Receive(c)
          PROVE  record' = record /\ Settling' = Settling /\ (Settling => cur' = cur)
      BY <3>1 DEF Send, GiveUp, Orphan, OrphanWrites, OrphanBegins, OrphanCommits, OrphanEnds, Receive
    <3>2. ASSUME Backup \/ Wipe \/ Refill \/ RestoreRows \/ ServerEnds \/ Answer \/ CliExit
          PROVE  record' = record /\ Settling' = Settling /\ (Settling => cur' = cur)
      BY <3>2 DEF Backup, Wipe, Refill, RestoreRows, ServerEnds, Answer, CliExit,
                  DiskInv, QuietInv, Restoring
    <3>3. ASSUME ToolTimeout \/ Tool
          PROVE  record' = record /\ Settling' = Settling /\ (Settling => cur' = cur)
      BY <1>4, <3>3 DEF ToolTimeout, Tool, WriteFile, BeginCommit, EndCommit, ToolSucceeds,
                  ToolFails, AfterTool
    <3>4. ASSUME Verify \/ Finished \/ UNCHANGED vars
          PROVE  record' = record /\ Settling' = Settling /\ (Settling => cur' = cur)
      BY <3>4 DEF Verify, ReadTrace, ReadRows, ReadFiles, Finished, vars
    <3>5. ~ServerKilled
      BY DEF ServerKilled
    <3> QED BY <1>4, <3>1, <3>2, <3>3, <3>4, <3>5 DEF Next, Serve
  <2>2. Committed' = Committed
    BY <2>1 DEF Committed, Recorded, Effect, Of
  <2> QED BY <1>1, <2>1, <2>2 DEF Of
<1> QED
  BY <1>2, <1>3, <1>4

\* Environment tool calls are atomic and truthfully recorded: the server, the
\* transaction and the restore of harness/execution.py implement AtomicCalls.
THEOREM ImplementsAtomicCalls ==
  ASSUME Faults = {}
  PROVE  Spec => AtomicSpec
<1>1. Init => Atomic!Init
  BY DEF Init, Atomic!Init, Stable, InTransaction, InTool, Restoring, Recovered
<1>2. DiskInv /\ DiskInv' /\ [Next]_vars => [Atomic!Next]_<<Stable, record>>
  BY StepRefines
<1> QED
  BY <1>1, <1>2, AlwaysDisk, PTL DEF Spec, AtomicSpec, Atomic!Spec
-----------------------------------------------------------------------------
(***************************************************************************)
(* What a successful call left, whatever goes wrong with other calls.  The *)
(* hot journal of a killed commit, or the transaction of an orphan, may    *)
(* bring back rows of a failed call, but the image still holds every row   *)
(* of the successful ones.  What the call being served has written so far  *)
(* is followed too, for the moment in which it is recorded.                *)
(***************************************************************************)
HasFiles(fs) ==
  \A c \in Call : record[c] = "ok" /\ c \notin ReadOnly => <<c, "file">> \in fs

HasRows(rs) ==
  \A c \in Call : record[c] = "ok" /\ c \notin ReadOnly =>
    <<c, "first">> \in rs /\ <<c, "second">> \in rs

\* Disk, journal and, during a writing call, the backup hold successful calls.
HeldInv ==
  /\ HasRows(rows)
  /\ \A image \in journal : HasRows(image)
  /\ phase # "refill" => HasFiles(files)
  /\ cur \notin ReadOnly /\ phase \in InTool \cup Restoring =>
       HasFiles(saved.files) /\ HasRows(saved.rows)

\* A row of the call being served, in the database and in what a recovery finds.
OwnRow(part) ==
  <<cur, part>> \in rows /\ \A image \in journal : <<cur, part>> \in image

\* The call being served: how far its own effects are on disk.
OwnInv ==
  /\ phase \in Restoring \cup {"commit", "backup"} => cur \notin ReadOnly
  /\ phase \in Restoring => outcome \in {"failed", "raised"}
  /\ phase = "backup" => wrote = {}
  /\ phase \in InTool /\ "file" \in wrote => <<cur, "file">> \in files
  /\ phase \in InTool /\ "second" \in wrote => "first" \in wrote
  /\ phase \in InTool /\ "first" \in wrote => OwnRow("first")
  /\ phase = "run" /\ "second" \in wrote => OwnRow("second")
  /\ phase = "commit" => busy = None /\ NextRow \notin wrote /\ <<cur, NextRow>> \in rows
  /\ phase = "trace" /\ outcome = "ok" /\ cur \notin ReadOnly =>
       <<cur, "file">> \in files /\ OwnRow("first") /\ OwnRow("second")
  /\ phase = "run" /\ cur \in ReadOnly => wrote = {}

KeptInv ==
  /\ journal = {} \/ \E image \in SUBSET RowEffects : journal = {image}
  /\ phase # "gone" => HeldInv /\ OwnInv

KeptAlways == CallInv /\ KeptInv

LEMMA InitKept == Init => KeptAlways
<1> SUFFICES ASSUME Init PROVE KeptAlways
  OBVIOUS
<1>1. KeptInv
  BY DEF Init, KeptInv, HeldInv, OwnInv, HasFiles, HasRows, InTool, Restoring
<1> QED
  BY <1>1, InitCall DEF KeptAlways

\* A writer's connection finds every row of the successful calls.
LEMMA RecoveredHasRows ==
  ASSUME KeptAlways, phase # "gone"
  PROVE  HasRows(Recovered)
<1>1. CASE journal = {}
  BY <1>1 DEF KeptAlways, KeptInv, HeldInv, Recovered
<1>2. CASE journal # {}
  <2>1. PICK image \in SUBSET RowEffects : journal = {image}
    BY <1>2 DEF KeptAlways, KeptInv
  <2>2. Recovered = image
    BY <2>1 DEF Recovered
  <2> QED BY <2>1, <2>2 DEF KeptAlways, KeptInv, HeldInv
<1> QED
  BY <1>1, <1>2

LEMMA NextKept ==
  ASSUME KeptAlways, [Next]_vars
  PROVE  KeptInv'
<1> USE DEF client, disk, others, Phase, InTool, Restoring, Serving, Idle
<1>0. TypeOK /\ ServingInv /\ RequestInv /\ KeptInv
  BY DEF KeptAlways, CallInv
<1>1. ASSUME NEW c \in Call, Send(c) \/ GiveUp(c) \/ Orphan(c)
      PROVE  KeptInv'
  <2>1. CASE Send(c) \/ GiveUp(c) \/ OrphanWrites(c) \/ OrphanEnds(c)
    BY <1>0, <2>1 DEF Send, GiveUp, OrphanWrites, OrphanEnds, KeptInv, HeldInv, OwnInv, OwnRow,
       HasFiles, HasRows, NextRow
  <2>2. CASE OrphanBegins(c) \/ OrphanCommits(c)
    <3>1. CASE phase = "gone"
      <4>1. phase' = "gone" /\ (journal' = {} \/ journal' = {Recovered})
        BY <2>2, <3>1 DEF OrphanBegins, OrphanCommits
      <4> QED BY <1>0, <4>1, RecoveredType DEF KeptInv
    <3>2. CASE phase # "gone"
      <4>1. HasRows(Recovered) /\ Recovered \subseteq RowEffects
        BY <1>0, <3>2, RecoveredHasRows, RecoveredType
      <4>2. phase # "commit" /\ phase' = phase
        BY <1>0, <2>2, <3>2, CallAssumption DEF OrphanBegins, OrphanCommits, KeptInv, OwnInv
      <4>3. ASSUME NEW part, OwnRow(part) PROVE OwnRow(part)' /\ <<cur, part>> \in Recovered
        <5>1. <<cur, part>> \in Recovered
          BY <1>0, <4>3 DEF KeptInv, OwnRow, Recovered
        <5> QED BY <2>2, <4>3, <5>1 DEF OrphanBegins, OrphanCommits, OwnRow
      <4>4. HeldInv'
        BY <1>0, <2>2, <3>2, <4>1 DEF OrphanBegins, OrphanCommits, KeptInv, HeldInv, HasFiles, HasRows
      <4>5. OwnInv'
        BY <1>0, <2>2, <3>2, <4>2, <4>3 DEF OrphanBegins, OrphanCommits, KeptInv, OwnInv
      <4> QED BY <1>0, <2>2, <4>1, <4>4, <4>5 DEF OrphanBegins, OrphanCommits, KeptInv
    <3> QED BY <3>1, <3>2
  <2> QED BY <1>1, <2>1, <2>2 DEF Orphan
<1>2. ASSUME NEW c \in Call, Receive(c)
      PROVE  KeptInv'
  BY <1>0, <1>2 DEF Receive, KeptInv, HeldInv, OwnInv, OwnRow, HasFiles, HasRows
<1>3. CASE Backup
  BY <1>0, <1>3 DEF Backup, KeptInv, HeldInv, OwnInv, OwnRow, HasFiles, HasRows
<1>4. CASE WriteFile
  BY <1>0, <1>4 DEF WriteFile, KeptInv, HeldInv, OwnInv, OwnRow, HasFiles, HasRows
<1>5. CASE BeginCommit
  <2>1. HasRows(Recovered) /\ Recovered \subseteq RowEffects
    BY <1>0, <1>5, RecoveredHasRows, RecoveredType DEF BeginCommit
  <2>2. HeldInv'
    BY <1>0, <1>5, <2>1 DEF BeginCommit, KeptInv, HeldInv, HasFiles, HasRows
  <2>3. OwnInv'
    BY <1>0, <1>5 DEF BeginCommit, KeptInv, OwnInv, OwnRow, NextRow, Recovered
  <2> QED BY <1>5, <2>1, <2>2, <2>3 DEF BeginCommit, KeptInv
<1>6. CASE EndCommit
  <2>1. HeldInv'
    BY <1>0, <1>6 DEF EndCommit, KeptInv, HeldInv, HasFiles, HasRows
  <2>2. OwnInv'
    BY <1>0, <1>6 DEF EndCommit, KeptInv, OwnInv, OwnRow, NextRow
  <2> QED BY <1>6, <2>1, <2>2 DEF EndCommit, KeptInv
<1>7. CASE ToolSucceeds \/ ToolFails \/ ToolTimeout
  <2>1. HeldInv'
    BY <1>0, <1>7 DEF ToolSucceeds, ToolFails, ToolTimeout, AfterTool, KeptInv, HeldInv, HasFiles, HasRows
  <2>2. OwnInv'
    BY <1>0, <1>7 DEF ToolSucceeds, ToolFails, ToolTimeout, AfterTool, KeptInv, OwnInv, OwnRow
  <2> QED BY <1>0, <1>7, <2>1, <2>2 DEF ToolSucceeds, ToolFails, ToolTimeout, AfterTool, KeptInv
<1>8. CASE Wipe \/ Refill \/ RestoreRows
  <2>1. HeldInv'
    BY <1>0, <1>8 DEF Wipe, Refill, RestoreRows, KeptInv, HeldInv, OwnInv, HasFiles, HasRows
  <2>2. OwnInv'
    BY <1>0, <1>8 DEF Wipe, Refill, RestoreRows, KeptInv, OwnInv
  <2> QED BY <1>0, <1>8, <2>1, <2>2 DEF Wipe, Refill, RestoreRows, KeptInv
<1>9. CASE WriteTrace
  <2>1. \A c \in Call : c # cur => record'[c] = record[c]
    BY <1>9 DEF WriteTrace
  <2>2. record'[cur] \in {outcome, "raised"} /\ cur \in Call
    BY <1>0, <1>9 DEF WriteTrace, ServingInv, TypeOK
  <2>3. HeldInv'
    BY <1>0, <1>9, <2>1, <2>2 DEF WriteTrace, KeptInv, HeldInv, OwnInv, OwnRow, HasFiles, HasRows
  <2>4. OwnInv'
    BY <1>9 DEF WriteTrace, OwnInv
  <2> QED BY <1>0, <1>9, <2>3, <2>4 DEF WriteTrace, KeptInv
<1>10. CASE Answer \/ ServerEnds \/ ServerKilled \/ CliExit \/ Verify \/ Finished \/ UNCHANGED vars
  BY <1>0, <1>10 DEF Answer, ServerEnds, ServerKilled, CliExit, Verify, ReadTrace, ReadRows,
     ReadFiles, Finished, vars, KeptInv, HeldInv, OwnInv, OwnRow, HasFiles, HasRows, NextRow
<1> QED
  BY <1>1, <1>2, <1>3, <1>4, <1>5, <1>6, <1>7, <1>8, <1>9, <1>10 DEF Next, Serve, Tool

LEMMA AlwaysKept == Spec => []KeptAlways
<1>1. KeptAlways /\ [Next]_vars => KeptAlways'
  BY NextKept, NextCall DEF KeptAlways
<1> QED
  BY <1>1, InitKept, PTL DEF Spec

\* Under every fault, what a successful call left (harness/execution.py) stays
\* on disk, or in the backup of the failed call that is being undone.
THEOREM SuccessIsKept == Spec => []SuccessKept
<1>1. ASSUME KeptAlways, phase # "gone", NEW c \in Recorded("ok")
      PROVE  Effect(c) \subseteq IF phase \in Restoring THEN saved.files \cup saved.rows
                                                         ELSE files \cup Recovered
  <2>1. /\ c \in Call /\ record[c] = "ok"
        /\ Of(c) = {<<c, "file">>, <<c, "first">>, <<c, "second">>}
    BY DEF Recorded, Of
  <2>2. CASE c \in ReadOnly
    BY <2>2 DEF Effect
  <2>3. CASE c \notin ReadOnly /\ phase \in Restoring
    <3>1. HasFiles(saved.files) /\ HasRows(saved.rows)
      BY <1>1, <2>3 DEF KeptAlways, KeptInv, HeldInv, OwnInv
    <3> QED BY <2>1, <2>3, <3>1 DEF Effect, HasFiles, HasRows
  <2>4. CASE c \notin ReadOnly /\ phase \notin Restoring
    <3>1. HasFiles(files) /\ HasRows(Recovered)
      BY <1>1, <2>4, RecoveredHasRows DEF KeptAlways, KeptInv, HeldInv, Restoring
    <3> QED BY <2>1, <2>4, <3>1 DEF Effect, HasFiles, HasRows
  <2> QED BY <2>2, <2>3, <2>4
<1>2. KeptAlways => SuccessKept
  BY <1>1 DEF SuccessKept
<1> QED
  BY <1>2, AlwaysKept, PTL

=============================================================================
