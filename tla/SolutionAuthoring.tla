-------------------------- MODULE SolutionAuthoring --------------------------
(***************************************************************************)
(* One author session of the TaskGen program pipeline                      *)
(* (task_gen/program/solution_validation.py, author_submission.py,         *)
(* single_agent_hardening.py, and the author branch of task_eval_mcp.py).  *)
(*                                                                         *)
(* Three processes take part.  The author (a CLI agent) sends one tool     *)
(* call at a time, but may give up waiting for an answer and go on.  The   *)
(* MCP server answers the calls in order: business calls change the live   *)
(* workspace, validate_solution_calls runs a call list on a copy of the    *)
(* baseline and checks the proposal against it, submit_validated_solution  *)
(* accepts a validation.  When the author wants to stop, the stop hook (a  *)
(* process of its own) reads the two evidence files and allows or blocks.  *)
(* After the session run_case resolves the author's final answer against   *)
(* the evidence.                                                           *)
(*                                                                         *)
(* A workspace is "clean" (the task's initial state) or "dirty"; a call    *)
(* list and the text of a proposal are model values; what running a list   *)
(* and checking a proposal returns is any Boolean.                         *)
(***************************************************************************)
EXTENDS Naturals, Sequences, SequencesExt

CONSTANTS
    CallLists,    \* public business call lists within the budget
    Texts,        \* everything else a proposal says
    MaxAttempts,  \* bound on validations, which the code does not limit
    MaxCalls,     \* bound on calls of the author
    MaxFaults,    \* bound on file operations that fail
    MaxGiveUps    \* bound on answers the author does not wait for

ASSUME SAAssumption ==
    /\ MaxAttempts \in Nat
    /\ MaxCalls \in Nat
    /\ MaxFaults \in Nat
    /\ MaxGiveUps \in Nat

VARIABLES
    author,       \* "idle", "waiting", "stopping" or "done"
    inbox,        \* requests the server has not read yet
    server,       \* the request being served and its stage
    live,         \* the live workspace and record database
    baseline,     \* SolutionValidator.baseline, "none" until it is ready
    attempts,     \* SolutionValidator.attempts; also the latest validation id
    executions,   \* executions: passed results by call list
    validations,  \* validations: what submit knows of, in this process
    log,          \* solution_validations.jsonl
    submissions,  \* solution_submissions.jsonl
    torn,         \* evidence files with an unreadable line
    hook,         \* the stop hook: what it has read, or its decision
    verdict,      \* what run_case makes of the final answer
    runs,         \* history: every execution that ended, and what it ran on
    calls,        \* calls the author has made
    faults,       \* file operations that failed
    giveUps       \* answers the author did not wait for

vars == <<author, inbox, server, live, baseline, attempts, executions,
          validations, log, submissions, torn, hook, verdict, runs, calls,
          faults, giveUps>>
bounds == <<calls, faults, giveUps>>
evidence == <<log, submissions, torn>>
memory == <<attempts, executions, validations, runs>>
outcome == <<hook, verdict>>

Id == 1..MaxAttempts
State == {"clean", "dirty"}
Proposal == [calls : CallLists, text : Texts]
Business == [kind : {"business"}]
Validation == [kind : {"validate"}, calls : CallLists, proposal : Proposal]
Submission == [kind : {"submit"}, id : Id]
Request == Business \cup Validation \cup Submission
\* One result of validate, in memory and as a line of the evidence file.
\* ran is execution_validation_id: the validation that ran the list.
Report == [id : Id, calls : CallLists, proposal : Proposal,
           passed : BOOLEAN, ran : Id, checked : BOOLEAN]
Run == [id : Id, calls : CallLists, on : State, passed : BOOLEAN]
Answer == [kind : {"receipt"}, id : Id]
          \cup [kind : {"full"}, id : Id, proposal : Proposal]

Idle == [stage |-> "idle"]
Unread == [stage |-> "off"]
Reports == ToSet(log)
Known(id) == {r \in validations : r.id = id}

-----------------------------------------------------------------------------
Init ==
    /\ author = "idle"
    /\ inbox = <<>>
    /\ server = Idle
    /\ live = "clean"
    /\ baseline = "none"
    /\ attempts = 0
    /\ executions = {}
    /\ validations = {}
    /\ log = <<>>
    /\ submissions = <<>>
    /\ torn = {}
    /\ hook = Unread
    /\ verdict = Unread
    /\ runs = {}
    /\ calls = 0
    /\ faults = 0
    /\ giveUps = 0

-----------------------------------------------------------------------------
(* The author.                                                             *)

\* The author calls a tool; the request waits for the server's loop.  It
\* submits an id that has been given out; one it makes up is refused.
Call(request) ==
    /\ author = "idle"
    /\ calls < MaxCalls
    /\ request.kind = "submit" => request.id <= attempts
    /\ inbox' = Append(inbox, request)
    /\ author' = "waiting"
    /\ calls' = calls + 1
    /\ UNCHANGED <<server, live, baseline, memory, evidence, outcome,
                   faults, giveUps>>

\* The CLI stops waiting for the answer; the server still serves the request.
GiveUp ==
    /\ author = "waiting"
    /\ giveUps < MaxGiveUps
    /\ author' = "idle"
    /\ giveUps' = giveUps + 1
    /\ UNCHANGED <<inbox, server, live, baseline, memory, evidence, outcome,
                   calls, faults>>

-----------------------------------------------------------------------------
(* The server: serve_jsonrpc handles one request after another.            *)

\* The author resumes when its last request has been answered.
Answered ==
    /\ server' = Idle
    /\ author' = IF author = "waiting" /\ inbox = <<>> THEN "idle" ELSE author

\* Bug: the baseline is taken for validations only, not for business calls.
Take_ValidationsOnly ==
    /\ server = Idle
    /\ author # "done"
    /\ inbox # <<>>
    /\ server' = [stage |-> IF Head(inbox).kind = "validate"
                            THEN "baseline" ELSE Head(inbox).kind,
                  req |-> Head(inbox)]
    /\ inbox' = Tail(inbox)
    /\ UNCHANGED <<author, live, baseline, memory, evidence, outcome, bounds>>

\* _call: a submission needs no baseline, everything else does.
Take ==
    /\ server = Idle
    /\ author # "done"
    /\ inbox # <<>>
    /\ server' = [stage |-> IF Head(inbox).kind = "submit"
                            THEN "submit" ELSE "baseline",
                  req |-> Head(inbox)]
    /\ inbox' = Tail(inbox)
    /\ UNCHANGED <<author, live, baseline, memory, evidence, outcome, bounds>>

\* ensure_baseline: the copy is taken once, of the live state as it is.
BaselineReady ==
    /\ server.stage = "baseline"
    /\ baseline' = IF baseline = "none" THEN live ELSE baseline
    /\ server' = [server EXCEPT !.stage = server.req.kind]
    /\ UNCHANGED <<author, inbox, live, memory, evidence, outcome, bounds>>

\* A copy that fails is removed and the request is answered with an error.
BaselineFails ==
    /\ server.stage = "baseline"
    /\ baseline = "none"
    /\ faults < MaxFaults
    /\ faults' = faults + 1
    /\ Answered
    /\ UNCHANGED <<inbox, live, baseline, memory, evidence, outcome, calls,
                   giveUps>>

\* call_environment_tool on the live workspace: it may change it or not.
CallTool ==
    /\ server.stage = "business"
    /\ live' \in {live, "dirty"}
    /\ Answered
    /\ UNCHANGED <<inbox, baseline, memory, evidence, outcome, bounds>>

\* Executions are looked up by the requested list.
Earlier(list) == {e \in executions : e.calls = list}

\* validate up to the execution: a list that passed before is not run again.
Reuse ==
    /\ server.stage = "validate"
    /\ attempts < MaxAttempts
    /\ attempts' = attempts + 1
    /\ \E e \in Earlier(server.req.calls) :
         server' = [stage |-> "check", req |-> server.req,
                    passed |-> e.passed, ran |-> e.ran]
    /\ UNCHANGED <<author, inbox, live, baseline, executions, validations,
                   runs, evidence, outcome, bounds>>

\* What validate keeps of an execution: only a passed one is reused.
Kept(list, passed, id) ==
    IF passed THEN {[calls |-> list, passed |-> passed, ran |-> id]} ELSE {}

\* execute: the list runs on a fresh copy of the baseline.
Execute ==
    /\ server.stage = "validate"
    /\ attempts < MaxAttempts
    /\ attempts' = attempts + 1
    /\ Earlier(server.req.calls) = {}
    /\ \E passed \in BOOLEAN :
         /\ runs' = runs \cup {[id |-> attempts', calls |-> server.req.calls,
                                on |-> baseline, passed |-> passed]}
         /\ executions' = executions
                \cup Kept(server.req.calls, passed, attempts')
         /\ server' = [stage |-> "check", req |-> server.req,
                       passed |-> passed, ran |-> attempts']
    /\ UNCHANGED <<author, inbox, live, baseline, validations, evidence,
                   outcome, bounds>>

\* The copy, or the move of its results, fails: no record of this attempt.
ExecuteFails ==
    /\ server.stage = "validate"
    /\ attempts < MaxAttempts
    /\ Earlier(server.req.calls) = {}
    /\ faults < MaxFaults
    /\ faults' = faults + 1
    /\ attempts' = attempts + 1
    /\ Answered
    /\ UNCHANGED <<inbox, live, baseline, executions, validations, runs,
                   evidence, outcome, calls, giveUps>>

\* Bug: the check does not compare the proposal's list with the one run.
MayPass_OtherList(request, passed) == passed

\* The source check may pass only for the executed list of a passed run.
MayPass(request, passed) ==
    /\ request.proposal.calls = request.calls
    /\ passed

\* An exception that validate does not turn into an error of the report: the
\* run stays on record for reuse, the attempt leaves no report.
CheckRaises ==
    /\ server.stage = "check"
    /\ faults < MaxFaults
    /\ faults' = faults + 1
    /\ Answered
    /\ UNCHANGED <<inbox, live, baseline, memory, evidence, outcome, calls,
                   giveUps>>

\* validate after the execution: the report is kept in memory first.
Check ==
    /\ server.stage = "check"
    /\ \E checked \in BOOLEAN :
         LET report == [id |-> attempts, calls |-> server.req.calls,
                        proposal |-> server.req.proposal,
                        passed |-> server.passed, ran |-> server.ran,
                        checked |-> checked]
         IN /\ checked => MayPass(server.req, server.passed)
            /\ validations' = validations \cup {report}
            /\ server' = [stage |-> "log", report |-> report]
    /\ UNCHANGED <<author, inbox, live, baseline, attempts, executions, runs,
                   evidence, outcome, bounds>>

\* The report becomes a line of solution_validations.jsonl.
Log ==
    /\ server.stage = "log"
    /\ log' = Append(log, server.report)
    /\ Answered
    /\ UNCHANGED <<inbox, live, baseline, memory, submissions, torn, outcome,
                   bounds>>

\* The append fails, with nothing or with part of the line in the file.
LogFails ==
    /\ server.stage = "log"
    /\ faults < MaxFaults
    /\ faults' = faults + 1
    /\ torn' \in {torn, torn \cup {"validations"}}
    /\ Answered
    /\ UNCHANGED <<inbox, live, baseline, memory, log, submissions, outcome,
                   calls, giveUps>>

\* Bug: submit does not look at the source check.
Acceptable_Unchecked(id) == \E r \in Known(id) : r.passed

\* submit accepts a validation of this process with both verdicts true.
Acceptable(id) == \E r \in Known(id) : r.passed /\ r.checked

Submit ==
    /\ server.stage = "submit"
    /\ Acceptable(server.req.id)
    /\ submissions' = Append(submissions, server.req.id)
    /\ Answered
    /\ UNCHANGED <<inbox, live, baseline, memory, log, torn, outcome, bounds>>

SubmitFails ==
    /\ server.stage = "submit"
    /\ Acceptable(server.req.id)
    /\ faults < MaxFaults
    /\ faults' = faults + 1
    /\ torn' \in {torn, torn \cup {"submissions"}}
    /\ Answered
    /\ UNCHANGED <<inbox, live, baseline, memory, log, submissions, outcome,
                   calls, giveUps>>

SubmitRejected ==
    /\ server.stage = "submit"
    /\ ~Acceptable(server.req.id)
    /\ Answered
    /\ UNCHANGED <<inbox, live, baseline, memory, evidence, outcome, bounds>>

-----------------------------------------------------------------------------
(* The stop hook and run_case.                                             *)

\* The server is in the middle of an append to this file.
Appending(file) ==
    IF file = "validations" THEN server.stage = "log"
    ELSE server.stage = "submit" /\ Acceptable(server.req.id)

\* Whether the file can be read: not if a line of it is broken off, and it is
\* open if the read falls into an append and may get part of its last line.
Readings(file) ==
    {file \notin torn} \cup (IF Appending(file) THEN {FALSE} ELSE {})

\* resolve_submission of a receipt: one matching report, both verdicts true.
Resolves(id, reports) ==
    \E r \in reports : r.id = id /\ r.passed /\ r.checked

\* The accepted submission whose evidence is in the files, if any.
Due == {id \in Id : /\ submissions # <<>> /\ Last(submissions) = id
                    /\ \E r \in Reports : r.id = id}

\* The author wants to stop.  due is history: what is due as the hook starts.
Stop ==
    /\ author = "idle"
    /\ author' = "stopping"
    /\ hook' = [stage |-> "started", due |-> Due]
    /\ UNCHANGED <<inbox, server, live, baseline, memory, evidence, verdict,
                   bounds>>

\* submission_stop_check reads the validations, then the submissions.
\* overlap is history: a read fell into an append.
HookReadsValidations ==
    /\ hook.stage = "started"
    /\ \E readable \in Readings("validations") :
         hook' = [stage |-> "read", due |-> hook.due, reports |-> Reports,
                  readable |-> readable, overlap |-> Appending("validations")]
    /\ UNCHANGED <<author, inbox, server, live, baseline, memory, evidence,
                   verdict, bounds>>

\* Only the last submission counts.
Allows(reports) ==
    /\ submissions # <<>>
    /\ Resolves(Last(submissions), reports)

HookDecides ==
    /\ hook.stage = "read"
    /\ \E readable \in Readings("submissions") :
         LET allowed == hook.readable /\ readable /\ Allows(hook.reports) IN
         /\ hook' = [stage |-> "decided",
                     due |-> {id \in hook.due : id = Last(submissions)},
                     allowed |-> IF allowed THEN {Last(submissions)} ELSE {},
                     overlap |-> hook.overlap \/ Appending("submissions")]
         /\ author' = IF allowed THEN "answering" ELSE "idle"
    /\ UNCHANGED <<inbox, server, live, baseline, memory, evidence, verdict,
                   bounds>>

\* resolve_submission: a receipt stands for its proposal, a full proposal
\* for itself.  CHOOSE is sound where Resolves holds: ids are unique.
Resolved(answer) ==
    IF answer.kind = "full" THEN answer.proposal
    ELSE (CHOOSE r \in Reports : r.id = answer.id).proposal

\* Bug: the final check looks at the calls only.
Validated_CallsOnly(answer) ==
    \E r \in Reports :
        /\ r.id = answer.id
        /\ r.passed
        /\ r.calls = Resolved(answer).calls

\* validated_reference: the cited report is about exactly this proposal.
Validated(answer) ==
    \E r \in Reports :
        /\ r.id = answer.id
        /\ r.passed
        /\ r.calls = Resolved(answer).calls
        /\ r.checked
        /\ r.proposal = Resolved(answer)

\* run_case after the CLI has ended: the server has been stopped with it, and
\* an append it was in may have left part of a line.
Finish(answer) ==
    /\ author = "answering"
    /\ author' = "done"
    /\ \E readable \in Readings("validations") : verdict' =
         IF /\ readable
            /\ answer.kind = "receipt" => Resolves(answer.id, Reports)
            /\ Validated(answer)
         THEN [stage |-> "accepted", id |-> answer.id,
               proposal |-> Resolved(answer)]
         ELSE [stage |-> "stage_error"]
    /\ UNCHANGED <<inbox, server, live, baseline, memory, evidence, hook,
                   bounds>>

-----------------------------------------------------------------------------
Serve ==
    \/ Take
    \/ BaselineReady \/ BaselineFails
    \/ CallTool
    \/ Reuse \/ Execute \/ ExecuteFails
    \/ Check \/ CheckRaises
    \/ Log \/ LogFails
    \/ Submit \/ SubmitFails \/ SubmitRejected

\* Once the session is over the server is gone.
Next ==
    \/ \E request \in Request : Call(request)
    \/ GiveUp
    \/ author # "done" /\ Serve
    \/ Stop \/ HookReadsValidations \/ HookDecides
    \/ \E answer \in Answer : Finish(answer)

Spec == Init /\ [][Next]_vars

-----------------------------------------------------------------------------
(* Properties.                                                             *)

Serving ==
    [stage : {"idle"}]
    \cup [stage : {"baseline"}, req : Business \cup Validation]
    \cup [stage : {"business"}, req : Business]
    \cup [stage : {"validate"}, req : Validation]
    \cup [stage : {"check"}, req : Validation, passed : BOOLEAN, ran : Id]
    \cup [stage : {"log"}, report : Report]
    \cup [stage : {"submit"}, req : Submission]

Reading ==
    [stage : {"off"}]
    \cup [stage : {"started"}, due : SUBSET Id]
    \cup [stage : {"read"}, due : SUBSET Id, reports : SUBSET Report,
          readable : BOOLEAN, overlap : BOOLEAN]
    \cup [stage : {"decided"}, due : SUBSET Id, allowed : SUBSET Id,
          overlap : BOOLEAN]

Verdict ==
    [stage : {"off", "stage_error"}]
    \cup [stage : {"accepted"}, id : Id, proposal : Proposal]

TypeOK ==
    /\ author \in {"idle", "waiting", "stopping", "answering", "done"}
    /\ inbox \in Seq(Request)
    /\ server \in Serving
    /\ live \in State
    /\ baseline \in State \cup {"none"}
    /\ attempts \in 0..MaxAttempts
    /\ executions \subseteq [calls : CallLists, passed : BOOLEAN, ran : Id]
    /\ validations \subseteq Report
    /\ log \in Seq(Report)
    /\ submissions \in Seq(Id)
    /\ torn \subseteq {"validations", "submissions"}
    /\ hook \in Reading
    /\ verdict \in Verdict
    /\ runs \subseteq Run
    /\ calls \in 0..MaxCalls
    /\ faults \in 0..MaxFaults
    /\ giveUps \in 0..MaxGiveUps

\* A report that says its list passed names a run of that very list which
\* did pass, and which started from the task's initial state, whatever the
\* author did to the live workspace before, between or after.
PassedRanClean ==
    \A r \in validations \cup Reports :
        r.passed => \E x \in runs : /\ x.id = r.ran /\ x.calls = r.calls
                                   /\ x.passed /\ x.on = "clean"

\* A failing verdict is always that of a run of its own: no author is told
\* that a list fails because it failed before.
FailedRanFresh ==
    \A r \in validations \cup Reports :
        ~r.passed => r.ran = r.id /\ \E x \in runs : x.id = r.id /\ ~x.passed

\* Both kinds of verdict stand for what was run.
ReportsAreTrue == PassedRanClean /\ FailedRanFresh

\* A submission whose evidence was in the files when the stop hook started,
\* and which no later one has replaced, is let through, although the hook
\* reads the two files one after the other and the server may have served
\* requests in between.  The exceptions are a line that is broken off for
\* good, and a read that falls into an append: then the hook may get part of
\* a line and block, and the author has to stop again.
DueIsAllowed ==
    hook.stage = "decided" /\ torn = {} /\ ~hook.overlap
        => hook.due \subseteq hook.allowed

\* What the stop hook lets through satisfies the stricter check run_case
\* makes later: the author that answers with that receipt is not refused.
AllowedIsValidated ==
    hook.stage = "decided" /\ "validations" \notin torn =>
        \A id \in hook.allowed : Validated([kind |-> "receipt", id |-> id])

\* The task run_case writes has a reference that passed from the initial
\* state, list for list, and a proposal whose sources were checked with it.
FinalIsValidated ==
    verdict.stage = "accepted" =>
        \E r \in validations :
            /\ r.id = verdict.id /\ r.proposal = verdict.proposal /\ r.checked
            /\ \E x \in runs : /\ x.id = r.ran /\ x.passed /\ x.on = "clean"
                               /\ x.calls = verdict.proposal.calls

=============================================================================
