---------------------- MODULE SolutionAuthoring_proofs ----------------------
(***************************************************************************)
(* Proofs about SolutionAuthoring, for any call lists, texts and bounds:   *)
(* the types; that a report tells the truth about a run from the initial   *)
(* state; that the stop hook, reading its two files one after the other,   *)
(* and the check of the final answer agree; and that what run_case writes  *)
(* was validated.                                                          *)
(***************************************************************************)
EXTENDS SolutionAuthoring, TLAPS

\* A run that passed, of this list and from the initial state.
Proved(id, list) ==
    \E x \in runs : x.id = id /\ x.calls = list /\ x.passed /\ x.on = "clean"

\* Only business calls touch the live workspace, and the baseline comes before them.
BaselineInv ==
    /\ baseline \in {"none", "clean"}
    /\ baseline = "none" => live = "clean"
    /\ server.stage \in {"business", "validate"} => baseline # "none"

\* What is kept for reuse passed, and what is being checked is the last attempt.
RunInv ==
    /\ \A e \in executions : e.passed /\ Proved(e.ran, e.calls)
    /\ server.stage = "check" =>
         /\ attempts \in Id
         /\ server.passed => Proved(server.ran, server.req.calls)
         /\ ~server.passed =>
              server.ran = attempts /\ \E x \in runs : x.id = attempts /\ ~x.passed

\* What a report must be for the properties to hold of it.
Truthful(r) ==
    /\ r.passed => Proved(r.ran, r.calls)
    /\ ~r.passed => r.ran = r.id /\ \E x \in runs : x.id = r.id /\ ~x.passed
    /\ r.checked => r.passed /\ r.proposal.calls = r.calls

\* Reports are numbered by the attempts, and the evidence holds nothing else.
ReportInv ==
    /\ \A r \in validations : Truthful(r) /\ r.id <= attempts
    /\ \A r, s \in validations : r.id = s.id => r = s
    /\ server.stage = "check" => \A r \in validations : r.id # attempts
    /\ server.stage = "log" => server.report \in validations
    /\ Reports \subseteq validations

Good(id, reports) == \E r \in reports : r.id = id /\ r.passed /\ r.checked

\* What was submitted was validated; what the hook has read is in the evidence; and
\* what is due when it starts it finds.
HookInv ==
    /\ \A i \in 1..Len(submissions) : Good(submissions[i], validations)
    /\ hook.stage \in {"started", "read"} => (hook.due # {} => submissions # <<>>)
    /\ hook.stage = "started" => \A id \in hook.due : Good(id, Reports)
    /\ hook.stage = "read" =>
         /\ hook.reports \subseteq Reports
         /\ \A id \in hook.due : Good(id, hook.reports)
         /\ torn = {} /\ ~hook.overlap => hook.readable
    /\ hook.stage = "decided" =>
         /\ \A id \in hook.allowed : Good(id, Reports)
         /\ torn = {} /\ ~hook.overlap => hook.due \subseteq hook.allowed

\* The inductive invariant.
IInv == TypeOK /\ BaselineInv /\ RunInv /\ ReportInv /\ HookInv /\ FinalIsValidated

\* The fields of the request being served, by its stage.
LEMMA ServerShape ==
  ASSUME server \in Serving
  PROVE  /\ server.stage \in {"idle", "baseline", "business", "validate", "check", "log",
                              "submit"}
         /\ server.stage = "baseline" =>
              /\ server.req \in Business \cup Validation
              /\ server = [stage |-> "baseline", req |-> server.req]
         /\ server.stage = "validate" => server.req \in Validation
         /\ server.stage = "check" =>
              server.req \in Validation /\ server.passed \in BOOLEAN /\ server.ran \in Id
         /\ server.stage = "log" => server.report \in Report
         /\ server.stage = "submit" => server.req \in Submission /\ server.req.id \in Id
  BY DEF Serving, Submission

LEMMA HookShape ==
  ASSUME hook \in Reading
  PROVE  /\ hook.stage \in {"off", "started", "read", "decided"}
         /\ hook.stage # "off" => hook.due \subseteq Id
         /\ hook.stage = "read" =>
              /\ hook.reports \subseteq Report /\ hook.readable \in BOOLEAN
              /\ hook.overlap \in BOOLEAN
         /\ hook.stage = "decided" => hook.allowed \subseteq Id /\ hook.overlap \in BOOLEAN
  BY DEF Reading

LEMMA RequestKinds ==
  /\ \A r \in Request : \/ r \in Business /\ r.kind = "business"
                        \/ r \in Validation /\ r.kind = "validate"
                        \/ r \in Submission /\ r.kind = "submit"
  BY DEF Request, Business, Validation, Submission

\* A line at the end of the evidence.
LEMMA AppendedReports ==
  ASSUME NEW S, NEW s \in Seq(S), NEW e \in S
  PROVE  /\ Append(s, e) \in Seq(S) /\ ToSet(Append(s, e)) = ToSet(s) \cup {e}
         /\ Append(s, e) # <<>> /\ Len(Append(s, e)) = Len(s) + 1
         /\ Append(s, e)[Len(s) + 1] = e
         /\ \A i \in 1..Len(s) : Append(s, e)[i] = s[i]
<1>1. /\ Len(s) \in Nat /\ Append(s, e) \in Seq(S) /\ Len(Append(s, e)) = Len(s) + 1
      /\ Append(s, e)[Len(s) + 1] = e /\ \A i \in 1..Len(s) : Append(s, e)[i] = s[i]
  OBVIOUS
<1>2. DOMAIN s = 1..Len(s) /\ DOMAIN Append(s, e) = 1..(Len(s) + 1)
  OBVIOUS
<1>3. 1..(Len(s) + 1) = 1..Len(s) \cup {Len(s) + 1}
  BY <1>1
<1>4. ToSet(Append(s, e)) = ToSet(s) \cup {e}
  BY <1>1, <1>2, <1>3 DEF ToSet
<1> QED  BY <1>1, <1>4

\* How a request ends: the server is idle, and its author may go on.
LEMMA AnsweredTypes ==
  ASSUME TypeOK, Answered
  PROVE  /\ server' \in Serving /\ server'.stage = "idle"
         /\ author' \in {"idle", "waiting", "stopping", "answering", "done"}
  BY DEF TypeOK, Answered, Idle, Serving

\* Every step of the author, the server and the hook keeps the types.
LEMMA TypeOKStep == TypeOK /\ BaselineInv /\ RunInv /\ [Next]_vars => TypeOK'
<1> SUFFICES ASSUME TypeOK, BaselineInv, RunInv, [Next]_vars PROVE TypeOK'
  OBVIOUS
<1> USE SAAssumption, ServerShape, HookShape, AnsweredTypes
    DEF TypeOK, memory, evidence, outcome, bounds
<1>1. ASSUME NEW request \in Request, Call(request) PROVE TypeOK'
  <2>1. inbox' \in Seq(Request)
    BY <1>1, AppendedReports DEF Call
  <2> QED  BY <1>1, <2>1 DEF Call
<1>2. CASE GiveUp
  BY <1>2 DEF GiveUp
<1>3. CASE Take
  <2>1. Head(inbox) \in Request /\ Tail(inbox) \in Seq(Request)
    BY <1>3 DEF Take
  <2>2. server' \in Serving
    BY <1>3, <2>1, RequestKinds DEF Take, Serving
  <2> QED  BY <1>3, <2>1, <2>2 DEF Take
<1>4. CASE BaselineReady
  <2>1. server.req \in Business \cup Validation
        /\ server' = [stage |-> server.req.kind, req |-> server.req]
    BY <1>4 DEF BaselineReady
  <2>2. server' \in Serving
    BY <2>1 DEF Serving, Business, Validation
  <2>3. baseline' \in State \cup {"none"}
    BY <1>4 DEF BaselineReady
  <2> QED  BY <1>4, <2>2, <2>3 DEF BaselineReady
<1>5. CASE BaselineFails
  BY <1>5 DEF BaselineFails
<1>6. CASE CallTool
  BY <1>6 DEF CallTool, State
<1>7. CASE Reuse
  <2>1. PICK e \in executions :
          server' = [stage |-> "check", req |-> server.req, passed |-> e.passed,
                     ran |-> e.ran]
    BY <1>7 DEF Reuse, Earlier
  <2>2. server' \in Serving
    BY <1>7, <2>1 DEF Reuse, Serving
  <2>3. attempts' \in 0..MaxAttempts
    BY <1>7 DEF Reuse
  <2> QED  BY <1>7, <2>2, <2>3 DEF Reuse
<1>8. CASE Execute
  <2>1. attempts' \in Id /\ attempts' \in 0..MaxAttempts
    BY <1>8 DEF Execute, Id
  <2>2. PICK passed \in BOOLEAN :
          /\ runs' = runs \cup {[id |-> attempts', calls |-> server.req.calls,
                                 on |-> baseline, passed |-> passed]}
          /\ executions' = executions \cup Kept(server.req.calls, passed, attempts')
          /\ server' = [stage |-> "check", req |-> server.req, passed |-> passed,
                        ran |-> attempts']
    BY <1>8 DEF Execute
  <2>3. server.req \in Validation /\ server.req.calls \in CallLists /\ baseline \in State
    BY <1>8 DEF Execute, Validation, BaselineInv
  <2>4. server' \in Serving
    BY <2>1, <2>2, <2>3 DEF Serving
  <2>5. runs' \subseteq Run
    BY <2>1, <2>2, <2>3 DEF Run
  <2>6. executions' \subseteq [calls : CallLists, passed : BOOLEAN, ran : Id]
    BY <2>1, <2>2, <2>3 DEF Kept
  <2> QED  BY <1>8, <2>1, <2>4, <2>5, <2>6 DEF Execute
<1>9. CASE ExecuteFails
  <2>1. attempts' \in 0..MaxAttempts
    BY <1>9 DEF ExecuteFails
  <2> QED  BY <1>9, <2>1 DEF ExecuteFails
<1>10. CASE Check
  <2>1. PICK checked \in BOOLEAN :
          LET report == [id |-> attempts, calls |-> server.req.calls,
                         proposal |-> server.req.proposal, passed |-> server.passed,
                         ran |-> server.ran, checked |-> checked]
          IN /\ validations' = validations \cup {report}
             /\ server' = [stage |-> "log", report |-> report]
    BY <1>10 DEF Check
  <2> DEFINE report == [id |-> attempts, calls |-> server.req.calls,
                        proposal |-> server.req.proposal, passed |-> server.passed,
                        ran |-> server.ran, checked |-> checked]
  <2>2. report \in Report
    BY <1>10 DEF Check, RunInv, Validation, Report
  <2>3. server' \in Serving
    BY <2>1, <2>2 DEF Serving
  <2> QED  BY <1>10, <2>1, <2>2, <2>3 DEF Check
<1>11. CASE Log
  <2>1. log' \in Seq(Report)
    BY <1>11, AppendedReports DEF Log
  <2> QED  BY <1>11, <2>1 DEF Log
<1>12. CASE LogFails
  BY <1>12 DEF LogFails
<1>13. CASE Submit
  <2>1. submissions' \in Seq(Id)
    BY <1>13, AppendedReports DEF Submit
  <2> QED  BY <1>13, <2>1 DEF Submit
<1>14. CASE SubmitFails \/ SubmitRejected \/ CheckRaises
  BY <1>14 DEF SubmitFails, SubmitRejected, CheckRaises
<1>15. CASE Stop
  <2>1. hook' \in Reading
    BY <1>15 DEF Stop, Reading, Due
  <2> QED  BY <1>15, <2>1 DEF Stop
<1>16. CASE HookReadsValidations
  <2>1. Reports \subseteq Report
    BY DEF Reports, ToSet
  <2>2. PICK readable \in BOOLEAN, overlap \in BOOLEAN :
          hook' = [stage |-> "read", due |-> hook.due, reports |-> Reports,
                   readable |-> readable, overlap |-> overlap]
    BY <1>16 DEF HookReadsValidations, Readings, Appending
  <2>3. hook' \in Reading
    BY <1>16, <2>1, <2>2 DEF HookReadsValidations, Reading
  <2> QED  BY <1>16, <2>3 DEF HookReadsValidations
<1>17. CASE HookDecides
  <2>1. Allows(hook.reports) => Last(submissions) \in Id
    <3>1. submissions # <<>> => submissions[Len(submissions)] \in Id
      OBVIOUS
    <3> QED  BY <3>1 DEF Allows, Last
  <2>2. PICK due \in SUBSET Id, allowed \in SUBSET Id, overlap \in BOOLEAN :
          hook' = [stage |-> "decided", due |-> due, allowed |-> allowed,
                   overlap |-> overlap]
    <3>1. {id \in hook.due : id = Last(submissions)} \in SUBSET Id
      BY <1>17 DEF HookDecides
    <3>2. (hook.overlap \/ Appending("submissions")) \in BOOLEAN
      BY <1>17 DEF HookDecides, Appending, Acceptable
    <3> QED  BY <1>17, <2>1, <3>1, <3>2 DEF HookDecides
  <2>3. hook' \in Reading
    BY <2>2 DEF Reading
  <2> QED  BY <1>17, <2>3 DEF HookDecides
<1>18. ASSUME NEW answer \in Answer, Finish(answer) PROVE TypeOK'
  <2>1. verdict' \in Verdict
    <3>1. CASE verdict' = [stage |-> "stage_error"]
      BY <3>1 DEF Verdict
    <3>2. CASE /\ verdict' = [stage |-> "accepted", id |-> answer.id,
                              proposal |-> Resolved(answer)]
               /\ Validated(answer)
      <4>1. PICK r \in Reports : r.proposal = Resolved(answer)
        BY <3>2 DEF Validated
      <4>2. r \in Report
        BY DEF Reports, ToSet
      <4>3. r.proposal \in Proposal /\ answer.id \in Id
        BY <4>2 DEF Report, Answer
      <4> QED  BY <3>2, <4>1, <4>3 DEF Verdict
    <3> QED  BY <1>18, <3>1, <3>2 DEF Finish
  <2> QED  BY <1>18, <2>1 DEF Finish
<1>19. CASE UNCHANGED vars
  BY <1>19 DEF vars
<1> QED
  BY <1>1, <1>2, <1>3, <1>4, <1>5, <1>6, <1>7, <1>8, <1>9, <1>10, <1>11, <1>12, <1>13,
     <1>14, <1>15, <1>16, <1>17, <1>18, <1>19 DEF Next, Serve

\* The baseline is taken before any business call is served, and once.
LEMMA BaselineInvStep == TypeOK /\ BaselineInv /\ [Next]_vars => BaselineInv'
<1> SUFFICES ASSUME TypeOK, BaselineInv, [Next]_vars PROVE BaselineInv'
  OBVIOUS
<1> USE ServerShape DEF TypeOK, BaselineInv, memory, evidence, outcome, bounds, Answered, Idle
<1>1. CASE Take
  BY <1>1, RequestKinds DEF Take, Request, Business, Validation, Submission
<1>2. CASE BaselineReady
  <2>1. server'.stage = server.req.kind /\ server.req.kind # "none"
    BY <1>2 DEF BaselineReady, Business, Validation
  <2> QED  BY <1>2, <2>1 DEF BaselineReady, State
<1>3. CASE BaselineFails \/ CallTool
  BY <1>3 DEF BaselineFails, CallTool
<1>4. CASE Reuse \/ Execute \/ ExecuteFails \/ Check \/ CheckRaises
  BY <1>4 DEF Reuse, Execute, ExecuteFails, Check, CheckRaises
<1>5. CASE Log \/ LogFails \/ Submit \/ SubmitFails \/ SubmitRejected
  BY <1>5 DEF Log, LogFails, Submit, SubmitFails, SubmitRejected
<1>6. CASE (\E request \in Request : Call(request)) \/ GiveUp
  BY <1>6 DEF Call, GiveUp
<1>7. CASE Stop \/ HookReadsValidations \/ HookDecides \/ \E answer \in Answer : Finish(answer)
  BY <1>7 DEF Stop, HookReadsValidations, HookDecides, Finish
<1>8. CASE UNCHANGED vars
  BY <1>8 DEF vars
<1> QED
  BY <1>1, <1>2, <1>3, <1>4, <1>5, <1>6, <1>7, <1>8 DEF Next, Serve

\* Runs are added to; a list that is run is run from the initial state.
LEMMA RunInvStep == TypeOK /\ BaselineInv /\ RunInv /\ [Next]_vars => RunInv'
<1> SUFFICES ASSUME TypeOK, BaselineInv, RunInv, [Next]_vars PROVE RunInv'
  OBVIOUS
<1> USE SAAssumption, ServerShape DEF TypeOK
<1>1. CASE UNCHANGED memory /\ (server'.stage # "check" \/ server' = server)
  BY <1>1 DEF memory, RunInv, Proved
<1>2. CASE Take \/ BaselineReady
  <2>1. server'.stage # "check"
    BY <1>2 DEF Take, BaselineReady, Business, Validation, RequestKinds, Request, Submission
  <2> QED  BY <1>1, <1>2, <2>1 DEF Take, BaselineReady
<1>3. CASE \/ BaselineFails \/ CallTool \/ CheckRaises \/ Log \/ LogFails
           \/ Submit \/ SubmitFails \/ SubmitRejected
  BY <1>1, <1>3 DEF BaselineFails, CallTool, CheckRaises, Log, LogFails, Submit,
                    SubmitFails, SubmitRejected, Answered, Idle
<1>4. CASE Reuse
  <2>1. PICK e \in executions :
          /\ e.calls = server.req.calls
          /\ server' = [stage |-> "check", req |-> server.req, passed |-> e.passed,
                        ran |-> e.ran]
    BY <1>4 DEF Reuse, Earlier
  <2>2. attempts' \in Id
    BY <1>4 DEF Reuse, Id
  <2> QED  BY <1>4, <2>1, <2>2 DEF Reuse, RunInv, Proved
<1>5. CASE Execute
  <2>1. PICK passed \in BOOLEAN :
          /\ runs' = runs \cup {[id |-> attempts', calls |-> server.req.calls,
                                 on |-> baseline, passed |-> passed]}
          /\ executions' = executions \cup Kept(server.req.calls, passed, attempts')
          /\ server' = [stage |-> "check", req |-> server.req, passed |-> passed,
                        ran |-> attempts']
    BY <1>5 DEF Execute
  <2>2. PICK id \in Id, list \in CallLists : id = attempts' /\ list = server.req.calls
    BY <1>5 DEF Execute, Id, Validation
  <2> DEFINE run == [id |-> id, calls |-> list, on |-> "clean", passed |-> passed]
  <2>3. runs' = runs \cup {run}
    BY <1>5, <2>1, <2>2 DEF Execute, BaselineInv
  <2>4. /\ passed => Proved(id, list)'
        /\ ~passed => \E x \in runs' : x.id = id /\ ~x.passed
    <3>1. run \in runs' /\ run.id = id /\ run.calls = list /\ run.on = "clean"
          /\ run.passed = passed
      BY <2>3
    <3> HIDE DEF run
    <3>2. CASE passed  BY <3>1, <3>2 DEF Proved
    <3>3. CASE ~passed  BY <3>1, <3>3 DEF Proved
    <3> QED  BY <3>2, <3>3
  <2>5. \A e \in executions' : e.passed /\ Proved(e.ran, e.calls)'
    <3>1. \A e \in executions : e.passed /\ Proved(e.ran, e.calls)'
      BY <2>3 DEF RunInv, Proved
    <3>2. ASSUME NEW e \in Kept(list, passed, id)
          PROVE  e.passed /\ Proved(e.ran, e.calls)'
      <4>1. passed /\ e.passed /\ e.ran = id /\ e.calls = list
        BY <3>2 DEF Kept
      <4> QED  BY <2>4, <4>1 DEF Proved
    <3> QED  BY <2>1, <2>2, <3>1, <3>2
  <2>6. server'.passed = passed /\ server'.ran = id /\ server'.req.calls = list
    BY <2>1, <2>2
  <2> QED  BY <2>2, <2>4, <2>5, <2>6 DEF RunInv, Proved
<1>6. CASE ExecuteFails
  BY <1>6 DEF ExecuteFails, Answered, Idle, RunInv, Proved
<1>7. CASE Check
  <2>1. server'.stage = "log" /\ UNCHANGED <<attempts, executions, runs>>
    BY <1>7 DEF Check
  <2> QED  BY <2>1 DEF RunInv, Proved
<1>8. CASE (\E request \in Request : Call(request)) \/ GiveUp
  BY <1>1, <1>8 DEF Call, GiveUp
<1>9. CASE Stop \/ HookReadsValidations \/ HookDecides \/ \E answer \in Answer : Finish(answer)
  BY <1>1, <1>9 DEF Stop, HookReadsValidations, HookDecides, Finish
<1>10. CASE UNCHANGED vars
  BY <1>1, <1>10 DEF vars, memory
<1> QED
  BY <1>2, <1>3, <1>4, <1>5, <1>6, <1>7, <1>8, <1>9, <1>10 DEF Next, Serve

\* Reports are kept, and a new one has a number of its own.
LEMMA ReportInvStep ==
  TypeOK /\ BaselineInv /\ RunInv /\ ReportInv /\ [Next]_vars => ReportInv'
<1> SUFFICES ASSUME TypeOK, BaselineInv, RunInv, ReportInv, [Next]_vars PROVE ReportInv'
  OBVIOUS
<1> USE SAAssumption, ServerShape DEF TypeOK
<1>1. CASE /\ UNCHANGED <<memory, log>>
           /\ server'.stage \notin {"check", "log"} \/ server' = server
  BY <1>1 DEF memory, ReportInv, Truthful, Proved, Reports
<1>2. CASE Take \/ BaselineReady
  <2>1. server'.stage \notin {"check", "log"}
    BY <1>2 DEF Take, BaselineReady, Business, Validation, Request, Submission
  <2> QED  BY <1>1, <1>2, <2>1 DEF Take, BaselineReady, evidence
<1>3. CASE \/ BaselineFails \/ CallTool \/ CheckRaises \/ LogFails \/ Submit
           \/ SubmitFails \/ SubmitRejected
  BY <1>1, <1>3 DEF BaselineFails, CallTool, CheckRaises, LogFails, Submit, SubmitFails,
                    SubmitRejected, Answered, Idle, evidence
<1>4. CASE Reuse \/ Execute \/ ExecuteFails
  <2>1. /\ attempts' = attempts + 1 /\ UNCHANGED <<validations, log>> /\ runs \subseteq runs'
        /\ server'.stage # "log"
    BY <1>4 DEF Reuse, Execute, ExecuteFails, Answered, Idle, evidence
  <2>2. \A r \in validations : r.id \in Nat /\ r.id <= attempts /\ r.id # attempts'
    BY <2>1 DEF ReportInv, Report, Id
  <2>3. \A r \in validations : Truthful(r)'
    BY <2>1 DEF ReportInv, Truthful, Proved
  <2> QED  BY <2>1, <2>2, <2>3 DEF ReportInv, Reports
<1>5. CASE Check
  <2>1. PICK checked \in BOOLEAN :
          LET report == [id |-> attempts, calls |-> server.req.calls,
                         proposal |-> server.req.proposal, passed |-> server.passed,
                         ran |-> server.ran, checked |-> checked]
          IN /\ checked => MayPass(server.req, server.passed)
             /\ validations' = validations \cup {report}
             /\ server' = [stage |-> "log", report |-> report]
    BY <1>5 DEF Check
  <2> DEFINE report == [id |-> attempts, calls |-> server.req.calls,
                        proposal |-> server.req.proposal, passed |-> server.passed,
                        ran |-> server.ran, checked |-> checked]
  <2>2. UNCHANGED <<runs, log, attempts>> /\ server.stage = "check"
    BY <1>5 DEF Check, evidence
  <2>3. Truthful(report)
    BY <2>1, <2>2 DEF RunInv, Truthful, MayPass
  <2>4. \A r \in validations' : Truthful(r)'
    BY <2>1, <2>2, <2>3 DEF ReportInv, Truthful, Proved
  <2>5. \A r \in validations : r.id # report.id /\ r.id <= attempts
    BY <2>2 DEF ReportInv
  <2>6. report.id <= attempts
    OBVIOUS
  <2>7. server'.stage = "log" /\ server'.report = report
    BY <2>1
  <2> HIDE DEF report
  <2>8. validations' = validations \cup {report}
    BY <2>1 DEF report
  <2> QED  BY <2>2, <2>4, <2>5, <2>6, <2>7, <2>8 DEF ReportInv, Reports
<1>6. CASE Log
  <2>1. ToSet(log') = ToSet(log) \cup {server.report}
    BY <1>6, AppendedReports DEF Log
  <2>2. UNCHANGED memory /\ server.stage = "log" /\ server'.stage = "idle"
    BY <1>6 DEF Log, Answered, Idle
  <2> QED  BY <2>1, <2>2 DEF ReportInv, Reports, Truthful, Proved, memory
<1>7. CASE (\E request \in Request : Call(request)) \/ GiveUp
  BY <1>1, <1>7 DEF Call, GiveUp, evidence
<1>8. CASE Stop \/ HookReadsValidations \/ HookDecides \/ \E answer \in Answer : Finish(answer)
  BY <1>1, <1>8 DEF Stop, HookReadsValidations, HookDecides, Finish, evidence
<1>9. CASE UNCHANGED vars
  BY <1>1, <1>9 DEF vars, memory
<1> QED
  BY <1>2, <1>3, <1>4, <1>5, <1>6, <1>7, <1>8, <1>9 DEF Next, Serve

\* A good report stays one, and is the only one with its number.
LEMMA GoodStays ==
  ASSUME NEW A, NEW B, A \subseteq B, NEW id, Good(id, A)
  PROVE  Good(id, B)
  BY DEF Good

LEMMA GoodFound ==
  ASSUME ReportInv, NEW id, Good(id, validations), NEW A, A \subseteq validations,
         \E r \in A : r.id = id
  PROVE  Good(id, A)
  BY DEF ReportInv, Good

\* Submissions and reports are only added to, and the hook finds what it found before.
LEMMA HookInvStep ==
  TypeOK /\ BaselineInv /\ RunInv /\ ReportInv /\ HookInv /\ [Next]_vars => HookInv'
<1> SUFFICES ASSUME TypeOK, BaselineInv, RunInv, ReportInv, HookInv, [Next]_vars PROVE HookInv'
  OBVIOUS
<1> USE SAAssumption, ServerShape, HookShape DEF TypeOK
<1>1. ASSUME UNCHANGED <<submissions, hook>>, Reports \subseteq Reports',
             validations \subseteq validations', torn \subseteq torn'
      PROVE  HookInv'
  <2>1. \A A, B, id : A \subseteq B /\ Good(id, A) => Good(id, B)
    BY GoodStays
  <2>2. \A i \in 1..Len(submissions) : Good(submissions[i], validations')
    BY <1>1, <2>1 DEF HookInv
  <2>3. \A id : Good(id, Reports) => Good(id, Reports')
    BY <1>1, <2>1
  <2>4. torn' = {} => torn = {}
    BY <1>1
  <2> QED  BY <1>1, <2>2, <2>3, <2>4 DEF HookInv, Good
<1>2. CASE Serve
  <2>1. CASE Submit
    <3>1. server.req.id \in Id /\ Good(server.req.id, validations)
      BY <2>1 DEF Submit, Acceptable, Known, Good
    <3>2. PICK id \in Id : id = server.req.id
      BY <3>1
    <3>3. submissions' = Append(submissions, id) /\ UNCHANGED <<hook, log, torn, validations>>
      BY <2>1, <3>2 DEF Submit, memory, outcome
    <3>4. /\ submissions' # <<>> /\ Len(submissions') = Len(submissions) + 1
          /\ submissions'[Len(submissions) + 1] = id
          /\ \A i \in 1..Len(submissions) : submissions'[i] = submissions[i]
      BY <3>3, AppendedReports
    <3>5. \A i \in 1..Len(submissions') : Good(submissions'[i], validations')
      BY <3>1, <3>2, <3>3, <3>4 DEF HookInv
    <3> QED  BY <3>3, <3>4, <3>5 DEF HookInv, Good, Reports
  <2>2. CASE Log
    <3>1. ToSet(log') = ToSet(log) \cup {server.report}
      BY <2>2, AppendedReports DEF Log
    <3> QED  BY <1>1, <2>2, <3>1 DEF Log, Reports, memory, outcome
  <2>3. CASE \/ Take \/ BaselineReady \/ BaselineFails \/ CallTool
             \/ Reuse \/ Execute \/ ExecuteFails
    BY <1>1, <2>3 DEF Take, BaselineReady, BaselineFails, CallTool, Reuse, Execute,
                      ExecuteFails, memory, evidence, outcome, Reports
  <2>4. CASE Check \/ CheckRaises \/ LogFails \/ SubmitFails \/ SubmitRejected
    BY <1>1, <2>4 DEF Check, CheckRaises, LogFails, SubmitFails, SubmitRejected, memory, evidence, outcome,
                      Reports
  <2> QED  BY <1>2, <2>1, <2>2, <2>3, <2>4 DEF Serve
<1>3. CASE (\E request \in Request : Call(request)) \/ GiveUp
      \/ (\E answer \in Answer : Finish(answer)) \/ UNCHANGED vars
  BY <1>1, <1>3 DEF Call, GiveUp, Finish, vars, memory, evidence, outcome, Reports
<1>4. CASE Stop
  <2>1. /\ hook'.stage = "started" /\ hook'.due = Due
        /\ UNCHANGED <<log, submissions, torn, validations>>
    BY <1>4 DEF Stop, memory, evidence
  <2>2. ASSUME NEW id \in Due PROVE submissions # <<>> /\ Good(id, Reports)
    <3>1. submissions # <<>> /\ id = submissions[Len(submissions)] /\ \E r \in Reports : r.id = id
      BY <2>2 DEF Due, Last
    <3>2. Len(submissions) \in 1..Len(submissions)
      BY <3>1
    <3>3. Good(id, validations)
      BY <3>1, <3>2 DEF HookInv
    <3> QED  BY <3>1, <3>3, GoodFound DEF ReportInv
  <2> QED  BY <2>1, <2>2 DEF HookInv, Good, Reports
<1>5. CASE HookReadsValidations
  <2>1. /\ hook.stage = "started" /\ hook'.stage = "read" /\ hook'.due = hook.due
        /\ hook'.reports = Reports
        /\ torn = {} /\ ~hook'.overlap => hook'.readable
        /\ UNCHANGED <<log, submissions, torn, validations>>
    <3>1. PICK readable \in Readings("validations") :
            hook' = [stage |-> "read", due |-> hook.due, reports |-> Reports,
                     readable |-> readable, overlap |-> Appending("validations")]
      BY <1>5 DEF HookReadsValidations
    <3>2. torn = {} /\ ~Appending("validations") => readable
      BY DEF Readings
    <3>3. torn = {} /\ ~hook'.overlap => hook'.readable
      BY <3>1, <3>2
    <3>4. hook'.stage = "read" /\ hook'.due = hook.due /\ hook'.reports = Reports
      BY <3>1
    <3>5. hook.stage = "started" /\ UNCHANGED <<log, submissions, torn, validations>>
      BY <1>5 DEF HookReadsValidations, memory, evidence
    <3> QED  BY <3>3, <3>4, <3>5
  <2>2. Reports' = Reports
    BY <2>1 DEF Reports
  <2>3. \A i \in 1..Len(submissions') : Good(submissions'[i], validations')
    BY <2>1 DEF HookInv
  <2>4. \A id \in hook'.due : Good(id, hook'.reports)
    BY <2>1 DEF HookInv
  <2>5. hook'.due # {} => submissions' # <<>>
    BY <2>1 DEF HookInv
  <2>6. torn' = {} /\ ~hook'.overlap => hook'.readable
    BY <2>1
  <2> QED  BY <2>1, <2>2, <2>3, <2>4, <2>5, <2>6 DEF HookInv, Good
<1>6. CASE HookDecides
  <2>1. PICK readable \in BOOLEAN, allowed \in BOOLEAN :
          /\ allowed = (hook.readable /\ readable /\ Allows(hook.reports))
          /\ torn = {} /\ ~hook'.overlap => readable /\ ~hook.overlap
          /\ hook'.stage = "decided"
          /\ hook'.due = {id \in hook.due : id = Last(submissions)}
          /\ hook'.allowed = IF allowed THEN {Last(submissions)} ELSE {}
    <3>1. PICK readable \in Readings("submissions") :
            hook' = [stage |-> "decided",
                     due |-> {id \in hook.due : id = Last(submissions)},
                     allowed |-> IF hook.readable /\ readable /\ Allows(hook.reports)
                                 THEN {Last(submissions)} ELSE {},
                     overlap |-> hook.overlap \/ Appending("submissions")]
      BY <1>6 DEF HookDecides
    <3>2. readable \in BOOLEAN
      BY DEF Readings
    <3>3. torn = {} /\ ~Appending("submissions") => readable
      BY DEF Readings
    <3>4. (hook.readable /\ readable /\ Allows(hook.reports)) \in BOOLEAN
      OBVIOUS
    <3>5. torn = {} /\ ~hook'.overlap => readable /\ ~hook.overlap
      BY <3>1, <3>3
    <3> QED  BY <3>1, <3>2, <3>4, <3>5
  <2>2. hook.stage = "read" /\ UNCHANGED <<log, submissions, torn, validations>>
    BY <1>6 DEF HookDecides, memory, evidence
  <2>3. ASSUME NEW id \in hook'.allowed PROVE Good(id, Reports)
    <3>1. Allows(hook.reports) /\ id = Last(submissions)
      BY <2>1, <2>3
    <3>2. hook.reports \subseteq Reports
      BY <2>2 DEF HookInv
    <3> QED  BY <3>1, <3>2 DEF Allows, Resolves, Good
  <2>4. ASSUME torn = {}, ~hook'.overlap, NEW id \in hook'.due PROVE id \in hook'.allowed
    <3>1. id \in hook.due /\ id = Last(submissions)
      BY <2>1, <2>4
    <3>2. submissions # <<>> /\ hook.readable /\ Good(id, hook.reports)
      BY <2>1, <2>2, <2>4, <3>1 DEF HookInv
    <3>3. Allows(hook.reports)
      BY <2>4, <3>1, <3>2 DEF Allows, Resolves, Good
    <3> QED  BY <2>1, <2>4, <3>1, <3>2, <3>3
  <2> QED  BY <2>1, <2>2, <2>3, <2>4 DEF HookInv, Good, Reports
<1> QED
  BY <1>2, <1>3, <1>4, <1>5, <1>6 DEF Next

\* What was accepted rests on a report in the evidence, whose run is on record.
LEMMA FinalStep ==
  TypeOK /\ ReportInv /\ FinalIsValidated /\ [Next]_vars => FinalIsValidated'
<1> SUFFICES ASSUME TypeOK, ReportInv, FinalIsValidated, [Next]_vars PROVE FinalIsValidated'
  OBVIOUS
<1>1. validations \subseteq validations' /\ runs \subseteq runs'
  BY DEF Next, Serve, Call, GiveUp, Take, BaselineReady, BaselineFails, CallTool, Reuse,
         Execute, ExecuteFails, Check, CheckRaises, Log, LogFails, Submit, SubmitFails, SubmitRejected,
         Stop, HookReadsValidations, HookDecides, Finish, vars, memory
<1>2. CASE UNCHANGED verdict
  BY <1>1, <1>2 DEF FinalIsValidated
<1>3. ASSUME NEW answer \in Answer, Finish(answer) PROVE FinalIsValidated'
  <2>1. CASE verdict'.stage # "accepted"
    BY <2>1 DEF FinalIsValidated
  <2>2. CASE /\ verdict' = [stage |-> "accepted", id |-> answer.id,
                            proposal |-> Resolved(answer)]
             /\ Validated(answer)
    <3>1. PICK r \in Reports : /\ r.id = answer.id /\ r.passed /\ r.checked
                               /\ r.calls = Resolved(answer).calls
                               /\ r.proposal = Resolved(answer)
      BY <2>2 DEF Validated
    <3>2. r \in validations /\ Proved(r.ran, r.calls)
      BY <3>1 DEF ReportInv, Truthful
    <3>3. verdict'.id = r.id /\ verdict'.proposal = r.proposal
          /\ verdict'.proposal.calls = r.calls
      BY <2>2, <3>1
    <3> QED  BY <1>1, <3>1, <3>2, <3>3 DEF FinalIsValidated, Proved
  <2> QED  BY <1>3, <2>1, <2>2 DEF Finish
<1>4. (\E answer \in Answer : Finish(answer)) \/ UNCHANGED verdict
  BY DEF Next, Serve, Call, GiveUp, Take, BaselineReady, BaselineFails, CallTool, Reuse,
         Execute, ExecuteFails, Check, CheckRaises, Log, LogFails, Submit, SubmitFails, SubmitRejected,
         Stop, HookReadsValidations, HookDecides, vars, outcome
<1> QED  BY <1>2, <1>3, <1>4

LEMMA InitIInv == Init => IInv
<1> SUFFICES ASSUME Init PROVE IInv
  OBVIOUS
<1> USE SAAssumption DEF Init
<1>1. TypeOK
  <2>1. server \in Serving /\ hook \in Reading /\ verdict \in Verdict
    BY DEF Idle, Unread, Serving, Reading, Verdict
  <2>2. inbox \in Seq(Request) /\ log \in Seq(Report) /\ submissions \in Seq(Id)
    OBVIOUS
  <2> QED  BY <2>1, <2>2 DEF TypeOK, State
<1>2. Reports = {}
  BY DEF Reports, ToSet
<1>3. BaselineInv /\ RunInv /\ ReportInv
  BY <1>2 DEF BaselineInv, RunInv, ReportInv, Idle
<1>4. HookInv /\ FinalIsValidated
  BY DEF HookInv, FinalIsValidated, Unread
<1> QED  BY <1>1, <1>3, <1>4 DEF IInv

LEMMA IInvStep == IInv /\ [Next]_vars => IInv'
  BY TypeOKStep, BaselineInvStep, RunInvStep, ReportInvStep, HookInvStep, FinalStep DEF IInv

\* A session stays in the inductive invariant.
LEMMA IInvHolds == Spec => []IInv
  BY InitIInv, IInvStep, PTL DEF Spec

\* The variables keep their types; the baseline is never half a copy.
THEOREM TypesCorrect == Spec => []TypeOK
<1>1. IInv => TypeOK  BY DEF IInv
<1> QED  BY <1>1, IInvHolds, PTL

\* A report that says its list passed names a run of that list that did, from the
\* task's initial state (SolutionValidator.validate, ensure_baseline).
LEMMA PassedReportsAreTrue == Spec => []PassedRanClean
<1>1. IInv => PassedRanClean
  BY DEF IInv, ReportInv, Truthful, Proved, PassedRanClean
<1> QED  BY <1>1, IInvHolds, PTL

\* A report that says its list failed is about a run of its own.
LEMMA FailedReportsAreFresh == Spec => []FailedRanFresh
<1>1. IInv => FailedRanFresh
  BY DEF IInv, ReportInv, Truthful, FailedRanFresh
<1> QED  BY <1>1, IInvHolds, PTL

\* Every verdict stands for what was run (SolutionValidator.validate).
THEOREM ReportsStandForRuns == Spec => []ReportsAreTrue
<1>1. PassedRanClean /\ FailedRanFresh => ReportsAreTrue
  BY DEF ReportsAreTrue
<1> QED
  BY <1>1, PassedReportsAreTrue, FailedReportsAreFresh, PTL

\* The stop hook lets through what was due when it began to read the evidence,
\* unless a line is broken off or it read in the middle of an append
\* (submission_stop_check).
THEOREM DueSubmissionsAreAllowed == Spec => []DueIsAllowed
<1>1. IInv => DueIsAllowed
  BY DEF IInv, HookInv, DueIsAllowed
<1> QED  BY <1>1, IInvHolds, PTL

\* The stop hook and the check of the final answer agree: a receipt the one lets
\* through the other accepts (resolve_submission, validated_reference).
THEOREM AllowedSubmissionsAreValidated == Spec => []AllowedIsValidated
<1>1. ASSUME IInv PROVE AllowedIsValidated
  <2> SUFFICES ASSUME hook.stage = "decided", NEW id \in hook.allowed
               PROVE  Validated([kind |-> "receipt", id |-> id])
    BY DEF AllowedIsValidated
  <2> DEFINE answer == [kind |-> "receipt", id |-> id]
  <2>1. PICK r \in Reports : r.id = id /\ r.passed /\ r.checked
    BY <1>1 DEF IInv, HookInv, Good
  <2>2. \A s \in Reports : s.id = id => s = r
    BY <1>1, <2>1 DEF IInv, ReportInv
  <2>3. Resolved(answer) = r.proposal
    <3>1. (CHOOSE s \in Reports : s.id = id) = r
      BY <2>1, <2>2
    <3> QED  BY <3>1 DEF Resolved
  <2>4. r.calls = r.proposal.calls
    BY <1>1, <2>1 DEF IInv, ReportInv, Truthful
  <2> QED  BY <2>1, <2>3, <2>4 DEF Validated
<1> QED  BY <1>1, IInvHolds, PTL

\* What run_case accepts has a reference that passed from the initial state, list
\* for list, and a proposal whose sources were checked with it.
THEOREM AcceptedIsValidated == Spec => []FinalIsValidated
<1>1. IInv => FinalIsValidated  BY DEF IInv
<1> QED  BY <1>1, IInvHolds, PTL
=============================================================================
