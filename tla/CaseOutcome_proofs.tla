------------------------- MODULE CaseOutcome_proofs -------------------------
(***************************************************************************)
(* Proofs about CaseOutcome: the types, that only clean runs are judged,   *)
(* and that trouble of the environment is classified as such.              *)
(***************************************************************************)
EXTENDS CaseOutcome, TLAPS

\* The inductive invariant: the types and the named parts of CaseOutcome.
IInv ==
  /\ TypeOK
  /\ Joined
  /\ RequestChecked
  /\ StartupMarked
  /\ EndedWell
  /\ NotStarted
  /\ NoResultYet
  /\ Classified
  /\ JudgedOnlyCompleted

\* The runs without a result have one of the right type.
LEMMA NoResultTyped == NoResult \in Result
  BY DEF NoResult, Result, Verdict

\* The run of a case starts in the invariant.
LEMMA InitIInv == Init => IInv
<1> SUFFICES ASSUME Init PROVE IInv
  OBVIOUS
<1>1. TypeOK
  <2>1. over \in BOOLEAN /\ tripped \in BOOLEAN
    BY DEF Init
  <2>2. traced \in 0..MaxErrors
    BY CaseAssumption DEF Init
  <2>3. markers \subseteq Marker /\ errors \subseteq Error /\ result \in Result
    BY NoResultTyped DEF Init
  <2> QED  BY <2>1, <2>2, <2>3 DEF Init, TypeOK
<1>2. Joined /\ RequestChecked /\ StartupMarked /\ EndedWell /\ NotStarted
  BY DEF Init, Joined, RequestChecked, StartupMarked, EndedWell, NotStarted
<1>3. NoResultYet /\ Classified /\ JudgedOnlyCompleted
  BY DEF Init, NoResultYet, Classified, JudgedOnlyCompleted, NoResult
<1> QED  BY <1>1, <1>2, <1>3 DEF IInv

\* Every step of every thread keeps the types.
LEMMA TypeStep == TypeOK /\ [Next]_vars => TypeOK'
<1> SUFFICES ASSUME TypeOK, [Next]_vars PROVE TypeOK'
  OBVIOUS
<1> USE CaseAssumption DEF TypeOK, cause
<1>1. CASE Main
  <2>1. CASE SetupRaises
    <3>1. errors' \subseteq Error
      BY <2>1 DEF SetupRaises, Error
    <3> QED  BY <2>1, <3>1 DEF SetupRaises
  <2>8. CASE PreflightFails
    <3>1. markers' \subseteq Marker /\ errors' \subseteq Error
      BY <2>8 DEF PreflightFails, Put, Marker, Error
    <3> QED  BY <2>8, <3>1 DEF PreflightFails
  <2>9. CASE Launch  BY <2>9 DEF Launch
  <2>2. CASE StartupWait
    <3>1. errors' \subseteq Error
      BY <2>2 DEF StartupWait, Error
    <3> QED  BY <2>2, <3>1 DEF StartupWait, Send
  <2>3. CASE StartupDecide
    <3>1. markers' \subseteq Marker /\ errors' \subseteq Error
      BY <2>3 DEF StartupDecide, Put, Marker, Error
    <3> QED  BY <2>3, <3>1 DEF StartupDecide, Send
  <2>4. CASE Drain  BY <2>4 DEF Drain
  <2>5. CASE Collect  BY <2>5 DEF Collect, Error
  <2>6. CASE Report
    <3>1. result' \in Result
      BY <2>6 DEF Report, Status, Result, Marker
    <3> QED  BY <2>6, <3>1 DEF Report
  <2>7. CASE Verify
    <3>1. result' \in Result
      BY <2>7 DEF Verify, Result
    <3> QED  BY <2>7, <3>1 DEF Verify
  <2> QED  BY <1>1, <2>1, <2>2, <2>3, <2>4, <2>5, <2>6, <2>7, <2>8, <2>9 DEF Main
<1>2. CASE Monitor
  <2>1. CASE MonitorLoop  BY <2>1 DEF MonitorLoop
  <2>2. CASE MonitorLook
    <3>1. CASE \E m \in Marker : MonitorStop(m)
      BY <3>1 DEF MonitorStop, Put, Send
    <3>2. CASE mon' = "loop" /\ UNCHANGED <<main, relay, cli, signal, request, cause,
                                            markers, errors, ending, result>>
      BY <3>2
    <3> QED  BY <2>2, <3>1, <3>2 DEF MonitorLook, Marker
  <2>3. CASE MonitorDies  BY <2>3 DEF MonitorDies
  <2>4. CASE MonitorGrace  BY <2>4 DEF MonitorGrace, Send
  <2> QED  BY <1>2, <2>1, <2>2, <2>3, <2>4 DEF Monitor
<1>3. CASE Relay
  <2>1. CASE FirstRequest  BY <2>1 DEF FirstRequest
  <2>2. CASE Refuse  BY <2>2 DEF Refuse, Put, Marker
  <2>3. CASE FatalStream  BY <2>3 DEF FatalStream, Put, Marker
  <2> QED  BY <1>3, <2>1, <2>2, <2>3 DEF Relay
<1>4. CASE Tools
  <2>1. CASE BudgetRefusal  BY <2>1 DEF BudgetRefusal, Put, Marker
  <2>2. CASE ToolCall
    <3>1. over' \in BOOLEAN
      BY <2>2 DEF ToolCall
    <3>2. traced' \in 0..MaxErrors
      BY <2>2 DEF ToolCall
    <3> QED  BY <2>2, <3>1, <3>2 DEF ToolCall
  <2>3. CASE BatchTrips  BY <2>3 DEF BatchTrips
  <2> QED  BY <1>4, <2>1, <2>2, <2>3 DEF Tools
<1>5. CASE CliExits  BY <1>5 DEF CliExits
<1>6. CASE CliKilled  BY <1>6 DEF CliKilled
<1>7. CASE Finished \/ UNCHANGED vars
  <2>1. UNCHANGED vars  BY <1>7 DEF Finished
  <2> QED  BY <2>1 DEF vars
<1> QED  BY <1>1, <1>2, <1>3, <1>4, <1>5, <1>6, <1>7 DEF Next

\* Every step keeps the invariant.
LEMMA StepIInv == IInv /\ [Next]_vars => IInv'
<1> SUFFICES ASSUME IInv, [Next]_vars PROVE IInv'
  OBVIOUS
<1>0. TypeOK'
  BY TypeStep DEF IInv
<1> USE DEF IInv, TypeOK, Joined, RequestChecked, StartupMarked, EndedWell, NotStarted,
            NoResultYet, Classified, JudgedOnlyCompleted, NoResult, IsSetupError
<1>1. CASE Main
  <2>1. CASE SetupRaises  BY <1>0, <2>1 DEF SetupRaises, cause
  <2>8. CASE PreflightFails  BY <1>0, <2>8 DEF PreflightFails, Put, cause
  <2>9. CASE Launch  BY <1>0, <2>9 DEF Launch, cause
  <2>2. CASE StartupWait  BY <1>0, <2>2 DEF StartupWait, Send, cause
  <2>3. CASE StartupDecide  BY <1>0, <2>3 DEF StartupDecide, Send, Put, cause
  <2>4. CASE Drain  BY <1>0, <2>4 DEF Drain, cause
  <2>5. CASE Collect  BY <1>0, <2>5 DEF Collect, cause
  <2>6. CASE Report  BY <1>0, <2>6 DEF Report, Status, cause
  <2>7. CASE Verify
    <3>1. /\ result'.status = result.status
          /\ main' = "done"
      BY <2>7 DEF Verify, Result
    <3> QED  BY <1>0, <2>7, <3>1 DEF Verify, cause
  <2> QED  BY <1>1, <2>1, <2>2, <2>3, <2>4, <2>5, <2>6, <2>7, <2>8, <2>9 DEF Main
<1>2. CASE Monitor
  <2>1. CASE MonitorLoop  BY <1>0, <2>1 DEF MonitorLoop, cause
  <2>2. CASE MonitorLook  BY <1>0, <2>2 DEF MonitorLook, MonitorStop, Put, Send, cause
  <2>3. CASE MonitorDies  BY <1>0, <2>3 DEF MonitorDies, cause
  <2>4. CASE MonitorGrace  BY <1>0, <2>4 DEF MonitorGrace, Send, cause
  <2> QED  BY <1>2, <2>1, <2>2, <2>3, <2>4 DEF Monitor
<1>3. CASE Relay
  <2>1. CASE FirstRequest  BY <1>0, <2>1 DEF FirstRequest, cause
  <2>2. CASE Refuse  BY <1>0, <2>2 DEF Refuse, Put, cause
  <2>3. CASE FatalStream  BY <1>0, <2>3 DEF FatalStream, Running, Put, cause
  <2> QED  BY <1>3, <2>1, <2>2, <2>3 DEF Relay
<1>4. CASE Tools
  BY <1>0, <1>4 DEF Tools, BudgetRefusal, ToolCall, BatchTrips, Running, Put, cause
<1>5. CASE CliExits \/ CliKilled
  BY <1>0, <1>5 DEF CliExits, CliKilled, cause
<1>6. CASE Finished \/ UNCHANGED vars
  BY <1>0, <1>6 DEF Finished, vars, cause
<1> QED  BY <1>1, <1>2, <1>3, <1>4, <1>5, <1>6 DEF Next

\* The invariant holds throughout a case.
LEMMA Invariance == Spec => []IInv
  BY InitIInv, StepIInv, PTL DEF Spec

\* Every reachable state is well typed, for any limit of environment errors.
THEOREM TypeCorrect == Spec => []TypeOK
<1>1. IInv => TypeOK
  BY DEF IInv
<1> QED  BY <1>1, Invariance, PTL

\* The verifier only sees runs that ended by themselves with an answer and without
\* any stop of the environment (run, distill/__main__.py).
THEOREM JudgedRunsClean == Spec => []JudgedRunsAreClean
<1>1. IInv => JudgedRunsAreClean
  BY DEF IInv, JudgedRunsAreClean, JudgedOnlyCompleted, Classified, EndedWell, RequestChecked
<1> QED  BY <1>1, Invariance, PTL

\* Trouble of the environment makes a case environment_stopped, whichever thread
\* notices it and in whatever order (run, distill/__main__.py).
THEOREM TroubleIsClassified == Spec => []EnvironmentTroubleClassified
<1>1. IInv => EnvironmentTroubleClassified
  BY DEF IInv, EnvironmentTroubleClassified, Classified
<1> QED  BY <1>1, Invariance, PTL
=============================================================================
