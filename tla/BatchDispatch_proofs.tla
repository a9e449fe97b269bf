------------------------ MODULE BatchDispatch_proofs ------------------------
(***************************************************************************)
(* Proofs about BatchDispatch, for any batch, any limits and whatever      *)
(* exceptions are raised: no case is lost, no trip of the circuit breaker  *)
(* goes unreported, and the batch stops only for as many errors as the     *)
(* limit says.  Last, the adaptive controller keeps to the widths          *)
(* BatchDispatch assumes.                                                  *)
(***************************************************************************)
EXTENDS BatchDispatch, FiniteSetTheorems, SequenceTheorems, TLAPS

Ended == {"finished", "raised"}

\* Where the dispatcher has each case.
FutureInv ==
  /\ \A c \in Case : stage[c] = "unsent" <=> c > next
  /\ \A c \in Case : stage[c] \notin Ended \cup {"unsent"} => c \in pending \ done
  /\ pending \subseteq 1..next
  /\ done # {} => main = "collect"
  /\ \A c \in done : stage[c] \in Ended
  /\ \A c \in results : stage[c] = "finished"
  /\ main \notin {"aborting", "aborted"} => results \cup pending = 1..next
  /\ main = "done" => pending = {}

\* A trip that is not yet a stop reason comes from a case that is still to be
\* waited for.
TripInv ==
  /\ tripped /\ stop = "none" /\ main \notin {"aborting", "aborted"} => pending \ done # {}
  /\ main = "done" => stop # "none" \/ next = NumCases

\* The breaker and the final count see errors the traces hold.
CountInv ==
  /\ observed \subseteq errors
  /\ tripped => Cardinality(errors) >= BatchLimit
  /\ stop # "none" => Cardinality(errors) >= BatchLimit

\* A case has a status once its run has ended.
StateInv ==
  \A c \in Case :
    /\ stage[c] \in {"verify", "judged"} => status[c] = "completed"
    /\ status[c] # "none" => stage[c] \in Ended \cup {"ended", "verify", "judged"}

IInv == TypeOK /\ FutureInv /\ TripInv /\ CountInv /\ StateInv

LEMMA InitInv == Init => IInv
<1> SUFFICES ASSUME Init PROVE IInv
  OBVIOUS
<1> USE BatchAssumption DEF Init, Case
<1>0. tripped \in BOOLEAN
  BY Zenon DEF Init
<1>1. TypeOK
  BY <1>0 DEF TypeOK, Stage
<1>2. FutureInv
  BY DEF FutureInv, Ended
<1>3. TripInv /\ StateInv
  BY DEF TripInv, StateInv
<1>4. CountInv
  BY DEF CountInv
<1> QED
  BY <1>1, <1>2, <1>3, <1>4 DEF IInv

LEMMA NextType == TypeOK /\ [Next]_vars => TypeOK'
<1> SUFFICES ASSUME TypeOK, [Next]_vars PROVE TypeOK'
  OBVIOUS
<1> USE BatchAssumption DEF dispatcher, breaker, Stage, Move, End
<1>1. ASSUME UNCHANGED <<errors, breaker>>, Dispatch
      PROVE  TypeOK'
  <2>0. tripped' \in BOOLEAN
    BY <1>1, Zenon DEF TypeOK
  <2>1. CASE Submit
    BY <1>1, <2>0, <2>1 DEF Submit, CanSubmit, TypeOK, Case
  <2>2. CASE SubmitEnds \/ Wait \/ CollectEnds \/ PoolJoined
    BY <1>1, <2>0, <2>2 DEF SubmitEnds, Wait, Returned, CollectEnds, PoolJoined, TypeOK
  <2>3. ASSUME NEW c \in Case, Collect(c) \/ CollectRaises(c) PROVE TypeOK'
    BY <1>1, <2>0, <2>3 DEF Collect, CollectRaises, TypeOK
  <2> QED BY <1>1, <2>1, <2>2, <2>3 DEF Dispatch
<1>2. ASSUME NEW c \in Case, Advance(c) \/ RunEnds(c) \/ LaunchRaises(c) \/ Raise(c)
      PROVE  TypeOK'
  <2>0. tripped' \in BOOLEAN
    BY <1>2, Zenon DEF TypeOK, Advance, Begin, Preflight, PreflightEnds, Launch, Started,
       Verify, Judge, Cleanup, RunEnds, LaunchRaises, Raise
  <2>1. CASE Begin(c) \/ Preflight(c) \/ PreflightEnds(c) \/ Launch(c) \/ Started(c)
    BY <2>0, <2>1 DEF Begin, Preflight, PreflightEnds, Launch, Started, TakePermit,
       ReleasePermit, TypeOK
  <2>2. CASE Verify(c) \/ Judge(c) \/ Cleanup(c) \/ RunEnds(c) \/ LaunchRaises(c) \/ Raise(c)
    BY <2>0, <2>2 DEF Verify, Judge, Cleanup, RunEnds, LaunchRaises, Raise, TypeOK
  <2> QED BY <1>2, <2>1, <2>2 DEF Advance
<1>3. ASSUME NEW c \in Case, TraceError(c) PROVE TypeOK'
  <2>1. errors' \subseteq Case \X Line
    BY <1>3 DEF TraceError, TypeOK
  <2>2. tripped' \in BOOLEAN
    BY <1>3, Zenon DEF TraceError, TypeOK
  <2> QED BY <1>3, <2>1, <2>2 DEF TraceError, TypeOK
<1>4. ASSUME NEW c \in Case, Poll(c) PROVE TypeOK'
  <2>1. tripped' \in BOOLEAN
    BY <1>4, Zenon DEF Poll, Observe, TypeOK
  <2>2. observed' \subseteq Case \X Line
    BY <1>4 DEF Poll, Observe, Counted, TypeOK
  <2> QED BY <1>4, <2>1, <2>2 DEF Poll, ReleasePermit, TypeOK
<1>5. CASE Finished \/ UNCHANGED vars
  BY <1>5 DEF Finished, vars, TypeOK
<1>6. Dispatch => UNCHANGED <<errors, breaker>>
  BY DEF Dispatch, Submit, SubmitEnds, Wait, CollectEnds, PoolJoined, Collect, CollectRaises
<1> QED
  BY <1>1, <1>2, <1>3, <1>4, <1>5, <1>6 DEF Next

\* A step of a case that the dispatcher has started and not yet got back.
Working(c) ==
  /\ stage[c] \notin Ended \cup {"unsent"}
  /\ \E to \in Stage \ {"unsent"} : Move(c, to)
  /\ UNCHANGED dispatcher

LEMMA CaseSteps ==
  ASSUME TypeOK, NEW c \in Case,
         Advance(c) \/ Poll(c) \/ TraceError(c) \/ RunEnds(c) \/ LaunchRaises(c) \/ Raise(c)
  PROVE  Working(c) \/ (stage' = stage /\ stage[c] \in {"launch", "run"} /\ UNCHANGED dispatcher)
BY DEF Advance, Begin, Preflight, PreflightEnds, Launch, Started, Verify, Judge, Cleanup,
       Poll, TraceError, RunEnds, LaunchRaises, Raise, Working, Ended, Stage, Move, End,
       dispatcher

LEMMA NextFuture ==
  ASSUME TypeOK, FutureInv, [Next]_vars
  PROVE  FutureInv'
<1> USE BatchAssumption DEF Ended, Case
<1>1. CASE Submit
  BY <1>1 DEF Submit, CanSubmit, Move, TypeOK, FutureInv, Stage
<1>2. CASE SubmitEnds
  BY <1>2 DEF SubmitEnds, FutureInv
<1>7. CASE Wait
  <2>1. \A c \in Case : c \in done' <=> c \in pending /\ stage[c] \in Ended
    BY <1>7 DEF Wait, Returned, TypeOK
  <2>2. done' \subseteq Case /\ done' \subseteq pending
    BY <1>7 DEF Wait, Returned, TypeOK
  <2>3. main = "wait" /\ main' = "collect" /\ UNCHANGED <<next, pending, results, stage>>
    BY <1>7 DEF Wait
  <2> QED BY <2>1, <2>2, <2>3 DEF FutureInv
<1>8. CASE CollectEnds \/ PoolJoined
  BY <1>8 DEF CollectEnds, PoolJoined, FutureInv
<1>3. ASSUME NEW c \in Case, Collect(c) PROVE FutureInv'
  BY <1>3 DEF Collect, TypeOK, FutureInv
<1>4. ASSUME NEW c \in Case, CollectRaises(c) PROVE FutureInv'
  BY <1>4 DEF CollectRaises, TypeOK, FutureInv
<1>5. ASSUME NEW c \in Case, Working(c) PROVE FutureInv'
  BY <1>5 DEF Working, Move, dispatcher, TypeOK, FutureInv
<1>6. ASSUME stage' = stage, UNCHANGED dispatcher PROVE FutureInv'
  BY <1>6 DEF dispatcher, FutureInv
<1> QED
  BY <1>1, <1>2, <1>3, <1>4, <1>5, <1>6, <1>7, <1>8, CaseSteps
     DEF Next, Dispatch, Finished, vars, dispatcher

LEMMA NextTrip ==
  ASSUME TypeOK, FutureInv, TripInv, [Next]_vars
  PROVE  TripInv'
<1> USE BatchAssumption DEF Ended, Case, dispatcher, breaker
<1>1. CASE Submit
  BY <1>1 DEF Submit, TypeOK, FutureInv, TripInv
<1>2. CASE SubmitEnds
  <2>1. pending = {} /\ stop = "none" /\ ~tripped => next = NumCases
    <3>1. pending = {} => Cardinality(pending) < width
      BY FS_EmptySet DEF TypeOK
    <3> QED BY <1>2, <3>1 DEF SubmitEnds, CanSubmit, TypeOK
  <2> QED BY <1>2, <2>1 DEF SubmitEnds, FutureInv, TripInv
<1>3. CASE Wait \/ CollectEnds \/ PoolJoined
  BY <1>3 DEF Wait, CollectEnds, PoolJoined, FutureInv, TripInv, TypeOK
<1>4. ASSUME NEW c \in Case, Collect(c) \/ CollectRaises(c) PROVE TripInv'
  BY <1>4 DEF Collect, CollectRaises, FutureInv, TripInv, TypeOK
<1>5. ASSUME NEW c \in Case, Poll(c) PROVE TripInv'
  BY <1>5 DEF Poll, FutureInv, TripInv
<1>6. ASSUME NEW c \in Case,
             Advance(c) \/ TraceError(c) \/ RunEnds(c) \/ LaunchRaises(c) \/ Raise(c)
      PROVE  TripInv'
  <2>1. UNCHANGED <<dispatcher, tripped>>
    BY <1>6 DEF Advance, Begin, Preflight, PreflightEnds, Launch, Started, Verify, Judge,
                Cleanup, TraceError, RunEnds, LaunchRaises, Raise
  <2> QED BY <2>1 DEF TripInv
<1>7. CASE Finished \/ UNCHANGED vars
  BY <1>7 DEF Finished, vars, TripInv
<1> QED
  BY <1>1, <1>2, <1>3, <1>4, <1>5, <1>6, <1>7 DEF Next, Dispatch

LEMMA Subsets ==
  ASSUME NEW S \in SUBSET (Case \X Line), NEW T \in SUBSET S
  PROVE  Cardinality(T) \in Nat /\ Cardinality(S) \in Nat /\ Cardinality(T) <= Cardinality(S)
<1>1. IsFiniteSet(Case) /\ IsFiniteSet(Line)
  BY FS_Interval, BatchAssumption DEF Case, Line
<1>2. IsFiniteSet(Case \X Line)
  BY <1>1, FS_Product
<1>3. IsFiniteSet(S) /\ IsFiniteSet(T)
  BY <1>2, FS_Subset
<1> QED
  BY <1>3, FS_Subset, FS_CardinalityType

LEMMA NextCount ==
  ASSUME TypeOK, TypeOK', CountInv, [Next]_vars
  PROVE  CountInv'
<1> USE BatchAssumption DEF dispatcher, breaker
<1>0. errors \in SUBSET (Case \X Line) /\ errors' \in SUBSET (Case \X Line)
  BY DEF TypeOK
<1>1. ASSUME UNCHANGED errors, UNCHANGED breaker, stop' = stop PROVE CountInv'
  BY <1>1 DEF CountInv
<1>2. CASE Wait
  BY <1>2 DEF Wait, CountInv
<1>3. ASSUME NEW c \in Case, Collect(c) PROVE CountInv'
  <2>1. Counted(results') \in SUBSET errors
    BY DEF Counted
  <2>2. /\ Cardinality(Counted(results')) \in Nat /\ Cardinality(errors) \in Nat
        /\ Cardinality(Counted(results')) <= Cardinality(errors)
    BY <1>0, <2>1, Subsets
  <2> QED BY <1>3, <2>2 DEF Collect, CountInv
<1>4. ASSUME NEW c \in Case, Poll(c) PROVE CountInv'
  <2>1. observed' \in SUBSET errors /\ errors' = errors /\ stop' = stop
    BY <1>4 DEF Poll, Observe, Counted, CountInv
  <2>2. /\ Cardinality(observed') \in Nat /\ Cardinality(errors) \in Nat
        /\ Cardinality(observed') <= Cardinality(errors)
    BY <1>0, <2>1, Subsets
  <2>3. tripped' => tripped \/ Cardinality(observed') >= BatchLimit
    BY <1>4, Zenon DEF Poll, Observe
  <2>4. tripped' => Cardinality(errors) >= BatchLimit
    <3>1. CASE Cardinality(observed') >= BatchLimit
      BY <2>2, <3>1
    <3>2. CASE tripped
      BY <3>2, Zenon DEF CountInv
    <3> QED BY <2>3, <3>1, <3>2
  <2> QED BY <2>1, <2>4 DEF CountInv
<1>5. ASSUME NEW c \in Case, TraceError(c) PROVE CountInv'
  <2>1. errors \in SUBSET errors' /\ UNCHANGED breaker /\ stop' = stop
    BY <1>5 DEF TraceError
  <2>2. /\ Cardinality(errors) \in Nat /\ Cardinality(errors') \in Nat
        /\ Cardinality(errors) <= Cardinality(errors')
    BY <1>0, <2>1, Subsets
  <2> QED BY <2>1, <2>2 DEF CountInv
<1>6. ASSUME NEW c \in Case, Advance(c) \/ RunEnds(c) \/ LaunchRaises(c) \/ Raise(c)
      PROVE  UNCHANGED errors /\ UNCHANGED breaker /\ stop' = stop
  BY <1>6 DEF Advance, Begin, Preflight, PreflightEnds, Launch, Started, Verify, Judge,
              Cleanup, RunEnds, LaunchRaises, Raise
<1>7. ASSUME Submit \/ SubmitEnds \/ CollectEnds \/ PoolJoined
             \/ \E c \in Case : CollectRaises(c)
      PROVE  UNCHANGED errors /\ UNCHANGED breaker /\ stop' = stop
  BY <1>7 DEF Submit, SubmitEnds, CollectEnds, PoolJoined, CollectRaises
<1>8. ASSUME Finished \/ UNCHANGED vars
      PROVE  UNCHANGED errors /\ UNCHANGED breaker /\ stop' = stop
  BY <1>8 DEF Finished, vars
<1> QED
  BY <1>1, <1>2, <1>3, <1>4, <1>5, <1>6, <1>7, <1>8 DEF Next, Dispatch

LEMMA NextState ==
  ASSUME TypeOK, FutureInv, StateInv, [Next]_vars
  PROVE  StateInv'
<1> USE DEF dispatcher, breaker, Ended
<1>1. CASE Submit
  <2>1. next + 1 \in Case /\ stage[next + 1] = "unsent"
    BY <1>1, BatchAssumption DEF Submit, CanSubmit, TypeOK, FutureInv, Case
  <2> QED BY <1>1, <2>1 DEF Submit, Move, TypeOK, StateInv
<1>2. ASSUME NEW c \in Case, Begin(c) \/ Verify(c) \/ Judge(c) PROVE StateInv'
  BY <1>2 DEF Begin, Verify, Judge, Move, TypeOK, StateInv
<1>3. ASSUME NEW c \in Case,
             Preflight(c) \/ PreflightEnds(c) \/ Launch(c) \/ Started(c) \/ LaunchRaises(c)
             \/ RunEnds(c) \/ Raise(c)
      PROVE  StateInv'
  <2> USE DEF Move, End, TypeOK, StateInv
  <2>1. CASE Preflight(c) \/ Launch(c)
    BY <2>1 DEF Preflight, Launch
  <2>2. CASE PreflightEnds(c) \/ Started(c)
    BY <2>2 DEF PreflightEnds, Started
  <2>3. CASE LaunchRaises(c) \/ RunEnds(c)
    BY <2>3 DEF LaunchRaises, RunEnds
  <2>4. CASE Raise(c)
    BY <2>4 DEF Raise
  <2> QED BY <1>3, <2>1, <2>2, <2>3, <2>4
<1>4. ASSUME NEW c \in Case, Cleanup(c) PROVE StateInv'
  BY <1>4 DEF Cleanup, Move, TypeOK, StateInv
<1>5. ASSUME NEW c \in Case, Poll(c) PROVE StateInv'
  BY <1>5 DEF Poll, Move, End, TypeOK, StateInv
<1>6. ASSUME \/ SubmitEnds \/ Wait \/ CollectEnds \/ PoolJoined \/ Finished
             \/ \E c \in Case : Collect(c) \/ CollectRaises(c) \/ TraceError(c)
             \/ UNCHANGED vars
      PROVE  UNCHANGED <<stage, status>>
  BY <1>6 DEF SubmitEnds, Wait, CollectEnds, PoolJoined, Finished, Collect, CollectRaises,
              TraceError, vars
<1>7. ASSUME UNCHANGED <<stage, status>> PROVE StateInv'
  BY <1>7 DEF StateInv
<1> QED
  BY <1>1, <1>2, <1>3, <1>4, <1>5, <1>6, <1>7 DEF Next, Dispatch, Advance

LEMMA Inductive == Spec => []IInv
<1>1. IInv /\ [Next]_vars => IInv'
  BY NextType, NextFuture, NextTrip, NextCount, NextState DEF IInv
<1> QED
  BY <1>1, InitInv, PTL DEF Spec

\* Every state of a batch is well typed; in particular no case outside Docker
\* holds a startup permit (distill/runner.py).
THEOREM TypeCorrect == Spec => []TypeOK
<1>1. IInv => TypeOK
  BY DEF IInv
<1> QED
  BY <1>1, Inductive, PTL

\* No trip of the circuit breaker is missed by a batch that ends, although the
\* dispatcher looks at the event only when a case returns (_bounded_results).
LEMMA TripIsReported == Spec => []TripReported
<1>1. IInv => TripReported
  BY DEF IInv, FutureInv, TripInv, TripReported
<1> QED
  BY <1>1, Inductive, PTL

\* A batch that ends without a stop reason has run and reported every case; a
\* stopped one has reported every case it dispatched (_bounded_results, run).
LEMMA NoCaseIsLost == Spec => []NoCaseLost
<1>1. IInv => NoCaseLost
  BY BatchAssumption DEF IInv, TypeOK, FutureInv, TripInv, NoCaseLost
<1> QED
  BY <1>1, Inductive, PTL

\* A batch that ends has lost neither a trip nor a case (_bounded_results).
THEOREM NothingIsLost == Spec => []NothingLost
<1>1. TripReported /\ NoCaseLost => NothingLost
  BY DEF NothingLost
<1> QED
  BY <1>1, TripIsReported, NoCaseIsLost, PTL

\* The batch is stopped only for as many environment errors as
\* max_environment_errors says, however often they are polled.
THEOREM StopIsJustified == Spec => []StopJustified
<1>1. IInv => StopJustified
  BY DEF IInv, CountInv, StopJustified
<1> QED
  BY <1>1, Inductive, PTL

-----------------------------------------------------------------------------
(***************************************************************************)
(* The startup permit: what the three liveness properties rest on.         *)
(***************************************************************************)
Starting == {"preflight", "launch"}

\* Cases in Docker start one at a time, and the holder of the permit is one of
\* them, unless an exception has lost the permit.
PermitInv ==
  /\ \A c \in Docker : stage[c] \in Starting => c \in startup
  /\ \A c, d \in startup : c = d
  /\ \A c \in startup :
       \/ stage[c] \in Starting
       \/ "startup" \in Faults /\ status[c] = "failed" /\ stage[c] \in {"ended"} \cup Ended

LEMMA PermitStep == IInv /\ PermitInv /\ [Next]_vars => PermitInv'
<1> SUFFICES ASSUME TypeOK, FutureInv, PermitInv, [Next]_vars PROVE PermitInv'
  BY DEF IInv
<1> USE BatchAssumption DEF dispatcher, breaker, Move, End, Starting, Ended, PermitInv
<1>1. CASE Submit
  <2>1. next + 1 \in Case /\ stage[next + 1] = "unsent"
    BY <1>1 DEF Submit, CanSubmit, TypeOK, FutureInv, Case
  <2> QED BY <1>1, <2>1 DEF Submit, TypeOK
<1>2. ASSUME NEW c \in Case, Begin(c) \/ Verify(c) \/ Judge(c) PROVE PermitInv'
  BY <1>2 DEF Begin, Verify, Judge, TypeOK
<1>3. ASSUME NEW c \in Case, Preflight(c) \/ Launch(c) PROVE PermitInv'
  <2>1. CASE c \in Docker
    BY <1>3, <2>1 DEF Preflight, Launch, TakePermit, PermitFree, TypeOK
  <2>2. CASE c \notin Docker
    BY <1>3, <2>2 DEF Preflight, Launch, TakePermit, TypeOK
  <2> QED BY <2>1, <2>2
<1>4. ASSUME NEW c \in Case, PreflightEnds(c) \/ Started(c) PROVE PermitInv'
  BY <1>4 DEF PreflightEnds, Started, ReleasePermit, TypeOK
<1>5. ASSUME NEW c \in Case, LaunchRaises(c) \/ RunEnds(c) \/ Raise(c) PROVE PermitInv'
  <2>1. CASE LaunchRaises(c)
    BY <2>1 DEF LaunchRaises, TypeOK
  <2>2. CASE RunEnds(c)
    BY <2>2 DEF RunEnds, TypeOK
  <2>3. CASE Raise(c)
    BY <2>3 DEF Raise, TypeOK
  <2> QED BY <1>5, <2>1, <2>2, <2>3
<1>6. ASSUME NEW c \in Case, Poll(c) PROVE PermitInv'
  BY <1>6 DEF Poll, ReleasePermit, TypeOK
<1>7. ASSUME NEW c \in Case, Cleanup(c) PROVE PermitInv'
  BY <1>7 DEF Cleanup, TypeOK
<1>8. ASSUME \/ SubmitEnds \/ Wait \/ CollectEnds \/ PoolJoined \/ Finished
             \/ \E c \in Case : Collect(c) \/ CollectRaises(c) \/ TraceError(c)
             \/ UNCHANGED vars
      PROVE  UNCHANGED <<stage, status, startup>>
  BY <1>8 DEF SubmitEnds, Wait, CollectEnds, PoolJoined, Finished, Collect, CollectRaises,
              TraceError, vars
<1>9. ASSUME UNCHANGED <<stage, status, startup>> PROVE PermitInv'
  BY <1>9
<1> QED
  BY <1>1, <1>2, <1>3, <1>4, <1>5, <1>6, <1>7, <1>8, <1>9 DEF Next, Dispatch, Advance

LEMMA AlwaysPermit == Spec => []PermitInv
<1>1. Init => PermitInv
  BY BatchAssumption DEF Init, PermitInv, Starting
<1> QED
  BY <1>1, PermitStep, Inductive, PTL DEF Spec

\* Two cases in Docker are never between preflight and first model request at the
\* same time, whatever is raised and however the monitors end them (the startup
\* semaphore of distill/runner.py).
THEOREM OneStartup ==
  Spec => [](\A c, d \in Docker : stage[c] \in Starting /\ stage[d] \in Starting => c = d)
<1>1. PermitInv => \A c, d \in Docker : stage[c] \in Starting /\ stage[d] \in Starting => c = d
  BY DEF PermitInv
<1> QED
  BY <1>1, AlwaysPermit, PTL

\* Every way out of a startup gives the permit back, the monitor's stop included,
\* except the exception LaunchRaises: without it the exemption PermitLost of the
\* liveness properties never applies (distill/runner.py).
THEOREM PermitComesBack ==
  ASSUME "startup" \notin Faults
  PROVE  Spec => []~PermitLost
<1>1. IInv /\ PermitInv => ~PermitLost
  BY BatchAssumption DEF IInv, TypeOK, StateInv, PermitInv, Starting, Ended, PermitLost
<1> QED
  BY <1>1, AlwaysPermit, Inductive, PTL

-----------------------------------------------------------------------------
(***************************************************************************)
(* The controller that sets the width, with the batch's own range.         *)
(***************************************************************************)
CONSTANTS
  Kind, MaxCount, Window, Threshold, StableRun, BigStep, SmallStep

VARIABLES recent, stable, host, parity

Controller ==
  INSTANCE AdaptiveConcurrency WITH
    Minimum <- MinWidth, Maximum <- MaxWidth, current <- width

\* Only whole results are kept in the window (observe, distill/__main__.py).
LEMMA WindowType ==
  ASSUME NEW s \in Seq(Controller!Result), NEW r \in Controller!Result
  PROVE  Controller!Keep(Append(s, r)) \in Seq(Controller!Result)
<1>1. Append(s, r) \in Seq(Controller!Result) /\ Append(s, r) # <<>>
  BY AppendProperties
<1>2. Tail(Append(s, r)) \in Seq(Controller!Result)
  BY <1>1, HeadTailProperties
<1> QED
  BY <1>1, <1>2 DEF Controller!Keep

\* None of the three adjustments leaves the range.
LEMMA AdjustedWidth ==
  ASSUME Controller!ControllerAssumption, width \in MinWidth..MaxWidth
  PROVE  /\ Controller!Halve \in MinWidth..MaxWidth
         /\ Controller!EaseOff \in MinWidth..MaxWidth
         /\ Controller!Raise \in MinWidth..MaxWidth
<1> USE DEF Controller!ControllerAssumption, Controller!Least, Controller!Largest
<1>1. width \div 2 \in Nat /\ width \div 2 <= width
  OBVIOUS
<1>2. Controller!Halve \in MinWidth..MaxWidth
  BY <1>1 DEF Controller!Halve
<1>3. Controller!EaseOff \in MinWidth..MaxWidth
  BY DEF Controller!EaseOff
<1>4. Controller!Raise \in MinWidth..MaxWidth
  BY <1>1 DEF Controller!Raise
<1> QED
  BY <1>2, <1>3, <1>4

LEMMA ControllerStep ==
  ASSUME Controller!ControllerAssumption, Controller!TypeOK,
         [Controller!Next]_(Controller!vars)
  PROVE  Controller!TypeOK'
<1>1. ASSUME NEW r \in Controller!Result, NEW h \in Controller!Host,
             Controller!Observe(r, h)
      PROVE  Controller!TypeOK'
  <2>1. recent' \in Seq(Controller!Result) /\ host' \in Controller!Host /\ parity' \in {0, 1}
    BY <1>1, WindowType DEF Controller!Observe, Controller!TypeOK
  <2>2. width' \in MinWidth..MaxWidth
    BY <1>1, AdjustedWidth DEF Controller!Observe, Controller!TypeOK
  <2>3. stable' \in 0..StableRun
    BY <1>1 DEF Controller!ControllerAssumption, Controller!Observe, Controller!Least,
                Controller!TypeOK
  <2> QED  BY <2>1, <2>2, <2>3 DEF Controller!TypeOK
<1>2. CASE UNCHANGED Controller!vars
  BY <1>2 DEF Controller!vars, Controller!TypeOK
<1> QED
  BY <1>1, <1>2 DEF Controller!Next

\* For every setting of the controller the dispatch target stays between
\* min_concurrency and max_concurrency (_AdaptiveConcurrencyController.observe), which is
\* all that BatchDispatch lets its width do.
THEOREM ControllerTypeCorrect ==
  ASSUME Controller!ControllerAssumption
  PROVE  Controller!Spec => []Controller!TypeOK
<1>1. Controller!Init => Controller!TypeOK
  BY DEF Controller!ControllerAssumption, Controller!Init, Controller!TypeOK, Controller!Host
<1>2. Controller!TypeOK /\ [Controller!Next]_(Controller!vars) => Controller!TypeOK'
  BY ControllerStep
<1> QED
  BY <1>1, <1>2, PTL DEF Controller!Spec
=============================================================================
