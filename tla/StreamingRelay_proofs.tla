------------------------ MODULE StreamingRelay_proofs ------------------------
(***************************************************************************)
(* Proofs about StreamingRelay, for any number of requests and retries:    *)
(* the types, that a refused or stopped request is never forwarded, that   *)
(* what was forwarded is on record, that a client that stays is answered,  *)
(* and that nothing is sent after the relay has closed.                    *)
(***************************************************************************)
EXTENDS StreamingRelay, TLAPS

\* An attempt is counted before it is made, and a retry decided on before its
\* pause: at the top of the loop one more is allowed.
AttemptInv ==
  \A r \in Request :
    /\ pc[r] \in {"none", "first", "stop", "tokens"} => attempt[r] = 0
    /\ pc[r] \in {"top", "pause"} => attempt[r] <= MaxRetries

\* Before the first model request has been checked, and for good if it was
\* refused, no model request is past its check.
FirstInv ==
  /\ refused => checked
  /\ \A r \in Request :
       /\ pc[r] \in {"none", "first", "stop", "tokens"} => r \notin forwarded
       /\ pc[r] = "none" => r \notin model
       /\ r \in model /\ (refused \/ ~checked) =>
            r \notin forwarded /\ pc[r] \in {"first", "done"}

\* A model request that came after the marker does not get past its test.
LateInv ==
  /\ late # {} => marker # None
  /\ \A r \in late \cap model :
       r \notin forwarded /\ pc[r] \in {"first", "stop", "done"}

\* The record of a request is written once, as its handler ends or just before.
RecordInv ==
  \A r \in Request :
    /\ pc[r] \notin {"mark", "done"} => records[r] = 0
    /\ pc[r] = "mark" => records[r] = 1
    /\ pc[r] = "done" /\ r \in model \cap forwarded => records[r] = 1

\* A client whose response is being passed on has its head; one that is noted
\* as gone has left, unless the relay is closing.
AnswerInv ==
  \A r \in Request :
    /\ pc[r] \in {"stream", "record", "mark"} => r \in answered
    /\ gone[r] => r \in left \/ relay # "open"

\* A connection about to be used is on the list of __exit__, or shut by it.
SendInv ==
  \A r \in Request : pc[r] = "send" =>
    /\ relay = "listed" /\ socket[r] = "open" => <<r, attempt[r]>> \in listed
    /\ relay = "closed" => socket[r] # "open"

\* The inductive invariant.
IInv ==
  /\ TypeOK /\ AttemptInv /\ FirstInv /\ LateInv /\ RecordInv /\ AnswerInv /\ SendInv

LEMMA InitIInv == Init => IInv
<1> SUFFICES ASSUME Init PROVE IInv
  OBVIOUS
<1> USE RelayAssumption DEF Init
<1>1. TypeOK
  <2>1. listed \subseteq Request \X Nat /\ marker \in Request \cup {None}
    OBVIOUS
  <2>2. pc \in [Request -> Handler]  BY DEF Handler
  <2>3. attempt \in [Request -> 0..MaxRetries + 1]
    <3>1. 0 \in 0..MaxRetries + 1  OBVIOUS
    <3> QED  BY <3>1
  <2>4. gone \in [Request -> BOOLEAN] /\ checked \in BOOLEAN /\ refused \in BOOLEAN
    OBVIOUS
  <2> QED  BY <2>1, <2>2, <2>3, <2>4 DEF TypeOK
<1>2. AttemptInv  BY DEF AttemptInv
<1>3. FirstInv /\ LateInv  BY DEF FirstInv, LateInv
<1>4. RecordInv /\ AnswerInv /\ SendInv  BY DEF RecordInv, AnswerInv, SendInv
<1> QED  BY <1>1, <1>2, <1>3, <1>4 DEF IInv

\* The end of a handler resets its variables to values of their types.
LEMMA EndTypes ==
  ASSUME TypeOK, NEW r \in Request, End(r)
  PROVE  /\ left' \subseteq Request
         /\ pc' \in [Request -> Handler]
         /\ attempt' \in [Request -> 0..MaxRetries + 1]
         /\ socket' \in [Request -> {"none", "open", "shut"}]
         /\ gone' \in [Request -> BOOLEAN]
         /\ watch' \in [Request -> {"off", "on", "seen"}]
<1> USE RelayAssumption DEF TypeOK, End
<1>1. left' \subseteq Request /\ pc' \in [Request -> Handler]
  BY DEF Go, Handler
<1>2. attempt' \in [Request -> 0..MaxRetries + 1]
  <2>1. 0 \in 0..MaxRetries + 1  OBVIOUS
  <2> QED  BY <2>1
<1>3. socket' \in [Request -> {"none", "open", "shut"}] /\ gone' \in [Request -> BOOLEAN]
  OBVIOUS
<1>4. watch' \in [Request -> {"off", "on", "seen"}]
  OBVIOUS
<1> QED  BY <1>1, <1>2, <1>3, <1>4

\* Every step of every thread keeps the types; the attempts and records stay within
\* their bounds because of the other parts.
LEMMA TypeOKStep == TypeOK /\ AttemptInv /\ RecordInv /\ [Next]_vars => TypeOK'
<1> SUFFICES ASSUME TypeOK, AttemptInv, RecordInv, [Next]_vars PROVE TypeOK'
  OBVIOUS
<1> USE RelayAssumption DEF TypeOK, AttemptInv, RecordInv, closing, first, local,
        counts, Go, Add, Handler, None
<1>1. ASSUME NEW r \in Request, Arrive(r) PROVE TypeOK'
  BY <1>1 DEF Arrive, Answer
<1>2. ASSUME NEW r \in Request, FirstCheck(r) PROVE TypeOK'
  <2>1. CASE End(r)
    <3>1. records' \in [Request -> 0..1]  BY <1>2, <2>1 DEF FirstCheck, Reject, Answer
    <3> QED  BY <1>2, <2>1, <3>1, EndTypes DEF FirstCheck, Reject, Answer
  <2>2. CASE ~End(r)  BY <1>2, <2>2 DEF FirstCheck, Reject, Answer
  <2> QED  BY <2>1, <2>2
<1>3. ASSUME NEW r \in Request, StopCheck(r) PROVE TypeOK'
  <2>1. CASE End(r)
    <3>1. records' \in [Request -> 0..1]  BY <1>3, <2>1 DEF StopCheck, Reject, Answer
    <3> QED  BY <1>3, <2>1, <3>1, EndTypes DEF StopCheck, Reject, Answer
  <2>2. CASE ~End(r)  BY <1>3, <2>2 DEF StopCheck, Reject, Answer
  <2> QED  BY <2>1, <2>2
<1>4. ASSUME NEW r \in Request, TokenCheck(r) PROVE TypeOK'
  <2>1. CASE End(r)
    <3>1. records' \in [Request -> 0..1]  BY <1>4, <2>1 DEF TokenCheck, Answer
    <3> QED  BY <1>4, <2>1, <3>1, EndTypes DEF TokenCheck, Answer
  <2>2. CASE ~End(r)  BY <1>4, <2>2 DEF TokenCheck, Answer
  <2> QED  BY <2>1, <2>2
<1>5. ASSUME NEW r \in Request, Attempt(r) \/ Connect(r) \/ Recheck(r) \/ Pause(r)
       PROVE TypeOK'
  BY <1>5 DEF Attempt, Stopping, Connect, Recheck, Pause
<1>6. ASSUME NEW r \in Request, Send(r) PROVE TypeOK'
  BY <1>6 DEF Send
<1>7. ASSUME NEW r \in Request, Response(r) PROVE TypeOK'
  BY <1>7 DEF Response, Answer
<1>8. ASSUME NEW r \in Request, Stream(r) PROVE TypeOK'
  <2>1. CASE End(r)
    <3>1. records' \in [Request -> 0..1]  BY <1>8, <2>1 DEF Stream
    <3> QED  BY <1>8, <2>1, <3>1, EndTypes DEF Stream
  <2>2. CASE ~End(r)  BY <1>8, <2>2 DEF Stream
  <2> QED  BY <2>1, <2>2
<1>9. ASSUME NEW r \in Request, Record(r) PROVE TypeOK'
  <2>1. CASE End(r)
    <3>1. records' \in [Request -> 0..1]  BY <1>9, <2>1 DEF Record
    <3> QED  BY <1>9, <2>1, <3>1, EndTypes DEF Record
  <2>2. CASE ~End(r)  BY <1>9, <2>2 DEF Record
  <2> QED  BY <2>1, <2>2
<1>10. ASSUME NEW r \in Request, Mark(r) PROVE TypeOK'
  <2>1. CASE End(r)
    <3>1. records' \in [Request -> 0..1]  BY <1>10, <2>1 DEF Mark
    <3> QED  BY <1>10, <2>1, <3>1, EndTypes DEF Mark
  <2>2. CASE ~End(r)  BY <1>10, <2>2 DEF Mark
  <2> QED  BY <2>1, <2>2
<1>11. ASSUME NEW r \in Request, Fail(r) PROVE TypeOK'
  <2>1. CASE End(r)
    <3>1. records' \in [Request -> 0..1]  BY <1>11, <2>1 DEF Fail, Answer, Stopping
    <3> QED  BY <1>11, <2>1, <3>1, EndTypes DEF Fail, Answer, Stopping
  <2>2. CASE ~End(r)  BY <1>11, <2>2 DEF Fail, Answer, Stopping
  <2> QED  BY <2>1, <2>2
<1>12. ASSUME NEW r \in Request, WatchSees(r) PROVE TypeOK'
  BY <1>12 DEF WatchSees, Watching
<1>13. ASSUME NEW r \in Request, WatchShuts(r) PROVE TypeOK'
  BY <1>13 DEF WatchShuts, Shut
<1>14. ASSUME NEW r \in Request, ClientLeaves(r) PROVE TypeOK'
  BY <1>14 DEF ClientLeaves
<1>15. CASE Close
  BY <1>15 DEF Close
<1>16. CASE List
  BY <1>16 DEF List, Request
<1>17. CASE Closed
  BY <1>17 DEF Closed, Shut
<1>18. CASE UNCHANGED vars  BY <1>18 DEF vars
<1> QED
  BY <1>1, <1>2, <1>3, <1>4, <1>5, <1>6, <1>7, <1>8, <1>9, <1>10, <1>11, <1>12, <1>13,
     <1>14, <1>15, <1>16, <1>17, <1>18
     DEF Next, Handle, Watch, Exit, Finished

\* No step goes back to the top of the loop with the attempts used up.
LEMMA AttemptInvStep == TypeOK /\ AttemptInv /\ [Next]_vars => AttemptInv'
<1> SUFFICES ASSUME TypeOK, AttemptInv, [Next]_vars PROVE AttemptInv'
  OBVIOUS
<1> USE RelayAssumption DEF TypeOK, AttemptInv, closing, first, local, counts, Go, Add
<1>1. ASSUME NEW r \in Request, Arrive(r) PROVE AttemptInv'
  BY <1>1 DEF Arrive, Answer
<1>2. ASSUME NEW r \in Request, FirstCheck(r) \/ StopCheck(r) \/ TokenCheck(r)
       PROVE AttemptInv'
  BY <1>2 DEF FirstCheck, Reject, End, Answer, StopCheck, TokenCheck
<1>3. ASSUME NEW r \in Request, Attempt(r) PROVE AttemptInv'
  BY <1>3 DEF Attempt, Stopping
<1>4. ASSUME NEW r \in Request, Connect(r) \/ Recheck(r) \/ Send(r)
       PROVE AttemptInv'
  BY <1>4 DEF Connect, Recheck, Stopping, Send
<1>5. ASSUME NEW r \in Request, Response(r) PROVE AttemptInv'
  BY <1>5 DEF Response, Answer
<1>6. ASSUME NEW r \in Request, Pause(r) PROVE AttemptInv'
  BY <1>6 DEF Pause, Stopping
<1>7. ASSUME NEW r \in Request, Stream(r) \/ Record(r) \/ Mark(r) \/ Fail(r)
       PROVE AttemptInv'
  BY <1>7 DEF Stream, End, Record, Mark, Fail, Answer, Stopping
<1>8. ASSUME NEW r \in Request, WatchSees(r) \/ WatchShuts(r) \/ ClientLeaves(r)
       PROVE AttemptInv'
  BY <1>8 DEF WatchSees, Watching, WatchShuts, Shut, ClientLeaves
<1>9. CASE Close \/ List \/ Closed
  BY <1>9 DEF Close, List, Closed, Shut
<1>10. CASE UNCHANGED vars  BY <1>10 DEF vars
<1> QED
  BY <1>1, <1>2, <1>3, <1>4, <1>5, <1>6, <1>7, <1>8, <1>9, <1>10
     DEF Next, Handle, Watch, Exit, Finished

\* No model request overtakes the check of the first one.
LEMMA FirstInvStep == TypeOK /\ FirstInv /\ [Next]_vars => FirstInv'
<1> SUFFICES ASSUME TypeOK, FirstInv, [Next]_vars PROVE FirstInv'
  OBVIOUS
<1> USE RelayAssumption DEF TypeOK, FirstInv, closing, first, local, counts, Go, Add
<1>1. ASSUME NEW r \in Request, Arrive(r) PROVE FirstInv'
  BY <1>1 DEF Arrive, Answer
<1>2. ASSUME NEW r \in Request, FirstCheck(r) PROVE FirstInv'
  BY <1>2 DEF FirstCheck, Reject, End, Answer
<1>3. ASSUME NEW r \in Request, StopCheck(r) \/ TokenCheck(r) PROVE FirstInv'
  BY <1>3 DEF StopCheck, Reject, End, Answer, TokenCheck
<1>4. ASSUME NEW r \in Request, Attempt(r) \/ Connect(r) \/ Recheck(r) \/ Pause(r)
       PROVE FirstInv'
  BY <1>4 DEF Attempt, Stopping, Connect, Recheck, Pause
<1>5. ASSUME NEW r \in Request, Send(r) PROVE FirstInv'
  BY <1>5 DEF Send
<1>6. ASSUME NEW r \in Request, Stream(r) \/ Record(r) \/ Mark(r) \/ Fail(r) \/
              Response(r)
       PROVE FirstInv'
  BY <1>6 DEF Stream, End, Record, Mark, Fail, Answer, Stopping, Response
<1>7. ASSUME NEW r \in Request, WatchSees(r) \/ WatchShuts(r) \/ ClientLeaves(r)
       PROVE FirstInv'
  BY <1>7 DEF WatchSees, Watching, WatchShuts, Shut, ClientLeaves
<1>8. CASE Close \/ List \/ Closed
  BY <1>8 DEF Close, List, Closed, Shut
<1>9. CASE UNCHANGED vars  BY <1>9 DEF vars
<1> QED
  BY <1>1, <1>2, <1>3, <1>4, <1>5, <1>6, <1>7, <1>8, <1>9
     DEF Next, Handle, Watch, Exit, Finished

\* The marker stays, and is tested by every request that comes after it.
LEMMA LateInvStep == TypeOK /\ FirstInv /\ LateInv /\ [Next]_vars => LateInv'
<1> SUFFICES ASSUME TypeOK, FirstInv, LateInv, [Next]_vars PROVE LateInv'
  OBVIOUS
<1> USE RelayAssumption DEF TypeOK, FirstInv, LateInv, closing, first, local, counts,
        Go, Add, None
<1>1. ASSUME NEW r \in Request, Arrive(r) PROVE LateInv'
  BY <1>1 DEF Arrive, Answer
<1>2. ASSUME NEW r \in Request, FirstCheck(r) \/ TokenCheck(r) PROVE LateInv'
  BY <1>2 DEF FirstCheck, Reject, End, Answer, TokenCheck
<1>3. ASSUME NEW r \in Request, StopCheck(r) PROVE LateInv'
  BY <1>3 DEF StopCheck, Reject, End, Answer
<1>4. ASSUME NEW r \in Request, Attempt(r) \/ Connect(r) \/ Recheck(r) \/ Pause(r)
       PROVE LateInv'
  BY <1>4 DEF Attempt, Stopping, Connect, Recheck, Pause
<1>5. ASSUME NEW r \in Request, Send(r) PROVE LateInv'
  BY <1>5 DEF Send
<1>6. ASSUME NEW r \in Request, Stream(r) \/ Record(r) \/ Fail(r) \/ Response(r)
       PROVE LateInv'
  BY <1>6 DEF Stream, End, Record, Fail, Answer, Stopping, Response
<1>7. ASSUME NEW r \in Request, Mark(r) PROVE LateInv'
  BY <1>7 DEF Mark, End
<1>8. ASSUME NEW r \in Request, WatchSees(r) \/ WatchShuts(r) \/ ClientLeaves(r)
       PROVE LateInv'
  BY <1>8 DEF WatchSees, Watching, WatchShuts, Shut, ClientLeaves
<1>9. CASE Close \/ List \/ Closed
  BY <1>9 DEF Close, List, Closed, Shut
<1>10. CASE UNCHANGED vars  BY <1>10 DEF vars
<1> QED
  BY <1>1, <1>2, <1>3, <1>4, <1>5, <1>6, <1>7, <1>8, <1>9, <1>10
     DEF Next, Handle, Watch, Exit, Finished

\* Every end of a handler that may have forwarded a model request has a record.
LEMMA RecordInvStep == TypeOK /\ FirstInv /\ RecordInv /\ [Next]_vars => RecordInv'
<1> SUFFICES ASSUME TypeOK, FirstInv, RecordInv, [Next]_vars PROVE RecordInv'
  OBVIOUS
<1> USE RelayAssumption DEF TypeOK, FirstInv, RecordInv, closing, first, local,
        counts, Go, Add
<1>1. ASSUME NEW r \in Request, Arrive(r) PROVE RecordInv'
  BY <1>1 DEF Arrive, Answer
<1>2. ASSUME NEW r \in Request, FirstCheck(r) \/ StopCheck(r) PROVE RecordInv'
  BY <1>2 DEF FirstCheck, Reject, End, Answer, StopCheck
<1>3. ASSUME NEW r \in Request, TokenCheck(r) PROVE RecordInv'
  BY <1>3 DEF TokenCheck, End, Answer
<1>4. ASSUME NEW r \in Request, Attempt(r) \/ Connect(r) \/ Recheck(r) \/ Pause(r) \/
              Response(r)
       PROVE RecordInv'
  BY <1>4 DEF Attempt, Stopping, Connect, Recheck, Pause, Response, Answer
<1>5. ASSUME NEW r \in Request, Send(r) PROVE RecordInv'
  BY <1>5 DEF Send
<1>6. ASSUME NEW r \in Request, Stream(r) PROVE RecordInv'
  BY <1>6 DEF Stream, End
<1>7. ASSUME NEW r \in Request, Record(r) PROVE RecordInv'
  BY <1>7 DEF Record, End
<1>8. ASSUME NEW r \in Request, Mark(r) PROVE RecordInv'
  BY <1>8 DEF Mark, End
<1>9. ASSUME NEW r \in Request, Fail(r) PROVE RecordInv'
  BY <1>9 DEF Fail, End, Answer, Stopping
<1>10. ASSUME NEW r \in Request, WatchSees(r) \/ WatchShuts(r) \/ ClientLeaves(r)
        PROVE RecordInv'
  BY <1>10 DEF WatchSees, Watching, WatchShuts, Shut, ClientLeaves
<1>11. CASE Close \/ List \/ Closed
  BY <1>11 DEF Close, List, Closed, Shut
<1>12. CASE UNCHANGED vars  BY <1>12 DEF vars
<1> QED
  BY <1>1, <1>2, <1>3, <1>4, <1>5, <1>6, <1>7, <1>8, <1>9, <1>10, <1>11, <1>12
     DEF Next, Handle, Watch, Exit, Finished

\* The head comes before the body, and only a client that left is noted as gone.
LEMMA AnswerInvStep == TypeOK /\ AnswerInv /\ [Next]_vars => AnswerInv'
<1> SUFFICES ASSUME TypeOK, AnswerInv, [Next]_vars PROVE AnswerInv'
  OBVIOUS
<1> USE RelayAssumption DEF TypeOK, AnswerInv, closing, first, local, counts, Go, Add
<1>1. ASSUME NEW r \in Request, Arrive(r) PROVE AnswerInv'
  BY <1>1 DEF Arrive, Answer
<1>2. ASSUME NEW r \in Request, FirstCheck(r) \/ StopCheck(r) \/ TokenCheck(r)
       PROVE AnswerInv'
  BY <1>2 DEF FirstCheck, Reject, End, Answer, StopCheck, TokenCheck
<1>3. ASSUME NEW r \in Request, Attempt(r) \/ Connect(r) \/ Recheck(r) \/ Send(r) \/
              Pause(r)
       PROVE AnswerInv'
  BY <1>3 DEF Attempt, Stopping, Connect, Recheck, Send, Pause
<1>4. ASSUME NEW r \in Request, Response(r) PROVE AnswerInv'
  BY <1>4 DEF Response, Answer
<1>5. ASSUME NEW r \in Request, Stream(r) \/ Record(r) \/ Mark(r) \/ Fail(r)
       PROVE AnswerInv'
  BY <1>5 DEF Stream, End, Record, Mark, Fail, Answer, Stopping
<1>6. ASSUME NEW r \in Request, WatchSees(r) PROVE AnswerInv'
  BY <1>6 DEF WatchSees, Watching
<1>7. ASSUME NEW r \in Request, WatchShuts(r) PROVE AnswerInv'
  BY <1>7 DEF WatchShuts, Shut
<1>8. ASSUME NEW r \in Request, ClientLeaves(r) PROVE AnswerInv'
  BY <1>8 DEF ClientLeaves
<1>9. CASE Close \/ List \/ Closed
  BY <1>9 DEF Close, List, Closed, Shut
<1>10. CASE UNCHANGED vars  BY <1>10 DEF vars
<1> QED
  BY <1>1, <1>2, <1>3, <1>4, <1>5, <1>6, <1>7, <1>8, <1>9, <1>10
     DEF Next, Handle, Watch, Exit, Finished

\* A handler reaches its send before the relay begins to close, or not at all.
LEMMA SendInvStep == TypeOK /\ SendInv /\ [Next]_vars => SendInv'
<1> SUFFICES ASSUME TypeOK, SendInv, [Next]_vars PROVE SendInv'
  OBVIOUS
<1> USE RelayAssumption DEF TypeOK, SendInv, closing, first, local, counts, Go, Add
<1>1. ASSUME NEW r \in Request, Arrive(r) PROVE SendInv'
  BY <1>1 DEF Arrive, Answer
<1>2. ASSUME NEW r \in Request, FirstCheck(r) \/ StopCheck(r) \/ TokenCheck(r)
       PROVE SendInv'
  BY <1>2 DEF FirstCheck, Reject, End, Answer, StopCheck, TokenCheck
<1>3. ASSUME NEW r \in Request, Attempt(r) \/ Connect(r) \/ Pause(r)
       PROVE SendInv'
  BY <1>3 DEF Attempt, Stopping, Connect, Pause
<1>4. ASSUME NEW r \in Request, Recheck(r) PROVE SendInv'
  BY <1>4 DEF Recheck, Stopping
<1>5. ASSUME NEW r \in Request, Send(r) \/ Response(r) PROVE SendInv'
  BY <1>5 DEF Send, Response, Answer
<1>6. ASSUME NEW r \in Request, Stream(r) \/ Record(r) \/ Mark(r) \/ Fail(r)
       PROVE SendInv'
  BY <1>6 DEF Stream, End, Record, Mark, Fail, Answer, Stopping
<1>7. ASSUME NEW r \in Request, WatchSees(r) \/ ClientLeaves(r) PROVE SendInv'
  BY <1>7 DEF WatchSees, Watching, ClientLeaves
<1>8. ASSUME NEW r \in Request, WatchShuts(r) PROVE SendInv'
  BY <1>8 DEF WatchShuts, Shut
<1>9. CASE Close
  BY <1>9 DEF Close
<1>10. CASE List
  BY <1>10 DEF List
<1>11. CASE Closed
  BY <1>11 DEF Closed, Shut
<1>12. CASE UNCHANGED vars  BY <1>12 DEF vars
<1> QED
  BY <1>1, <1>2, <1>3, <1>4, <1>5, <1>6, <1>7, <1>8, <1>9, <1>10, <1>11, <1>12
     DEF Next, Handle, Watch, Exit, Finished


LEMMA IInvStep == IInv /\ [Next]_vars => IInv'
  BY TypeOKStep, AttemptInvStep, FirstInvStep, LateInvStep, RecordInvStep, AnswerInvStep,
     SendInvStep DEF IInv

\* The relay stays in the inductive invariant.
LEMMA IInvHolds == Spec => []IInv
  BY InitIInv, IInvStep, PTL DEF Spec

\* The variables keep their types; no request is tried more often than the
\* retries allow, none has two records.
THEOREM TypesCorrect == Spec => []TypeOK
<1>1. IInv => TypeOK  BY DEF IInv
<1> QED  BY <1>1, IInvHolds, PTL

\* Once the first model request has been refused for its missing tools, no model
\* request of any thread is forwarded (_check_first_model_request).
LEMMA RefusedIsNotForwarded == Spec => []RefusedNothingForwarded
<1>1. IInv => RefusedNothingForwarded
  BY DEF IInv, TypeOK, FirstInv, RefusedNothingForwarded
<1> QED  BY <1>1, IInvHolds, PTL

\* A model request that comes after a fatal stream error is not forwarded.
LEMMA LateIsNotForwarded == Spec => []LateNotForwarded
<1>1. IInv => LateNotForwarded
  BY DEF IInv, LateInv, LateNotForwarded
<1> QED  BY <1>1, IInvHolds, PTL

\* Neither a refusal nor a stop is passed by a model request (_handler).
THEOREM BarredIsNotForwarded == Spec => []BarredNotForwarded
<1>1. RefusedNothingForwarded /\ LateNotForwarded => BarredNotForwarded
  BY DEF BarredNotForwarded
<1> QED
  BY <1>1, RefusedIsNotForwarded, LateIsNotForwarded, PTL

\* A model request that was sent has its record when its handler ends.
THEOREM ForwardedHasRecord == Spec => []ForwardedIsRecorded
<1>1. IInv => ForwardedIsRecorded
  BY DEF IInv, TypeOK, RecordInv, ForwardedIsRecorded
<1> QED  BY <1>1, IInvHolds, PTL

\* A client that stays while the relay is open is answered, on every way a
\* handler can end.
THEOREM StayersGetAnswer == Spec => StayersAnswered
<1> DEFINE A == \A r \in Request :
                  pc[r] # "done" /\ pc'[r] = "done" /\ r \notin left /\ relay = "open"
                    => r \in answered'
<1>1. IInv /\ [Next]_vars => [A]_vars
  <2> SUFFICES ASSUME IInv, [Next]_vars, NEW q \in Request,
                      pc[q] # "done", pc'[q] = "done", q \notin left, relay = "open"
               PROVE  q \in answered'
    OBVIOUS
  <2> USE DEF IInv, TypeOK, AnswerInv, closing, first, local, counts, Go, Add, Handler
  <2>1. ASSUME NEW r \in Request, Arrive(r) PROVE q \in answered'
    BY <2>1 DEF Arrive, Answer
  <2>2. ASSUME NEW r \in Request, FirstCheck(r) \/ StopCheck(r) PROVE q \in answered'
    BY <2>2 DEF FirstCheck, Reject, End, Answer, StopCheck
  <2>3. ASSUME NEW r \in Request, TokenCheck(r) PROVE q \in answered'
    BY <2>3 DEF TokenCheck, End, Answer
  <2>4. ASSUME NEW r \in Request, Attempt(r) \/ Connect(r) \/ Recheck(r) \/ Send(r) \/
                Response(r) \/ Pause(r)
         PROVE q \in answered'
    BY <2>4 DEF Attempt, Stopping, Connect, Recheck, Send, Response, Answer, Pause
  <2>5. ASSUME NEW r \in Request, Stream(r) \/ Record(r) \/ Mark(r)
         PROVE q \in answered'
    BY <2>5 DEF Stream, End, Record, Mark
  <2>6. ASSUME NEW r \in Request, Fail(r) PROVE q \in answered'
    BY <2>6 DEF Fail, End, Answer, Stopping
  <2>7. ASSUME NEW r \in Request, WatchSees(r) \/ WatchShuts(r) \/ ClientLeaves(r)
         PROVE q \in answered'
    BY <2>7 DEF WatchSees, Watching, WatchShuts, Shut, ClientLeaves
  <2>8. CASE Close
    BY <2>8 DEF Close
  <2>9. CASE List
    BY <2>9 DEF List
  <2>10. CASE Closed
    BY <2>10 DEF Closed, Shut
  <2>11. CASE UNCHANGED vars  BY <2>11 DEF vars
  <2> QED
    BY <2>1, <2>2, <2>3, <2>4, <2>5, <2>6, <2>7, <2>8, <2>9, <2>10, <2>11
       DEF Next, Handle, Watch, Exit, Finished
<1> QED  BY <1>1, IInvHolds, PTL DEF Spec, StayersAnswered

\* After __exit__ has returned no handler sends, whatever it was doing meanwhile.
THEOREM ClosedSendsNothing == Spec => NothingSentAfterClose
<1> DEFINE A == relay = "closed" => \A r \in Request : ~(pc[r] = "send" /\ pc'[r] = "wait")
<1>1. IInv /\ [Next]_vars => [A]_vars
  <2> SUFFICES ASSUME IInv, [Next]_vars, NEW q \in Request,
                      relay = "closed", pc[q] = "send", pc'[q] = "wait"
               PROVE  FALSE
    OBVIOUS
  <2> USE DEF IInv, TypeOK, SendInv, closing, first, local, counts, Go, Add, Handler
  <2>1. ASSUME NEW r \in Request, Arrive(r) \/ FirstCheck(r) \/ StopCheck(r) \/
                TokenCheck(r)
         PROVE FALSE
    BY <2>1 DEF Arrive, Answer, FirstCheck, Reject, End, StopCheck, TokenCheck
  <2>2. ASSUME NEW r \in Request, Attempt(r) \/ Connect(r) \/ Recheck(r) \/
                Response(r) \/ Pause(r)
         PROVE FALSE
    BY <2>2 DEF Attempt, Stopping, Connect, Recheck, Response, Answer, Pause
  <2>3. ASSUME NEW r \in Request, Send(r) PROVE FALSE
    BY <2>3 DEF Send
  <2>4. ASSUME NEW r \in Request, Stream(r) \/ Record(r) \/ Mark(r) \/ Fail(r)
         PROVE FALSE
    BY <2>4 DEF Stream, End, Record, Mark, Fail, Answer, Stopping
  <2>5. ASSUME NEW r \in Request, WatchSees(r) \/ WatchShuts(r) \/ ClientLeaves(r)
         PROVE FALSE
    BY <2>5 DEF WatchSees, Watching, WatchShuts, Shut, ClientLeaves
  <2>6. CASE Close
    BY <2>6 DEF Close
  <2>7. CASE List
    BY <2>7 DEF List
  <2>8. CASE Closed
    BY <2>8 DEF Closed, Shut
  <2>9. CASE UNCHANGED vars  BY <2>9 DEF vars
  <2> QED
    BY <2>1, <2>2, <2>3, <2>4, <2>5, <2>6, <2>7, <2>8, <2>9
       DEF Next, Handle, Watch, Exit, Finished
<1> QED  BY <1>1, IInvHolds, PTL DEF Spec, NothingSentAfterClose
=============================================================================
