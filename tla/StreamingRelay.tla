--------------------------- MODULE StreamingRelay ---------------------------
(***************************************************************************)
(* The loopback relay between the CLI and the model's endpoint             *)
(* (distill/relay.py): one handler thread per request, a watcher thread    *)
(* for each of them that notices when the client leaves, and the runner's  *)
(* thread that closes the relay when the CLI has ended.                    *)
(***************************************************************************)
EXTENDS Integers, FiniteSets

CONSTANTS
  NumRequests, \* bound: requests of the client
  MaxRetries   \* max_retries

ASSUME RelayAssumption == NumRequests \in Nat /\ MaxRetries \in Nat

Request == 1..NumRequests  \* in the order they arrive
None == 0

VARIABLES
  relay,      \* __exit__: "open", "closing" set, connections "listed", "closed"
  listed,     \* the connections __exit__ is about to shut down
  checked,    \* _first_model_request_checked
  refused,    \* first_request_tool_failure
  marker,     \* upstream_stop.json: the request whose error it holds
  pc,         \* where the handler of a request is
  model,      \* requests to a model endpoint
  attempt,    \* attempts of a request so far
  socket,     \* its entry in _active_connections
  gone,       \* its client_disconnected event
  watch,      \* its watcher thread
  left,       \* clients that have closed their connection
  forwarded,  \* those that were sent upstream
  answered,   \* requests whose client was sent a response head
  records,    \* its lines in model_responses.jsonl
  late        \* history: requests that came when the marker was there

closing == <<relay, listed>>
first   == <<checked, refused>>
local   == <<attempt, socket, gone, watch>>
counts  == <<forwarded, answered, records>>
vars == <<relay, listed, checked, refused, marker, pc, model, attempt, socket, gone,
          watch, left, forwarded, answered, records, late>>

Handler == {"none", "first", "stop", "tokens", "top", "dial", "check", "send", "wait",
            "pause", "stream", "record", "mark", "failed", "done"}

TypeOK ==
  /\ relay \in {"open", "closing", "listed", "closed"}
  /\ listed \subseteq Request \X Nat
  /\ checked \in BOOLEAN /\ refused \in BOOLEAN
  /\ marker \in Request \cup {None}
  /\ pc \in [Request -> Handler]
  /\ model \subseteq Request
  /\ attempt \in [Request -> 0..MaxRetries + 1]
  /\ socket \in [Request -> {"none", "open", "shut"}]
  /\ gone \in [Request -> BOOLEAN]
  /\ watch \in [Request -> {"off", "on", "seen"}]
  /\ left \subseteq Request
  /\ forwarded \subseteq Request
  /\ answered \subseteq Request
  /\ records \in [Request -> 0..1]
  /\ late \subseteq Request

Init ==
  /\ relay = "open" /\ listed = {}
  /\ checked = FALSE /\ refused = FALSE /\ marker = None
  /\ pc = [r \in Request |-> "none"]
  /\ model = {} /\ left = {} /\ answered = {} /\ forwarded = {} /\ late = {}
  /\ attempt = [r \in Request |-> 0]
  /\ socket = [r \in Request |-> "none"]
  /\ gone = [r \in Request |-> FALSE]
  /\ watch = [r \in Request |-> "off"]
  /\ records = [r \in Request |-> 0]

Go(r, to)   == pc' = [pc EXCEPT ![r] = to]
Add(f, r)   == [f EXCEPT ![r] = @ + 1]
Answer(r)   == answered' = answered \cup {r}
Stopping(r) == gone[r] \/ relay # "open"

\* The handler's finally; its own variables and the client's connection go with it.
\* A watcher that has seen something finishes by itself.
End(r) ==
  /\ left' = left \ {r}
  /\ Go(r, "done")
  /\ attempt' = [attempt EXCEPT ![r] = 0]
  /\ socket' = [socket EXCEPT ![r] = "none"]
  /\ gone' = [gone EXCEPT ![r] = FALSE]
  /\ watch' = [watch EXCEPT ![r] = IF @ = "on" THEN "off" ELSE @]

(***************************************************************************)
(* Admission of a request.  Definitions named X_Y are X with the bug Y.    *)
(***************************************************************************)
\* A local answer comes before its record: if the client is gone, the write may
\* raise, and the record is lost.
Reject(r) ==
  /\ End(r)
  /\ \/ Answer(r) /\ records' = Add(records, r)
     \/ r \in left /\ UNCHANGED <<answered, records>>
  /\ UNCHANGED <<closing, model, forwarded, late>>

\* Other endpoints are passed on without a check.  A model request is logged; one
\* that cannot be normalised or does not stream is turned down.
Arrive(r) ==
  /\ pc[r] = "none" /\ \A q \in 1..(r - 1) : pc[q] # "none"
  /\ relay # "closed"
  /\ late' = IF marker # None THEN late \cup {r} ELSE late
  /\ \/ Go(r, "top") /\ watch' = [watch EXCEPT ![r] = "on"] /\ UNCHANGED <<model, answered, records>>
     \/ Go(r, "first") /\ model' = model \cup {r} /\ UNCHANGED <<watch, answered, records>>
     \/ /\ Go(r, "done") /\ model' = model \cup {r}
        /\ Answer(r) /\ records' = Add(records, r) /\ UNCHANGED watch
  /\ UNCHANGED <<closing, first, marker, attempt, socket, gone, left, forwarded>>

\* _check_first_model_request, and the refusal with its marker file.
FirstCheck_Once(r) ==
  /\ pc[r] = "first"
  /\ checked' = TRUE
  /\ refused' \in IF checked THEN {refused} ELSE BOOLEAN
  /\ UNCHANGED marker
  /\ IF refused' /\ ~checked THEN Reject(r)
     ELSE /\ Go(r, "stop")
          /\ UNCHANGED <<closing, model, local, left, counts, late>>

FirstCheck(r) ==
  /\ pc[r] = "first"
  /\ checked' = TRUE
  /\ refused' \in IF checked THEN {refused} ELSE BOOLEAN
  /\ UNCHANGED marker
  /\ IF refused' THEN Reject(r)
     ELSE /\ Go(r, "stop")
          /\ UNCHANGED <<closing, model, local, left, counts, late>>

StopCheck(r) ==
  /\ pc[r] = "stop"
  /\ UNCHANGED <<first, marker>>
  /\ IF marker # None THEN Reject(r)
     ELSE /\ Go(r, "tokens")
          /\ UNCHANGED <<closing, model, local, left, counts, late>>

\* The endpoint counts the tokens, which takes its time and may fail.  Here the
\* record comes before the answer.
TokenCheck(r) ==
  /\ pc[r] = "tokens"
  /\ \/ /\ Go(r, "top") /\ watch' = [watch EXCEPT ![r] = "on"]
        /\ UNCHANGED <<attempt, socket, gone, left, answered, records>>
     \/ /\ End(r) /\ records' = Add(records, r)
        /\ \/ Answer(r)
           \/ r \in left /\ UNCHANGED answered
  /\ UNCHANGED <<closing, first, marker, model, forwarded, late>>

(***************************************************************************)
(* The attempts.                                                           *)
(***************************************************************************)
Attempt(r) ==
  /\ pc[r] = "top"
  /\ IF Stopping(r)
       THEN Go(r, "failed") /\ UNCHANGED attempt
       ELSE Go(r, "dial") /\ attempt' = Add(attempt, r)
  /\ UNCHANGED <<closing, first, marker, model, socket, gone, watch, left, counts, late>>

\* connect() and the entry in _active_connections.
Connect(r) ==
  /\ pc[r] = "dial"
  /\ \/ Go(r, "check") /\ socket' = [socket EXCEPT ![r] = "open"]
     \/ Go(r, "failed") /\ UNCHANGED socket
  /\ UNCHANGED <<closing, first, marker, model, attempt, gone, watch, left, counts, late>>

Recheck_Dropped(r) ==
  /\ pc[r] = "check"
  /\ Go(r, "send")
  /\ UNCHANGED <<closing, first, marker, model, local, left, counts, late>>

Recheck_ClosingOnly(r) ==
  /\ pc[r] = "check"
  /\ IF relay # "open"
       THEN Go(r, "failed") /\ socket' = [socket EXCEPT ![r] = "shut"]
       ELSE Go(r, "send") /\ UNCHANGED socket
  /\ UNCHANGED <<closing, first, marker, model, attempt, gone, watch, left, counts, late>>

\* Whoever stops this request looked at the entry before or sets its flag before.
Recheck(r) ==
  /\ pc[r] = "check"
  /\ IF Stopping(r)
       THEN Go(r, "failed") /\ socket' = [socket EXCEPT ![r] = "shut"]
       ELSE Go(r, "send") /\ UNCHANGED socket
  /\ UNCHANGED <<closing, first, marker, model, attempt, gone, watch, left, counts, late>>

Send(r) ==
  /\ pc[r] = "send"
  /\ \/ socket[r] = "open" /\ Go(r, "wait") /\ forwarded' = forwarded \cup {r}
     \/ Go(r, "failed") /\ UNCHANGED forwarded
  /\ UNCHANGED <<closing, first, marker, model, local, left, answered,
                 records, late>>

\* The head of the response, and of a retryable one or a Responses stream as much
\* of the body as decides whether to try again.  A connection that was shut may
\* still have delivered this.
Response(r) ==
  /\ pc[r] = "wait"
  /\ \/ /\ attempt[r] <= MaxRetries /\ Go(r, "pause")
        /\ socket' = [socket EXCEPT ![r] = "shut"] /\ UNCHANGED answered
     \/ Go(r, "stream") /\ Answer(r) /\ UNCHANGED socket
     \/ Go(r, "failed") /\ UNCHANGED <<socket, answered>>
  /\ UNCHANGED <<closing, first, marker, model, attempt, gone, watch, left, forwarded,
                 records, late>>

\* A client that leaves cuts the delay short.
Pause(r) ==
  /\ pc[r] = "pause"
  /\ Go(r, IF Stopping(r) THEN "failed" ELSE "top")
  /\ UNCHANGED <<closing, first, marker, model, local, left, counts, late>>

\* The body reaches its end, breaks off, or finds the client gone.
Stream(r) ==
  /\ pc[r] = "stream"
  /\ \/ r \in model /\ Go(r, "record") /\ UNCHANGED <<local, left>>
     \/ r \notin model /\ End(r)
     \/ Go(r, "failed") /\ UNCHANGED <<local, left>>
     \/ r \in left /\ Go(r, "failed") /\ gone' = [gone EXCEPT ![r] = TRUE]
        /\ UNCHANGED <<attempt, socket, watch, left>>
  /\ UNCHANGED <<closing, first, marker, model, counts, late>>

\* The response is on record before its error is looked at.
Record(r) ==
  /\ pc[r] = "record"
  /\ records' = Add(records, r)
  /\ \/ Go(r, "mark") /\ UNCHANGED <<local, left>>
     \/ End(r)
  /\ UNCHANGED <<closing, first, marker, model,
                 forwarded, answered, late>>

\* _record_fatal_stream_error
Mark(r) ==
  /\ pc[r] = "mark" /\ End(r)
  /\ marker' = IF marker = None THEN r ELSE marker
  /\ UNCHANGED <<closing, first, model, counts, late>>

Fail_Unrecorded(r) ==
  /\ pc[r] = "failed" /\ End(r)
  /\ records' = IF r \in model /\ ~Stopping(r) THEN Add(records, r) ELSE records
  /\ \/ ~Stopping(r) /\ Answer(r)
     \/ (Stopping(r) \/ r \in left) /\ UNCHANGED answered
  /\ UNCHANGED <<closing, first, marker, model, forwarded, late>>

Fail_NoAnswer(r) ==
  /\ pc[r] = "failed" /\ End(r)
  /\ records' = IF r \in model THEN Add(records, r) ELSE records
  /\ UNCHANGED answered
  /\ UNCHANGED <<closing, first, marker, model, forwarded, late>>

\* A client that is still there gets an answer of the relay's own, even in the
\* middle of a body that broke off.
Fail(r) ==
  /\ pc[r] = "failed" /\ End(r)
  /\ records' = IF r \in model THEN Add(records, r) ELSE records
  /\ \/ ~Stopping(r) /\ Answer(r)
     \/ (Stopping(r) \/ r \in left) /\ UNCHANGED answered
  /\ UNCHANGED <<closing, first, marker, model, forwarded, late>>

(***************************************************************************)
(* The watcher, the client, and the end of the relay.                      *)
(***************************************************************************)
Watching(r) == watch[r] = "on" /\ pc[r] # "done"

WatchSees(r) ==
  /\ Watching(r) /\ (r \in left \/ relay # "open")
  /\ gone' = [gone EXCEPT ![r] = TRUE]
  /\ watch' = [watch EXCEPT ![r] = "seen"]
  /\ UNCHANGED <<closing, first, marker, pc, model, attempt, socket, left, counts, late>>

\* _shutdown_socket, for the connection the entry holds by then.
Shut(requests) ==
  socket' = [r \in Request |->
               IF r \in requests /\ socket[r] = "open" THEN "shut" ELSE socket[r]]

WatchShuts(r) ==
  /\ watch[r] = "seen"
  /\ Shut({r})
  /\ watch' = [watch EXCEPT ![r] = "off"]
  /\ UNCHANGED <<closing, first, marker, pc, model, attempt, gone, left, counts, late>>

ClientLeaves(r) ==
  /\ pc[r] \notin {"none", "done"} /\ r \notin left
  /\ left' = left \cup {r}
  /\ UNCHANGED <<closing, first, marker, pc, model, local, counts, late>>

Close ==
  /\ relay = "open" /\ relay' = "closing"
  /\ UNCHANGED <<listed, first, marker, pc, model, local, left,
                 counts, late>>

List ==
  /\ relay = "closing" /\ relay' = "listed"
  /\ listed' = {<<r, attempt[r]>> : r \in {q \in Request : socket[q] = "open"}}
  /\ UNCHANGED <<first, marker, pc, model, local, left, counts, late>>

\* The listed connections only: one made since belongs to a later attempt.  The
\* handlers are joined for five seconds each, and those that were not listed not
\* at all.
Closed ==
  /\ relay = "listed" /\ relay' = "closed" /\ listed' = {}
  /\ Shut({r \in Request : <<r, attempt[r]>> \in listed})
  /\ UNCHANGED <<first, marker, pc, model, attempt, gone, watch, left, counts, late>>

\* Without an end of the client or the relay the upstream may take its time.
Cut(r) == socket[r] = "shut"

Handle(r) ==
  \/ Arrive(r) \/ FirstCheck(r) \/ StopCheck(r) \/ TokenCheck(r)
  \/ Attempt(r) \/ Connect(r) \/ Recheck(r) \/ Send(r) \/ Response(r) \/ Pause(r)
  \/ Stream(r) \/ Record(r) \/ Mark(r) \/ Fail(r)

Bounded(r) ==
  \/ Attempt(r) \/ Connect(r) \/ Recheck(r) \/ Send(r) \/ Pause(r)
  \/ Record(r) \/ Mark(r) \/ Fail(r)
  \/ Cut(r) /\ (Response(r) \/ Stream(r))

Watch(r) == WatchSees(r) \/ WatchShuts(r)
Exit == Close \/ List \/ Closed

Finished ==
  relay = "closed" /\ (\A r \in Request : pc[r] \in {"none", "done"}) /\ UNCHANGED vars

Next ==
  \/ \E r \in Request : Handle(r) \/ Watch(r) \/ ClientLeaves(r)
  \/ Exit
  \/ Finished

Spec == Init /\ [][Next]_vars

\* A handler on its own, the watchers, and __exit__ once it has begun.
FairSpec ==
  /\ Spec
  /\ \A r \in Request : WF_vars(Bounded(r)) /\ WF_vars(Watch(r))
  /\ WF_vars(List \/ Closed)

-----------------------------------------------------------------------------
(***************************************************************************)
(* Properties.                                                             *)
(***************************************************************************)

\* If the tools of the task are missing from the first model request, no model
\* request ever reaches the model, although requests of several threads may be
\* between any two steps (_check_first_model_request).
RefusedNothingForwarded == refused => model \cap forwarded = {}

\* A model request that comes when a fatal stream error is on record is not
\* forwarded.  One that has passed the test of the marker is, and so are its
\* retries.
LateNotForwarded == late \cap model \cap forwarded = {}

\* No thread forwards a request that a refusal or a stop has barred.
BarredNotForwarded == RefusedNothingForwarded /\ LateNotForwarded

\* What was forwarded is accounted for: whatever happens to the upstream, the
\* client or the relay, a model request that was sent has exactly one response
\* record when its handler ends ("records exact model requests and responses").
ForwardedIsRecorded ==
  \A r \in model \cap forwarded : pc[r] = "done" => records[r] = 1

\* A client that stays gets an answer of the model or of the relay, whatever fails
\* between its request and its answer, unless the relay is closed under it.  The
\* request is one of the CLI's: an exception before the handler's try, as for a
\* body that does not arrive or cannot be decoded, is outside the model.
StayersAnswered ==
  [][\A r \in Request :
       pc[r] # "done" /\ pc'[r] = "done" /\ r \notin left /\ relay = "open"
         => r \in answered']_vars

\* Once __exit__ has returned nothing is sent upstream any more, not even by a
\* handler that it did not find in the list or that was connecting meanwhile.
NothingSentAfterClose ==
  [][relay = "closed" => \A r \in Request : ~(pc[r] = "send" /\ pc'[r] = "wait")]_vars

\* A handler that has begun its attempts ends once its client leaves or the relay
\* closes, however long the upstream would take.
AbandonedEnds ==
  \A r \in Request :
    (watch[r] = "on" /\ (r \in left \/ relay = "closed")) ~> pc[r] = "done"
=============================================================================
