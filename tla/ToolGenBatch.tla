---------------------------- MODULE ToolGenBatch ----------------------------
(***************************************************************************)
(* The batch runner of ToolGen (env_gen/tool_gen/batch.py): a pool of      *)
(* worker threads, each with one ToolGen process at a time, a signal       *)
(* handler that stops the batch, a status file, and restarts that resume   *)
(* from it.  The processes are the publishers of DeliveryPublish; each has *)
(* a session of its own and survives a crash of the batch.  A start may be *)
(* for some of the environments only (--environment); status.json then     *)
(* keeps nothing of the others.                                            *)
(***************************************************************************)
EXTENDS DeliveryPublish

CONSTANTS
  Workers,     \* workers
  MaxTries,    \* max_attempts
  MaxRuns,     \* bound: starts of the batch
  Faults       \* {"crash"}: the batch may be killed, at any step

ASSUME BatchAssumption ==
  /\ Workers \in Nat \ {0} /\ MaxTries \in Nat \ {0} /\ MaxRuns \in Nat
  /\ Faults \subseteq {"crash"}

VARIABLES
  main,        \* the main thread
  runs,        \* starts so far
  selected,    \* the environments of this start
  stop,        \* stop_event
  targets,     \* processes the signal handler still has to terminate
  decided,     \* the final state run() has decided on
  state,       \* status.json: state of the batch
  entry,       \* status.json: state of an environment
  attempt,     \* status.json: the number of an environment's last attempt
  tries,       \* attempts in this run
  worker,      \* the thread that runs an environment
  registered,  \* processes
  launched,    \* history: processes of an environment so far
  logged,      \* history: the attempts in the logs of the environments
  forgotten,   \* history: environments whose attempts status.json has lost
  orphans      \* history: processes alive when the batch was killed

files   == <<state, entry, attempt>>
control == <<main, runs, selected, stop, targets, decided>>
pool    == <<tries, worker, registered>>
history == <<launched, logged, forgotten, orphans>>
vars == <<stage, built, profile, package, saved, cut, codex, main, runs, selected, stop,
          targets, decided, state, entry, attempt, tries, worker, registered, launched,
          logged, forgotten, orphans>>

Idle == targets = {}
Running == main \notin {"off", "exited"}
Child(e) == <<e, launched[e]>>
Busy == {"begin", "spawn", "born", "watch", "ended", "pause"}

TypeOK ==
  /\ DeliveryTypeOK
  /\ main \in {"off", "locked", "read", "scan", "pool", "decide", "report", "closing", "exited"}
  /\ runs \in 0..MaxRuns /\ selected \subseteq Environment
  /\ stop \in BOOLEAN
  /\ targets \subseteq Environment
  /\ decided \in {"none", "interrupted", "completed_with_failures", "completed"}
  /\ state \in {"none", "running", "stopping", "interrupted", "completed_with_failures",
                "completed", "failed"}
  /\ entry \in [Environment -> {"pending", "running", "retrying", "interrupted",
                                "succeeded", "failed"}]
  /\ attempt \in [Environment -> Nat]
  /\ tries \in [Environment -> 0..MaxTries]
  /\ worker \in [Environment -> Busy \cup {"none", "queued", "done"}]
  /\ registered \subseteq Environment
  /\ launched \in [Environment -> Nat]
  /\ \A e \in Environment : launched[e] <= Attempts[e]
  /\ logged \subseteq Environment \X Nat
  /\ forgotten \subseteq Environment
  /\ orphans \subseteq Publisher

Init ==
  /\ DeliveryInit
  /\ main = "off" /\ runs = 0 /\ selected = {} /\ stop = FALSE /\ targets = {} /\ decided = "none"
  /\ state = "none"
  /\ entry = [e \in Environment |-> "pending"]
  /\ attempt = [e \in Environment |-> 0]
  /\ tries = [e \in Environment |-> 0]
  /\ worker = [e \in Environment |-> "none"]
  /\ registered = {}
  /\ launched = [e \in Environment |-> 0] /\ logged = {} /\ forgotten = {} /\ orphans = {}

(***************************************************************************)
(* The main thread.  Definitions named X_Y are X with the bug Y.           *)
(***************************************************************************)
\* The lock and the signal handlers.
Start ==
  /\ main \in {"off", "exited"} /\ runs < MaxRuns
  /\ main' = "locked" /\ runs' = runs + 1
  /\ \E chosen \in SUBSET Environment : chosen # {} /\ selected' = chosen
  /\ stop' = FALSE /\ decided' = "none"
  /\ tries' = [e \in Environment |-> 0]
  /\ worker' = [e \in Environment |-> "none"]
  /\ registered' = {}
  /\ UNCHANGED <<delivery, targets, files, history>>

\* What the status file knew of the environments in D is lost.
Forget(D) ==
  /\ entry' = [e \in Environment |-> IF e \in D THEN "pending" ELSE entry[e]]
  /\ attempt' = [e \in Environment |-> IF e \in D THEN 0 ELSE attempt[e]]
  /\ forgotten' = forgotten \cup {e \in D : attempt[e] > 0}

ReadStatus ==
  /\ main = "locked" /\ Idle
  /\ main' = "read"
  /\ UNCHANGED <<delivery, runs, selected, stop, targets, decided, files, pool, history>>

Prepared_Fresh ==
  /\ entry' = [e \in Environment |-> "pending"]
  /\ attempt' = [e \in Environment |-> 0]
  /\ forgotten' = forgotten \cup {e \in Environment \ selected : attempt[e] > 0}

\* The entries of the selected environments, the interrupted ones pending again.
Prepared ==
  /\ entry' = [e \in Environment |->
                 IF e \notin selected \/ entry[e] \in {"running", "retrying"} THEN "pending"
                 ELSE entry[e]]
  /\ attempt' = [e \in Environment |-> IF e \in selected THEN attempt[e] ELSE 0]
  /\ forgotten' = forgotten \cup {e \in Environment \ selected : attempt[e] > 0}

\* _prepare_status; a signal from here on finds the status in memory.
PrepareStatus ==
  /\ main = "read" /\ Idle
  /\ main' = "scan" /\ state' = "running" /\ Prepared
  /\ UNCHANGED <<delivery, runs, selected, stop, targets, decided, pool, launched, logged,
                 orphans>>

\* A delivered environment is skipped, whatever the status file says of it.
Scan(e) ==
  /\ main = "scan" /\ Idle /\ e \in selected /\ worker[e] = "none"
  /\ \/ /\ package[e] # None
        /\ entry' = [entry EXCEPT ![e] = "succeeded"]
        /\ worker' = [worker EXCEPT ![e] = "done"]
     \/ /\ package[e] = None
        /\ worker' = [worker EXCEPT ![e] = "queued"] /\ UNCHANGED entry
  /\ UNCHANGED <<delivery, control, state, attempt, tries, registered, history>>

Scanned ==
  /\ main = "scan" /\ Idle /\ \A e \in selected : worker[e] # "none"
  /\ main' = "pool"
  /\ UNCHANGED <<delivery, runs, selected, stop, targets, decided, files, pool, history>>

Joined ==
  /\ main = "pool" /\ Idle /\ \A e \in selected : worker[e] = "done"
  /\ main' = "decide"
  /\ UNCHANGED <<delivery, runs, selected, stop, targets, decided, files, pool, history>>

Decide_FailedOnly ==
  /\ main = "decide" /\ Idle
  /\ decided' = IF \E e \in selected : entry[e] = "failed" THEN "completed_with_failures"
                ELSE "completed"
  /\ main' = "report"
  /\ UNCHANGED <<delivery, runs, selected, stop, targets, files, pool, history>>

Decide ==
  /\ main = "decide" /\ Idle
  /\ decided' = IF stop THEN "interrupted"
                ELSE IF \E e \in selected : entry[e] = "failed" THEN "completed_with_failures"
                ELSE "completed"
  /\ main' = "report"
  /\ UNCHANGED <<delivery, runs, selected, stop, targets, files, pool, history>>

Report ==
  /\ main = "report" /\ Idle
  /\ state' = decided /\ main' = "closing"
  /\ UNCHANGED <<delivery, runs, selected, stop, targets, decided, entry, attempt, pool, history>>

\* The finally of run(): what is still registered is terminated.
Exit ==
  /\ main = "closing" /\ Idle
  /\ main' = "exited" /\ decided' = "none"
  /\ KillPublishers({Child(e) : e \in registered})
  /\ tries' = [e \in Environment |-> 0]
  /\ worker' = [e \in Environment |-> "none"] /\ registered' = {}
  /\ UNCHANGED <<runs, selected, stop, targets, files, history>>

(***************************************************************************)
(* The handler runs in the main thread, whose next step waits for it.      *)
(***************************************************************************)
\* Before the status file is read there is nothing in memory: what the handler writes is
\* an empty status.
Signal ==
  /\ Running /\ Idle /\ ~stop
  /\ stop' = TRUE /\ state' = "stopping"
  /\ targets' = registered
  /\ IF main = "locked" THEN Forget(Environment) ELSE UNCHANGED <<entry, attempt, forgotten>>
  /\ UNCHANGED <<delivery, main, runs, selected, decided, pool, launched, logged, orphans>>

\* The handler's write of the status file takes the temporary file away from a
\* write of the main thread that it has interrupted; that one raises, and so does
\* run(), in the end.
SignalInWrite ==
  /\ main \in {"read", "scan", "closing"} /\ Idle /\ ~stop
  /\ stop' = TRUE /\ state' = "failed" /\ main' = "closing"
  /\ worker' = [e \in Environment |-> IF e \in selected THEN "done" ELSE "none"]
  /\ IF main = "read" THEN Prepared ELSE UNCHANGED <<entry, attempt, forgotten>>
  /\ UNCHANGED <<delivery, runs, selected, targets, decided, tries, registered, launched,
                 logged, orphans>>

HandlerTerminates(e) ==
  /\ Running /\ e \in targets
  /\ targets' = targets \ {e}
  /\ KillPublishers({Child(e)})
  /\ UNCHANGED <<main, runs, selected, stop, decided, files, pool, history>>

(***************************************************************************)
(* A worker.                                                               *)
(***************************************************************************)
Move(e, to) == worker' = [worker EXCEPT ![e] = to]
Set(e, to)  == entry' = [entry EXCEPT ![e] = to]

Take(e) ==
  /\ main = "pool" /\ worker[e] = "queued"
  /\ Cardinality({d \in Environment : worker[d] \in Busy}) < Workers
  /\ Move(e, "begin")
  /\ UNCHANGED <<delivery, control, files, tries, registered, history>>

\* One attempt begins: its number is on file before its process is there.
Begin(e) ==
  /\ worker[e] = "begin"
  /\ \/ /\ stop /\ Set(e, "interrupted") /\ Move(e, "done") /\ UNCHANGED <<attempt, tries>>
     \/ /\ ~stop /\ launched[e] < Attempts[e]
        /\ Set(e, "running") /\ Move(e, "spawn")
        /\ attempt' = [attempt EXCEPT ![e] = @ + 1]
        /\ tries' = [tries EXCEPT ![e] = @ + 1]
  /\ UNCHANGED <<delivery, control, state, registered, history>>

Log(e) == logged' = logged \cup {<<e, attempt[e]>>}

Spawn(e) ==
  /\ worker[e] = "spawn"
  /\ launched' = [launched EXCEPT ![e] = @ + 1]
  /\ StartPublisher(<<e, launched[e] + 1>>) /\ Move(e, "born") /\ Log(e)
  /\ UNCHANGED <<control, files, tries, registered, forgotten, orphans>>

\* _safe_run_environment.  The log may lack the line, if it was the log that failed; to
\* count it as used is on the safe side.
SpawnRaises(e) ==
  /\ worker[e] = "spawn"
  /\ Set(e, IF stop THEN "interrupted" ELSE "failed") /\ Move(e, "done")
  /\ Log(e)
  /\ UNCHANGED <<delivery, control, state, attempt, tries, registered, launched, forgotten,
                 orphans>>

Register(e) ==
  /\ worker[e] = "born"
  /\ registered' = registered \cup {e} /\ Move(e, "watch")
  /\ UNCHANGED <<delivery, control, files, tries, history>>

Unregister(e) == registered' = registered \ {e} /\ Move(e, "ended")

ChildEnds(e) ==
  /\ worker[e] = "watch" /\ stage[Child(e)] \notin Alive
  /\ Unregister(e)
  /\ UNCHANGED <<delivery, control, files, tries, history>>

WatchStops_HandlerOnly(e) ==
  /\ worker[e] = "watch" /\ stop
  /\ stage[Child(e)] \notin Alive
  /\ Unregister(e)
  /\ UNCHANGED <<delivery, control, files, tries, history>>

WatchStops_LeaveToHandler(e) ==
  /\ worker[e] = "watch" /\ stop
  /\ Unregister(e)
  /\ UNCHANGED <<delivery, control, files, tries, history>>

\* The worker terminates its process as well: the handler may have come before it
\* was registered.
WatchStops(e) ==
  /\ worker[e] = "watch" /\ stop
  /\ KillPublishers({Child(e)}) /\ Unregister(e)
  /\ UNCHANGED <<control, files, tries, history>>

Delivered(e) == stage[Child(e)] = "published" /\ package[e] # None

After(e) ==
  /\ worker[e] = "ended"
  /\ \/ stop /\ Set(e, "interrupted") /\ Move(e, "done")
     \/ ~stop /\ Delivered(e) /\ Set(e, "succeeded") /\ Move(e, "done")
     \/ /\ ~stop /\ ~Delivered(e)
        /\ IF tries[e] < MaxTries THEN Set(e, "retrying") /\ Move(e, "pause")
           ELSE Set(e, "failed") /\ Move(e, "done")
  /\ UNCHANGED <<delivery, control, state, attempt, tries, registered, history>>

Pause(e) ==
  /\ worker[e] = "pause"
  /\ \/ stop /\ Set(e, "interrupted") /\ Move(e, "done")
     \/ ~stop /\ Move(e, "begin") /\ UNCHANGED entry
  /\ UNCHANGED <<delivery, control, state, attempt, tries, registered, history>>

(***************************************************************************)
(* The batch is killed.  Its lock goes with it, its processes stay.        *)
(***************************************************************************)
\* A status file that the handler has emptied while it was read is not written again.
Crash ==
  /\ Running /\ "crash" \in Faults
  /\ main' = "off" /\ targets' = {} /\ stop' = FALSE /\ decided' = "none"
  /\ tries' = [e \in Environment |-> 0]
  /\ orphans' = orphans \cup {p \in Publisher : stage[p] \in Alive}
  /\ worker' = [e \in Environment |-> "none"] /\ registered' = {}
  /\ IF main = "read" /\ stop THEN Forget(Environment)
     ELSE UNCHANGED <<entry, attempt, forgotten>>
  /\ selected' = {}
  /\ UNCHANGED <<delivery, runs, state, launched, logged>>

PublisherSteps(p) ==
  /\ Publish(p) \/ CodexEnds(p)
  /\ UNCHANGED <<control, files, pool, history>>

OrphanDies(p) ==
  /\ p \in orphans /\ KillPublishers({p}) /\ stage[p] \in Alive
  /\ UNCHANGED <<control, files, pool, history>>

Main ==
  \/ ReadStatus \/ PrepareStatus \/ \E e \in Environment : Scan(e)
  \/ Scanned \/ Joined \/ Decide \/ Report \/ Exit
Work(e) ==
  \/ Take(e) \/ Begin(e) \/ Spawn(e) \/ SpawnRaises(e) \/ Register(e) \/ ChildEnds(e)
  \/ WatchStops(e) \/ After(e) \/ Pause(e)

Next ==
  \/ Start \/ Main \/ Signal \/ SignalInWrite \/ Crash
  \/ \E e \in Environment : HandlerTerminates(e) \/ Work(e)
  \/ \E p \in Publisher : PublisherSteps(p) \/ OrphanDies(p)

Spec == Init /\ [][Next]_vars

\* The threads of the batch run; nothing bounds a ToolGen process.
FairSpec ==
  /\ Spec
  /\ WF_vars(Main)
  /\ \A e \in Environment : WF_vars(HandlerTerminates(e)) /\ WF_vars(Work(e))

-----------------------------------------------------------------------------
(***************************************************************************)
(* Properties.                                                             *)
(***************************************************************************)

\* A batch that ends leaves no ToolGen process of its own behind, even if the signal
\* comes between the start of a process and its entry in processes.  Their Codex
\* sessions may outlive it.
NoToolGenLeft ==
  main = "exited" =>
    \A p \in Publisher : stage[p] \in Alive => p \in orphans

\* "The batch stops the ToolGen and Codex processes it has started" (BATCH_RUN_ZH.md).
NoCodexLeft ==
  main = "exited" => codex \subseteq orphans

\* A batch that reports completion has a package in place for every environment of
\* its start, unless a process of an earlier, killed batch is replacing it, or died doing so.
CompletedIsDelivered ==
  main = "exited" /\ state = "completed" =>
    \A e \in selected :
      /\ entry[e] = "succeeded"
      /\ \/ package[e] # None
         \/ e \in cut
         \/ \E p \in orphans : p[1] = e /\ saved[p] # None

\* The number of an attempt is used twice in the log of an environment only if
\* status.json has lost its entry: to a start without the environment, or to a signal
\* before the file was read.
FreshAttempt ==
  \A e \in Environment :
    worker[e] = "spawn" /\ e \notin forgotten => <<e, attempt[e]>> \notin logged

\* A signal ends the batch, however long its processes would run.
StopEndsBatch == (Running /\ stop) ~> ~Running
=============================================================================
