---------------------------- MODULE AtomicCalls ----------------------------
(***************************************************************************)
(* What the harness promises of environment tools: a call takes effect as  *)
(* a whole or not at all, and the trace records a success of the former    *)
(* (harness/execution.py, call_environment_tool).                          *)
(***************************************************************************)
CONSTANTS
  Call,        \* the tool calls of one task
  ReadOnly     \* those whose tool declares no side effects

Part    == {"file", "first", "second"}
Effects == Call \X Part

\* Everything a successful call leaves on disk.
Effect(c) == IF c \in ReadOnly THEN {} ELSE {c} \X Part

VARIABLES
  state,       \* effects present on disk
  record       \* how each call ended: a line of success or failure in the trace,
               \* or "raised", an error without a line

Init ==
  /\ state = {}
  /\ record = [c \in Call |-> "none"]

Commit(c) ==
  /\ record[c] = "none"
  /\ state' = state \cup Effect(c)
  /\ UNCHANGED record

Succeed(c) ==
  /\ record[c] = "none"
  /\ Effect(c) \subseteq state
  /\ record' = [record EXCEPT ![c] = "ok"]
  /\ UNCHANGED state

Fail(c) ==
  /\ record[c] = "none"
  /\ state \cap ({c} \X Part) = {}
  /\ \E end \in {"failed", "raised"} : record' = [record EXCEPT ![c] = end]
  /\ UNCHANGED state

Next == \E c \in Call : Commit(c) \/ Succeed(c) \/ Fail(c)

Spec == Init /\ [][Next]_<<state, record>>
=============================================================================
