------------------------ MODULE AdaptiveConcurrency ------------------------
(***************************************************************************)
(* The controller that moves a batch's dispatch target after every result  *)
(* (distill/__main__.py, _AdaptiveConcurrencyController).                  *)
(***************************************************************************)
EXTENDS Integers, Sequences

CONSTANTS
  Kind,        \* the kinds of errors a result is searched for
  MaxCount,    \* bound: errors of one kind in one result
  Minimum, Maximum,
  Window,      \* results kept (20)
  Threshold,   \* errors of one kind that are too many (3)
  StableRun,   \* completions without trouble before the target is raised (50)
  BigStep,     \* 25
  SmallStep    \* 5

ASSUME ControllerAssumption ==
  /\ Kind \subseteq {"transport", "startup", "environment", "verifier"}
  /\ MaxCount \in Nat
  /\ Minimum \in Nat \ {0} /\ Maximum \in Nat /\ Minimum <= Maximum
  /\ Window \in Nat \ {0} /\ Threshold \in Nat \ {0} /\ StableRun \in Nat \ {0}
  /\ SmallStep \in Nat \ {0} /\ BigStep \in Nat /\ SmallStep <= BigStep

VARIABLES
  current,     \* the dispatch target
  recent,      \* the last results
  stable,      \* completions since the last adjustment or trouble
  host,        \* the host when the last result came in
  parity       \* of the number of results: every result is a step

vars == <<current, recent, stable, host, parity>>

\* A verifier reports one verdict per case.
Result == {r \in [Kind -> 0..MaxCount] : "verifier" \in Kind => r["verifier"] <= 1}

\* Load of 90% or memory below 128 GiB; I/O pressure of 25%; good enough to
\* raise the target; none of these.
Host == {"overloaded", "io_bound", "healthy", "busy"}

Least(a, b)   == IF a < b THEN a ELSE b
Largest(a, b) == IF a > b THEN a ELSE b

TypeOK ==
  /\ current \in Minimum..Maximum
  /\ recent \in Seq(Result)
  /\ stable \in 0..StableRun
  /\ host \in Host
  /\ parity \in {0, 1}

Init ==
  /\ current \in Minimum..Maximum
  /\ recent = <<>>
  /\ stable = 0
  /\ host = "busy"
  /\ parity = 0

(***************************************************************************)
(* One operator per decision.  Definitions named X_Y are X with the bug Y. *)
(***************************************************************************)
Keep_LastOnly(results) == <<results[Len(results)]>>
Keep(results) == IF Len(results) > Window THEN Tail(results) ELSE results

\* Errors of one kind in the window.
Total(k, results) ==
  LET sum[i \in 0..Len(results)] == IF i = 0 THEN 0 ELSE results[i][k] + sum[i - 1]
  IN  sum[Len(results)]

TooMany(results) == \E k \in Kind : Total(k, results) >= Threshold
Clean(results)   == \A k \in Kind : Total(k, results) = 0

Halve == Largest(Minimum, current \div 2)

EaseOff == Largest(Minimum, current - BigStep)

Raise_NoFloor == Least(Maximum, current + Least(BigStep, current \div 2))
Raise == Least(Maximum, current + Least(BigStep, Largest(SmallStep, current \div 2)))

MayRaise(results, h) ==
  /\ Clean(results)
  /\ current < Maximum
  /\ stable + 1 >= StableRun
  /\ h = "healthy"

Observe(result, h) ==
  LET results == Keep(Append(recent, result))
      trouble == TooMany(results) \/ h \in {"overloaded", "io_bound"}
  IN
  /\ recent' = results
  /\ host' = h
  /\ parity' = 1 - parity
  /\ \/ /\ trouble
        /\ stable' = 0
        /\ current' = IF TooMany(results) \/ h = "overloaded" THEN Halve ELSE EaseOff
     \/ /\ ~trouble /\ MayRaise(results, h)
        /\ stable' = 0
        /\ current' = Raise
     \/ /\ ~trouble /\ ~MayRaise(results, h)
        /\ stable' = Least(stable + 1, StableRun)
        /\ UNCHANGED current

Next == \E result \in Result, h \in Host : Observe(result, h)

\* A batch that goes on: every dispatched case yields a result.
Spec     == Init /\ [][Next]_vars
FairSpec == Spec /\ WF_vars(Next)

-----------------------------------------------------------------------------
(***************************************************************************)
(* Properties.                                                             *)
(***************************************************************************)
Last == recent[Len(recent)]

Calm == recent # <<>> /\ host = "healthy" /\ \A k \in Kind : Last[k] = 0

\* No trouble is held against the batch for ever: once results are clean and
\* the host is healthy for good, the target climbs back to the maximum from
\* wherever halving has taken it, 1 included.
Recovers == <>[]Calm => <>[](current = Maximum)

\* Errors too few in one result to matter add up in the window: when every
\* result has one of the same kind the target falls to the minimum.
BacksOff ==
  \A k \in Kind :
    <>[](recent # <<>> /\ Last[k] > 0) => <>[](current = Minimum)
=============================================================================
