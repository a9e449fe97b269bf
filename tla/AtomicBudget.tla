---------------------------- MODULE AtomicBudget ----------------------------
(***************************************************************************)
(* What claim_tool_call (harness/tool_budget.py) promises of the budget    *)
(* that several processes share: a claim is allowed or refused in a single *)
(* step, as if there were one process, and nobody hears of a refusal       *)
(* before the stop marker is there.  The promise has two gaps, both for a  *)
(* claimant that dies: its call may be counted and never run, and as long  *)
(* as the budget is not spent, the count may be forgotten.                 *)
(***************************************************************************)
EXTENDS Naturals

CONSTANT Limit

VARIABLES
  used,        \* calls counted since the count was last forgotten
  granted,     \* calls allowed to run
  denied,      \* calls refused
  tears,       \* how often the count was forgotten
  marker       \* does the stop marker exist?

Init == used = 0 /\ granted = 0 /\ denied = 0 /\ tears = 0 /\ marker = FALSE

Count == used < Limit /\ used' = used + 1

Allow  == Count /\ granted' = granted + 1 /\ UNCHANGED <<denied, tears, marker>>
Waste  == Count /\ UNCHANGED <<granted, denied, tears, marker>>
Refuse == used = Limit /\ marker /\ denied' = denied + 1 /\ UNCHANGED <<used, granted, tears, marker>>
Forget == used < Limit /\ used' = 0 /\ tears' = tears + 1 /\ UNCHANGED <<granted, denied, marker>>
Stop   == marker' = TRUE /\ UNCHANGED <<used, granted, denied, tears>>

Next == Allow \/ Waste \/ Refuse \/ Forget \/ Stop

Spec == Init /\ [][Next]_<<used, granted, denied, tears, marker>>
=============================================================================
