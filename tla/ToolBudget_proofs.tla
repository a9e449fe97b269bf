-------------------------- MODULE ToolBudget_proofs --------------------------
(***************************************************************************)
(* Proofs about ToolBudget, for any number of claimants, any limit and any *)
(* number of calls: the flock excludes, the budget bound holds, a refusal  *)
(* is final, a stop has its reason, and ToolBudget implements AtomicBudget.*)
(***************************************************************************)
EXTENDS ToolBudget, FiniteSetTheorems, TLAPS

\* Exactly the claimants between flock and unlock hold the lock, and only one
\* does (claim_tool_call, harness/tool_budget.py).
LockInv ==
  /\ \A p \in Proc : p \in lock <=> pc[p] \in Holding
  /\ \A p, q \in lock : p = q

\* What a claimant between flock and unlock knows about the counter file, and
\* what the file says of the calls granted so far: each torn write has forgotten
\* what its claimant had read, which was less than the budget.
CountInv ==
  /\ \A p \in Proc : pc[p] = "truncate" => seen[p] = counter /\ counter < Limit
  /\ \A p \in Proc : pc[p] = "store" =>
       seen[p] < Limit /\ counter = 0 /\ granted <= (Limit - 1) * tears + seen[p]
  /\ \A p \in Proc : pc[p] = "granted" => 
       counter = seen[p] + 1 /\ seen[p] < Limit /\ granted + 1 <= (Limit - 1) * tears + counter
  /\ (\A p \in Proc : pc[p] # "store") => granted <= (Limit - 1) * tears + counter

IInv == TypeOK /\ LockInv /\ CountInv

LEMMA ForgottenBudget ==
  ASSUME NEW t \in Nat
  PROVE  (Limit - 1) * t \in Nat /\ (Limit - 1) * (t + 1) = (Limit - 1) * t + (Limit - 1)
BY BudgetAssumption

LEMMA InitInv == Init => IInv
<1> SUFFICES ASSUME Init PROVE IInv
  OBVIOUS
<1>0. signalled \in BOOLEAN /\ marker \in BOOLEAN
  BY Zenon DEF Init
<1>1. TypeOK
  BY <1>0, BudgetAssumption DEF Init, TypeOK, Step, Holding, MonStep
<1>2. LockInv
  BY DEF Init, LockInv, Holding
<1>3. CountInv
  BY ForgottenBudget, BudgetAssumption DEF Init, CountInv
<1> QED
  BY <1>1, <1>2, <1>3 DEF IInv

LEMMA NextInv == IInv /\ [Next]_vars => IInv'
<1> SUFFICES ASSUME TypeOK, LockInv, CountInv, [Next]_vars
             PROVE  TypeOK' /\ LockInv' /\ CountInv'
  BY DEF IInv
<1> USE BudgetAssumption DEF claimVars, runVars, Holding
<1>0. (Limit - 1) * tears \in Nat /\ (Limit - 1) * (tears + 1) = (Limit - 1) * tears + (Limit - 1)
  BY ForgottenBudget DEF TypeOK
<1>1. ASSUME NEW p \in Proc, Call(p)
      PROVE  TypeOK' /\ LockInv' /\ CountInv'
  <2>1. TypeOK'
    BY <1>1 DEF Call, Emit, TypeOK, Step
  <2>2. LockInv'
    BY <1>1 DEF Call, TypeOK, LockInv
  <2>3. CountInv'
    BY <1>1 DEF Call, TypeOK, CountInv
  <2> QED BY <2>1, <2>2, <2>3
<1>2. ASSUME NEW p \in Proc, Acquire(p)
      PROVE  TypeOK' /\ LockInv' /\ CountInv'
  <2>1. TypeOK'
    BY <1>2 DEF Acquire, TypeOK, Step
  <2>2. LockInv'
    BY <1>2 DEF Acquire, LockFree, TypeOK, LockInv
  <2>3. CountInv'
    BY <1>2 DEF Acquire, LockFree, Exhausted, TypeOK, LockInv, CountInv
  <2> QED BY <2>1, <2>2, <2>3
<1>3. ASSUME NEW p \in Proc, Truncate(p)
      PROVE  TypeOK' /\ LockInv' /\ CountInv'
  <2>1. TypeOK'
    BY <1>3 DEF Truncate, TypeOK, Step
  <2>2. LockInv'
    BY <1>3 DEF Truncate, TypeOK, LockInv
  <2>3. \A q \in Proc \ {p} : pc[q] \notin Holding
    BY <1>3 DEF Truncate, LockInv
  <2>4. CountInv'
    BY <1>0, <1>3, <2>3 DEF Truncate, TypeOK, CountInv
  <2> QED BY <2>1, <2>2, <2>4
<1>4. ASSUME NEW p \in Proc, Store(p)
      PROVE  TypeOK' /\ LockInv' /\ CountInv'
  <2>1. TypeOK'
    BY <1>4 DEF Store, TypeOK, Step, CountInv
  <2>2. LockInv'
    BY <1>4 DEF Store, TypeOK, LockInv
  <2>3. \A q \in Proc \ {p} : pc[q] \notin Holding
    BY <1>4 DEF Store, LockInv
  <2>4. CountInv'
    BY <1>0, <1>4, <2>3 DEF Store, TypeOK, CountInv
  <2> QED BY <2>1, <2>2, <2>4
<1>5. ASSUME NEW p \in Proc, Grant(p)
      PROVE  TypeOK' /\ LockInv' /\ CountInv'
  <2>1. TypeOK'
    BY <1>5 DEF Grant, TypeOK, Step
  <2>2. LockInv'
    BY <1>5 DEF Grant, TypeOK, LockInv
  <2>3. \A q \in Proc \ {p} : pc[q] \notin Holding
    BY <1>5 DEF Grant, LockInv
  <2>4. CountInv'
    BY <1>0, <1>5, <2>3 DEF Grant, TypeOK, CountInv
  <2> QED BY <2>1, <2>2, <2>4
<1>6. ASSUME NEW p \in Proc, Mark(p) \/ Deny(p)
      PROVE  TypeOK' /\ LockInv' /\ CountInv'
  <2>0. marker' \in BOOLEAN
    BY <1>6, Zenon DEF Mark, Deny, TypeOK
  <2>1. TypeOK'
    BY <1>6, <2>0 DEF Mark, Deny, TypeOK, Step
  <2>2. LockInv'
    BY <1>6 DEF Mark, Deny, TypeOK, LockInv
  <2>3. CountInv'
    BY <1>6 DEF Mark, Deny, TypeOK, CountInv
  <2> QED BY <2>1, <2>2, <2>3
<1>7. ASSUME Remark
      PROVE  TypeOK' /\ LockInv' /\ CountInv'
  <2>0. marker' \in BOOLEAN
    BY <1>7, Zenon DEF Remark
  <2>1. TypeOK'
    BY <1>7, <2>0 DEF Remark, TypeOK, Step
  <2>2. LockInv'
    BY <1>7 DEF Remark, TypeOK, LockInv
  <2>3. CountInv'
    BY <1>7 DEF Remark, TypeOK, CountInv
  <2> QED BY <2>1, <2>2, <2>3
<1>8. ASSUME NEW p \in Proc, NEW next \in {"idle", "dead"}, Die(p, next)
      PROVE  TypeOK' /\ LockInv' /\ CountInv'
  <2>1. TypeOK'
    BY <1>8 DEF Die, TypeOK, Step
  <2>2. LockInv'
    BY <1>8 DEF Die, TypeOK, LockInv
  <2>3. CASE pc[p] = "store"
    <3>1. \A q \in Proc \ {p} : pc[q] \notin Holding
      BY <2>3 DEF LockInv
    <3>2. granted <= (Limit - 1) * (tears + 1) + 0
      BY <1>0, <2>3 DEF TypeOK, CountInv
    <3>3. CountInv'
      BY <1>8, <2>3, <3>1, <3>2 DEF Die, TypeOK, CountInv
    <3> QED BY <2>1, <2>2, <3>3
  <2>4. CASE pc[p] # "store"
    <3>1. CountInv'
      BY <1>8, <2>4 DEF Die, TypeOK, CountInv
    <3> QED BY <2>1, <2>2, <3>1
  <2> QED BY <2>3, <2>4
<1>9. ASSUME UNCHANGED claimVars,
             UnclaimedCall \/ MonitorStepTaken \/ MonitorOtherStop \/ MonitorDies
               \/ CliExit \/ Finished
      PROVE  TypeOK' /\ LockInv' /\ CountInv'
  <2>0. signalled' \in BOOLEAN /\ marker' \in BOOLEAN
    BY <1>9, Zenon DEF UnclaimedCall, Emit, MonitorStepTaken, MonitorPoll, MonitorCount,
                MonitorStop, MonitorOtherStop, MonitorDies, MonitorReturn,
                CliExit, Finished, TypeOK, vars
  <2>1. TypeOK'
    BY <1>9, <2>0 DEF UnclaimedCall, Emit, MonitorStepTaken, MonitorPoll, MonitorCount,
                MonitorStop, MonitorOtherStop, MonitorDies, MonitorReturn,
                CliExit, Finished, TypeOK, MonStep, vars
  <2>2. LockInv'
    BY <1>9 DEF LockInv
  <2>3. CountInv'
    BY <1>9 DEF CountInv
  <2> QED BY <2>1, <2>2, <2>3
<1>10. CASE UNCHANGED vars
  BY <1>10 DEF vars, TypeOK, LockInv, CountInv
<1>11. ASSUME NEW p \in Proc, HookTimeout(p) \/ Killed(p)
       PROVE  TypeOK' /\ LockInv' /\ CountInv'
  BY <1>8, <1>11 DEF HookTimeout, Killed
<1>12. UnclaimedCall \/ MonitorStepTaken \/ MonitorOtherStop \/ MonitorDies
         \/ CliExit \/ Finished => UNCHANGED claimVars
  BY DEF UnclaimedCall, MonitorStepTaken, MonitorPoll, MonitorCount, MonitorStop,
         MonitorOtherStop, MonitorDies, MonitorReturn, CliExit, Finished, vars
<1> QED
  BY <1>1, <1>2, <1>3, <1>4, <1>5, <1>6, <1>7, <1>9, <1>10, <1>11, <1>12
     DEF Next, Claim

LEMMA Inductive == Spec => []IInv
BY InitInv, NextInv, PTL DEF Spec

\* Every state of a run is well typed; in particular the counter never exceeds
\* the limit (harness/tool_budget.py).
THEOREM TypeCorrect == Spec => []TypeOK
<1>1. IInv => TypeOK
  BY DEF IInv
<1> QED
  BY <1>1, Inductive, PTL

\* The flock serialises claims: no two claimants are ever between flock and
\* unlock of harness/tool_budget.py.
THEOREM MutualExclusion ==
  Spec => [](\A p, q \in Proc : pc[p] \in Holding /\ pc[q] \in Holding => p = q)
<1>1. IInv => \A p, q \in Proc : pc[p] \in Holding /\ pc[q] \in Holding => p = q
  BY DEF IInv, LockInv
<1> QED
  BY <1>1, Inductive, PTL

\* The calls allowed to run never exceed one budget, plus one less than a budget
\* for every claimant killed while it had the counter file truncated.
THEOREM BudgetHolds == Spec => []BudgetBound
<1>1. IInv => BudgetBound
  <2> SUFFICES ASSUME IInv PROVE BudgetBound
    OBVIOUS
  <2>1. (Limit - 1) * tears \in Nat /\ (Limit - 1) * (tears + 1) = (Limit - 1) * tears + (Limit - 1)
    BY ForgottenBudget DEF IInv, TypeOK
  <2>2. CASE \E p \in Proc : pc[p] = "store"
    BY <2>1, <2>2, BudgetAssumption DEF IInv, TypeOK, CountInv, BudgetBound
  <2>3. CASE \A p \in Proc : pc[p] # "store"
    BY <2>1, <2>3, BudgetAssumption DEF IInv, TypeOK, CountInv, BudgetBound
  <2> QED BY <2>2, <2>3
<1> QED
  BY <1>1, Inductive, PTL

-----------------------------------------------------------------------------
(***************************************************************************)
(* A refusal is final.                                                     *)
(***************************************************************************)

\* Once the budget is seen spent it stays so: no claimant is on its way to a grant.
SpentInv ==
  denied > 0 \/ (\E p \in Proc : pc[p] \in {"mark", "denied"}) =>
    counter = Limit /\ \A p \in Proc : pc[p] \notin {"truncate", "store", "granted"}

LEMMA SpentStep == IInv /\ SpentInv /\ [Next]_vars => SpentInv'
<1> SUFFICES ASSUME IInv, SpentInv, [Next]_vars PROVE SpentInv'
  OBVIOUS
<1> USE BudgetAssumption DEF IInv, TypeOK, LockInv, Holding, SpentInv, claimVars
<1>1. ASSUME NEW p \in Proc, Call(p) PROVE SpentInv'
  BY <1>1 DEF Call
<1>2. ASSUME NEW p \in Proc, Acquire(p) PROVE SpentInv'
  BY <1>2 DEF Acquire, LockFree, Exhausted
<1>3. ASSUME NEW p \in Proc, Truncate(p) \/ Store(p) \/ Grant(p) PROVE SpentInv'
  <2>1. \A q \in Proc \ {p} : pc[q] \notin Holding
    BY <1>3 DEF Truncate, Store, Grant
  <2>2. pc[p] \in {"truncate", "store", "granted"}
    BY <1>3 DEF Truncate, Store, Grant
  <2>3. ~(denied > 0)
    BY <2>2
  <2>4. denied' = denied /\ \A q \in Proc : pc'[q] \notin {"mark", "denied"}
    BY <1>3, <2>1 DEF Truncate, Store, Grant
  <2> QED  BY <2>3, <2>4
<1>4. ASSUME NEW p \in Proc, Mark(p) \/ Deny(p) PROVE SpentInv'
  BY <1>4 DEF Mark, Deny
<1>5. CASE Remark
  BY <1>5 DEF Remark
<1>6. ASSUME NEW p \in Proc, HookTimeout(p) \/ Killed(p) PROVE SpentInv'
  BY <1>6 DEF HookTimeout, Killed, Die
<1>7. CASE UNCHANGED claimVars
  BY <1>7
<1>8. UnclaimedCall \/ MonitorStepTaken \/ MonitorOtherStop \/ MonitorDies
         \/ CliExit \/ Finished => UNCHANGED claimVars
  BY DEF UnclaimedCall, MonitorStepTaken, MonitorPoll, MonitorCount, MonitorStop,
         MonitorOtherStop, MonitorDies, MonitorReturn, CliExit, Finished, vars
<1> QED
  BY <1>1, <1>2, <1>3, <1>4, <1>5, <1>6, <1>7, <1>8 DEF Next, Claim, vars

\* Whichever claimants die, nobody is allowed a call after anybody was refused one
\* (claim_tool_call, harness/tool_budget.py).
THEOREM RefusalIsFinal == Spec => NoGrantAfterDenial
<1>1. Init => SpentInv
  BY DEF Init, SpentInv
<1>2. IInv /\ SpentInv /\ [Next]_vars => (denied > 0 => granted' = granted)
  <2> SUFFICES ASSUME SpentInv, [Next]_vars, denied > 0 PROVE granted' = granted
    OBVIOUS
  <2>1. ASSUME NEW p \in Proc, Grant(p) PROVE FALSE
    BY <2>1 DEF Grant, SpentInv
  <2> QED
    BY <2>1 DEF Next, Claim, vars, claimVars, Call, Acquire, Truncate, Store, Mark, Deny,
       Remark, HookTimeout, Killed, Die, UnclaimedCall, MonitorStepTaken, MonitorPoll,
       MonitorCount, MonitorStop, MonitorOtherStop, MonitorDies, MonitorReturn, CliExit, Finished
<1> QED
  BY <1>1, <1>2, SpentStep, Inductive, PTL DEF Spec, NoGrantAfterDenial

-----------------------------------------------------------------------------
(***************************************************************************)
(* A budget stop has its reason.                                           *)
(***************************************************************************)

\* Claimants whose call was emitted and is not counted in the file yet.
InFlight == {p \in Proc : pc[p] \in {"wait", "truncate", "store", "mark"}}

StopInv ==
  /\ (\A p \in Proc : pc[p] # "store") => counter + Cardinality(InFlight) <= emitted
  /\ \A p \in Proc : pc[p] = "store" => seen[p] + Cardinality(InFlight) <= emitted
  /\ marker \/ (\E p \in Proc : pc[p] \in {"mark", "denied", "remark"}) => emitted > Limit

LEMMA InFlightFinite == IsFiniteSet(InFlight) /\ Cardinality(InFlight) \in Nat
  BY FS_Subset, FS_CardinalityType, BudgetAssumption DEF InFlight

\* Claimants between two places of which both or none is in flight.
LEMMA SameFlight ==
  ASSUME NEW p \in Proc, NEW to, TypeOK, pc' = [pc EXCEPT ![p] = to],
         p \in InFlight <=> to \in {"wait", "truncate", "store", "mark"}
  PROVE  InFlight' = InFlight
  BY DEF InFlight, TypeOK

\* A claimant that counts its call or dies leaves the set.
LEMMA LeavesFlight ==
  ASSUME NEW p \in Proc, NEW to, TypeOK, pc' = [pc EXCEPT ![p] = to],
         p \in InFlight, to \notin {"wait", "truncate", "store", "mark"}
  PROVE  Cardinality(InFlight') = Cardinality(InFlight) - 1
<1>1. InFlight' = InFlight \ {p}
  BY DEF InFlight, TypeOK
<1> QED  BY <1>1, FS_RemoveElement, InFlightFinite

\* A claimant that picks a call up joins it.
LEMMA JoinsFlight ==
  ASSUME NEW p \in Proc, TypeOK, pc' = [pc EXCEPT ![p] = "wait"], p \notin InFlight
  PROVE  Cardinality(InFlight') = Cardinality(InFlight) + 1
<1>1. InFlight' = InFlight \cup {p}
  BY DEF InFlight, TypeOK
<1> QED  BY <1>1, FS_AddElement, InFlightFinite

LEMMA StopStep == IInv /\ StopInv /\ [Next]_vars => StopInv'
<1> SUFFICES ASSUME IInv, StopInv, [Next]_vars PROVE StopInv'
  OBVIOUS
<1> USE BudgetAssumption, InFlightFinite
        DEF IInv, TypeOK, LockInv, Holding, StopInv, claimVars, runVars
<1>1. ASSUME NEW p \in Proc, Call(p) PROVE StopInv'
  <2>1. Cardinality(InFlight') = Cardinality(InFlight) + 1
    BY <1>1, JoinsFlight DEF Call, InFlight
  <2> QED  BY <1>1, <2>1 DEF Call, Emit
<1>2. ASSUME NEW p \in Proc, Acquire(p) PROVE StopInv'
  <2>1. InFlight' = InFlight
    BY <1>2 DEF Acquire, InFlight
  <2>2. \A q \in Proc : pc[q] \notin Holding
    BY <1>2 DEF Acquire, LockFree
  <2>3. CASE Exhausted(counter)
    <3>1. p \in InFlight
      BY <1>2 DEF Acquire, InFlight
    <3>2. Cardinality(InFlight) > 0
      BY <3>1, FS_EmptySet
    <3>3. emitted > Limit
      BY <2>2, <2>3, <3>2 DEF Exhausted
    <3> QED  BY <1>2, <2>1, <2>2, <2>3, <3>3 DEF Acquire
  <2>4. CASE ~Exhausted(counter)
    BY <1>2, <2>1, <2>2, <2>4 DEF Acquire
  <2> QED  BY <2>3, <2>4
<1>3. ASSUME NEW p \in Proc, Truncate(p) PROVE StopInv'
  <2>1. InFlight' = InFlight
    BY <1>3, SameFlight DEF Truncate, InFlight
  <2>2. \A q \in Proc \ {p} : pc[q] \notin Holding
    BY <1>3 DEF Truncate
  <2>3. seen[p] = counter
    BY <1>3 DEF Truncate, CountInv
  <2> QED  BY <1>3, <2>1, <2>2, <2>3 DEF Truncate
<1>4. ASSUME NEW p \in Proc, Store(p) PROVE StopInv'
  <2>1. Cardinality(InFlight') = Cardinality(InFlight) - 1
    BY <1>4, LeavesFlight DEF Store, InFlight
  <2>2. \A q \in Proc \ {p} : pc[q] \notin Holding
    BY <1>4 DEF Store
  <2> QED  BY <1>4, <2>1, <2>2 DEF Store
<1>5. ASSUME NEW p \in Proc, Grant(p) \/ Deny(p) PROVE StopInv'
  <2>1. InFlight' = InFlight
    BY <1>5 DEF Grant, Deny, InFlight
  <2> QED  BY <1>5, <2>1 DEF Grant, Deny
<1>6. ASSUME NEW p \in Proc, Mark(p) PROVE StopInv'
  <2>1. Cardinality(InFlight') = Cardinality(InFlight) - 1
    BY <1>6, LeavesFlight DEF Mark, InFlight
  <2> QED  BY <1>6, <2>1 DEF Mark
<1>7. CASE Remark
  <2>1. InFlight' = InFlight
    BY <1>7 DEF Remark, InFlight
  <2> QED  BY <1>7, <2>1 DEF Remark
<1>8. ASSUME NEW p \in Proc, NEW next \in {"idle", "dead"}, Die(p, next) PROVE StopInv'
  <2>1. Cardinality(InFlight') <= Cardinality(InFlight) /\ Cardinality(InFlight') \in Nat
    <3>1. CASE p \in InFlight
      <4>1. Cardinality(InFlight') = Cardinality(InFlight) - 1
        BY <1>8, <3>1, LeavesFlight DEF Die
      <4>2. Cardinality(InFlight) > 0
        BY <3>1, FS_EmptySet
      <4> QED  BY <4>1, <4>2
    <3>2. CASE p \notin InFlight
      <4>1. InFlight' = InFlight
        BY <1>8, <3>2 DEF Die, InFlight
      <4> QED  BY <4>1
    <3> QED  BY <3>1, <3>2
  <2>2. CASE pc[p] = "store"
    <3>1. \A q \in Proc \ {p} : pc[q] \notin Holding
      BY <2>2
    <3>2. counter = 0
      BY <2>2 DEF CountInv
    <3> QED  BY <1>8, <2>1, <2>2, <3>1, <3>2 DEF Die
  <2>3. CASE pc[p] # "store"
    BY <1>8, <2>1, <2>3 DEF Die
  <2> QED  BY <2>2, <2>3
<1>9. ASSUME NEW p \in Proc, HookTimeout(p) \/ Killed(p) PROVE StopInv'
  BY <1>8, <1>9 DEF HookTimeout, Killed
<1>10. CASE UnclaimedCall
  <2>1. InFlight' = InFlight
    BY <1>10 DEF UnclaimedCall, InFlight
  <2> QED  BY <1>10, <2>1 DEF UnclaimedCall, Emit
<1>11. CASE MonitorCount
  <2>1. InFlight' = InFlight
    BY <1>11 DEF MonitorCount, InFlight
  <2> QED  BY <1>11, <2>1 DEF MonitorCount, Overrun
<1>12. CASE UNCHANGED <<claimVars, marker, emitted>>
  <2>1. InFlight' = InFlight
    BY <1>12 DEF InFlight
  <2> QED  BY <1>12, <2>1
<1>13. MonitorPoll \/ MonitorStop \/ MonitorOtherStop \/ MonitorDies \/ MonitorReturn
         \/ CliExit \/ Finished \/ UNCHANGED vars
         => UNCHANGED <<claimVars, marker, emitted>>
  BY DEF MonitorPoll, MonitorStop, MonitorOtherStop, MonitorDies, MonitorReturn,
         CliExit, Finished, vars
<1> QED
  BY <1>1, <1>2, <1>3, <1>4, <1>5, <1>6, <1>7, <1>9, <1>10, <1>11, <1>12, <1>13
     DEF Next, Claim, MonitorStepTaken

\* For any number of claimants, whichever of them die, the stop marker exists only
\* if the run asked for more calls than its budget (claim_tool_call and
\* _monitor_environment_errors).
THEOREM StopIsJustified == Spec => []BudgetStopJustified
<1>1. Init => StopInv
  <2> SUFFICES ASSUME Init PROVE StopInv
    OBVIOUS
  <2>1. InFlight = {}
    BY DEF Init, InFlight
  <2> QED  BY <2>1, FS_EmptySet DEF Init, StopInv
<1>2. StopInv => BudgetStopJustified
  BY DEF StopInv, BudgetStopJustified
<1> QED
  BY <1>1, <1>2, StopStep, Inductive, PTL DEF Spec
-----------------------------------------------------------------------------
(***************************************************************************)
(* What BudgetStopsRun rests on.                                           *)
(***************************************************************************)
SeenInv ==
  /\ \A p \in Proc : pc[p] \in {"denied", "remark"} => marker
  /\ denied > 0 => marker
  /\ mon = "stopping" => signalled
  /\ mon = "done" => cli = "exited"

LEMMA SeenStep == TypeOK /\ SeenInv /\ [Next]_vars => SeenInv'
<1> SUFFICES ASSUME TypeOK, SeenInv, [Next]_vars PROVE SeenInv'
  OBVIOUS
<1> USE DEF TypeOK, SeenInv, claimVars, runVars
<1>1. ASSUME NEW p \in Proc, Claim(p) PROVE SeenInv'
  <2>1. CASE Mark(p)
    BY <2>1 DEF Mark
  <2>2. CASE Deny(p)
    BY <2>2 DEF Deny
  <2>3. CASE Call(p) \/ Acquire(p) \/ Truncate(p) \/ Store(p) \/ Grant(p)
    <3>1. /\ \A q \in Proc : pc'[q] \in {"denied", "remark"} => pc[q] \in {"denied", "remark"}
          /\ UNCHANGED <<denied, marker, cli, signalled, mon>>
      BY <2>3 DEF Call, Emit, Acquire, Truncate, Store, Grant
    <3> QED BY <3>1
  <2> QED BY <1>1, <2>1, <2>2, <2>3 DEF Claim
<1>2. ASSUME NEW p \in Proc, HookTimeout(p) \/ Killed(p) PROVE SeenInv'
  BY <1>2 DEF HookTimeout, Killed, Die
<1>3. CASE Remark
  BY <1>3 DEF Remark
<1>4. CASE UnclaimedCall \/ Finished \/ UNCHANGED vars
  BY <1>4 DEF UnclaimedCall, Emit, Finished, vars
<1>5. CASE MonitorStepTaken
  BY <1>5 DEF MonitorStepTaken, MonitorPoll, MonitorCount, MonitorStop, MonitorReturn
<1>6. CASE MonitorOtherStop \/ MonitorDies \/ CliExit
  BY <1>6 DEF MonitorOtherStop, MonitorDies, CliExit
<1> QED
  BY <1>1, <1>2, <1>3, <1>4, <1>5, <1>6 DEF Next

\* After a refusal, as long as the CLI runs, the marker is there and the monitor
\* thread is still looking for it or has signalled, unless it has died
\* (claim_tool_call, _monitor_environment_errors).
THEOREM RefusalIsSeen ==
  Spec => [](denied > 0 /\ cli = "running" /\ mon # "dead" =>
               marker /\ (mon \in {"head", "check", "look"} \/ signalled))
<1>1. Init => SeenInv
  BY DEF Init, SeenInv
<1>2. TypeOK /\ SeenInv => (denied > 0 /\ cli = "running" /\ mon # "dead" =>
                             marker /\ (mon \in {"head", "check", "look"} \/ signalled))
  BY DEF TypeOK, SeenInv, MonStep
<1> QED
  BY <1>1, <1>2, SeenStep, TypeCorrect, PTL DEF Spec

-----------------------------------------------------------------------------
(***************************************************************************)
(* Refinement.  The claimant that counts is the only one, so what the file *)
(* will say is settled when it took the lock.                              *)
(***************************************************************************)
Settled == {"truncate", "store", "granted"}

UsedInv ==
  /\ \A p \in Proc : pc[p] \in Settled => Used = seen[p]
  /\ (\A p \in Proc : pc[p] \notin Settled) => Used = counter

LEMMA UsedValue == IInv => UsedInv
<1> SUFFICES ASSUME IInv PROVE UsedInv
  OBVIOUS
<1>1. ASSUME NEW p \in Proc, pc[p] \in Settled PROVE Used = seen[p]
  <2>1. \A q \in Counting : q = p
    BY <1>1 DEF Counting, Settled, IInv, LockInv, Holding
  <2>2. p \in Counting
    BY <1>1 DEF Counting, Settled
  <2> QED  BY <2>1, <2>2 DEF Used
<1>2. ASSUME \A p \in Proc : pc[p] \notin Settled PROVE Used = counter
  BY <1>2 DEF Used, Counting, Settled
<1> QED
  BY <1>1, <1>2 DEF UsedInv

LEMMA UsedValueNext == IInv' => UsedInv'
BY UsedValue, PTL

LEMMA StepRefines ==
  ASSUME IInv, IInv', SpentInv, SeenInv, [Next]_vars
  PROVE  Atomic!Next \/ UNCHANGED <<Used, granted, denied, tears, marker>>
<1> DEFINE Idle == UNCHANGED <<Used, granted, denied, tears, marker>>
<1> USE BudgetAssumption DEF TypeOK, claimVars, runVars
<1>0. /\ TypeOK /\ LockInv /\ CountInv
      /\ UsedInv /\ UsedInv'
  BY UsedValue, UsedValueNext DEF IInv
<1>1. ASSUME NEW p \in Proc, Call(p) \/ Acquire(p) \/ Truncate(p) \/ Store(p) PROVE Idle
  <2>1. CASE Call(p)
    <3>1. UNCHANGED <<seen, counter>> /\ \A q \in Proc : pc[q] \in Settled <=> pc'[q] \in Settled
      BY <1>0, <2>1 DEF Call, Settled
    <3> QED  BY <1>0, <2>1, <3>1 DEF Call, UsedInv
  <2>2. CASE Acquire(p)
    <3>1. \A q \in Proc : pc[q] \notin Settled
      BY <1>0, <2>2 DEF Acquire, LockFree, LockInv, Holding, Settled
    <3>2. Used = counter /\ seen'[p] = counter /\ counter' = counter
      BY <1>0, <2>2, <3>1 DEF Acquire, UsedInv
    <3>3. \A q \in Proc \ {p} : pc'[q] \notin Settled
      BY <1>0, <2>2, <3>1 DEF Acquire
    <3>4. Used' = counter
      <4>1. CASE pc'[p] \in Settled
        BY <1>0, <3>2, <4>1 DEF UsedInv
      <4>2. CASE pc'[p] \notin Settled
        BY <1>0, <3>2, <3>3, <4>2 DEF UsedInv
      <4> QED  BY <4>1, <4>2
    <3> QED  BY <2>2, <3>2, <3>4 DEF Acquire
  <2>3. CASE Truncate(p) \/ Store(p)
    <3>1. pc[p] \in Settled /\ pc'[p] \in Settled /\ seen' = seen
      BY <1>0, <2>3 DEF Truncate, Store, Settled
    <3> QED  BY <1>0, <2>3, <3>1 DEF Truncate, Store, UsedInv
  <2> QED  BY <1>1, <2>1, <2>2, <2>3
<1>2. ASSUME NEW p \in Proc, Grant(p) PROVE Atomic!Allow
  <2>1. \A q \in Proc : pc'[q] \notin Settled
    BY <1>0, <1>2 DEF Grant, LockInv, Holding, Settled
  <2>2. Used = seen[p] /\ Used' = counter
    BY <1>0, <1>2, <2>1 DEF Grant, UsedInv, Settled
  <2> QED  BY <1>0, <1>2, <2>2 DEF Grant, CountInv, Atomic!Allow, Atomic!Count
<1>3. ASSUME NEW p \in Proc, Mark(p) \/ Deny(p) PROVE Atomic!Next \/ Idle
  <2>1. UNCHANGED <<seen, counter>> /\ \A q \in Proc : pc[q] \in Settled <=> pc'[q] \in Settled
    BY <1>0, <1>3 DEF Mark, Deny, Settled
  <2>2. Used' = Used
    BY <1>0, <2>1 DEF UsedInv
  <2>3. CASE Mark(p)
    BY <2>2, <2>3 DEF Mark, Atomic!Stop, Atomic!Next
  <2>4. CASE Deny(p)
    <3>1. counter = Limit /\ \A q \in Proc : pc[q] \notin Settled
      BY <2>4 DEF Deny, SpentInv, Settled
    <3>2. Used = Limit
      BY <1>0, <3>1 DEF UsedInv
    <3>3. marker
      BY <2>4 DEF Deny, SeenInv
    <3> QED  BY <2>2, <2>4, <3>2, <3>3 DEF Deny, Atomic!Refuse, Atomic!Next
  <2> QED  BY <1>3, <2>3, <2>4
<1>4. ASSUME NEW p \in Proc, NEW next \in {"idle", "dead"}, Die(p, next) PROVE Atomic!Next \/ Idle
  <2>1. UNCHANGED <<seen, counter>> /\ pc'[p] \notin Settled
    BY <1>0, <1>4 DEF Die, Settled
  <2>2. CASE pc[p] \notin Settled
    <3>1. \A q \in Proc : pc[q] \in Settled <=> pc'[q] \in Settled
      BY <1>0, <1>4, <2>2 DEF Die, Settled
    <3>2. Used' = Used
      BY <1>0, <2>1, <3>1 DEF UsedInv
    <3> QED  BY <1>4, <2>2, <3>2 DEF Die, Settled
  <2>3. CASE pc[p] \in Settled
    <3>1. \A q \in Proc : pc'[q] \notin Settled
      BY <1>0, <1>4, <2>3 DEF Die, LockInv, Holding, Settled
    <3>2. Used = seen[p] /\ Used' = counter
      BY <1>0, <2>1, <2>3, <3>1 DEF UsedInv
    <3>3. CASE pc[p] = "truncate"
      BY <1>0, <1>4, <3>2, <3>3 DEF Die, CountInv
    <3>4. CASE pc[p] = "store"
      BY <1>0, <1>4, <3>2, <3>4 DEF Die, CountInv, Atomic!Forget, Atomic!Next
    <3>5. CASE pc[p] = "granted"
      BY <1>0, <1>4, <3>2, <3>5 DEF Die, CountInv, Atomic!Waste, Atomic!Count, Atomic!Next
    <3> QED  BY <2>3, <3>3, <3>4, <3>5 DEF Settled
  <2> QED  BY <2>2, <2>3
<1>5. CASE Remark
  <2>1. UNCHANGED <<seen, counter>> /\ \A q \in Proc : pc[q] \in Settled <=> pc'[q] \in Settled
    BY <1>0, <1>5 DEF Remark, Settled
  <2>2. Used' = Used
    BY <1>0, <2>1 DEF UsedInv
  <2> QED  BY <1>5, <2>2 DEF Remark, Atomic!Stop, Atomic!Next
<1>6. CASE UNCHANGED claimVars /\ (marker' = marker \/ marker' = TRUE)
  <2>1. Used' = Used
    BY <1>6 DEF Used, Counting
  <2> QED  BY <1>6, <2>1 DEF Atomic!Stop, Atomic!Next
<1>7. UnclaimedCall \/ MonitorStepTaken \/ MonitorOtherStop \/ MonitorDies \/ CliExit \/ Finished
         \/ UNCHANGED vars => UNCHANGED claimVars
  BY DEF UnclaimedCall, MonitorStepTaken, MonitorPoll, MonitorCount, MonitorStop,
         MonitorOtherStop, MonitorDies, MonitorReturn, CliExit, Finished, vars
<1>8. UnclaimedCall \/ MonitorStepTaken \/ MonitorOtherStop \/ MonitorDies \/ CliExit \/ Finished
         \/ UNCHANGED vars => marker' = marker \/ marker' = TRUE
  BY <1>0, Zenon DEF UnclaimedCall, MonitorStepTaken, MonitorPoll, MonitorCount, MonitorStop,
         MonitorOtherStop, MonitorDies, MonitorReturn, CliExit, Finished, vars
<1> QED
  BY <1>1, <1>2, <1>3, <1>4, <1>5, <1>6, <1>7, <1>8 DEF Next, Claim, HookTimeout, Killed, Atomic!Next

\* Claims are linearizable: for any number of claimants, whichever of them are
\* killed, the flock protocol of claim_tool_call implements the budget in which
\* every claim is allowed or refused in one step.
THEOREM ImplementsAtomicBudget == Spec => AtomicSpec
<1>1. Init => SpentInv /\ SeenInv
  BY DEF Init, SpentInv, SeenInv
<1>2. Init => Atomic!Init
  BY DEF Init, Atomic!Init, Used, Counting
<1>3. IInv /\ IInv' /\ SpentInv /\ SeenInv /\ [Next]_vars
        => [Atomic!Next]_<<Used, granted, denied, tears, marker>>
  BY StepRefines
<1> QED
  BY <1>1, <1>2, <1>3, SpentStep, SeenStep, Inductive, TypeCorrect, PTL DEF Spec, AtomicSpec, Atomic!Spec
=============================================================================
