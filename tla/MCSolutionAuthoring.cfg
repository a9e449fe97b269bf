SPECIFICATION Spec
CHECK_DEADLOCK FALSE
CONSTANTS
  c1 = c1
  c2 = c2
  t1 = t1
  t2 = t2
  CallLists <- MCCallLists
  Texts <- MCTexts
  MaxAttempts = 2
  MaxCalls = 5
  MaxFaults = 1
  MaxGiveUps = 1
SYMMETRY MCSymmetry
INVARIANTS ReportsAreTrue DueIsAllowed AllowedIsValidated FinalIsValidated
