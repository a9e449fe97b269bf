SPECIFICATION Spec
CONSTANTS
  w1 = w1
  w2 = w2
  r1 = r1
  None = None
  Call <- MCCall
  ReadOnly <- MCReadOnly
  VerifyAfterEach = TRUE
  Faults = {"kill_in_commit"}
INVARIANT
  FailedCallsLeaveNoRows
