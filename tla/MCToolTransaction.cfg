SPECIFICATION Spec
CONSTANTS
  w1 = w1
  w2 = w2
  r1 = r1
  None = None
  Call <- MCCall
  ReadOnly <- MCReadOnly
  VerifyAfterEach = TRUE
  Faults = {}
INVARIANTS
  FailedCallsLeaveNothing
  ObserversSeeCommitted
PROPERTIES
  AtomicSpec
