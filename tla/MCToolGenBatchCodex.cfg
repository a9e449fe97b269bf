SPECIFICATION Spec
CONSTANTS
  e1 = e1
  e2 = e2
  Environment <- MCEnvironment
  v1 = v1
  v2 = v2
  Version <- MCVersion
  Software <- MCSoftware
  None = None
  Attempts <- MCAttempts
  Workers = 2
  MaxTries = 2
  MaxRuns <- MCMaxRuns
  Faults = {}
CHECK_DEADLOCK FALSE
INVARIANT
  NoCodexLeft
