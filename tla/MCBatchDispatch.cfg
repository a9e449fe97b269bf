SPECIFICATION FairSpec
\* A leaked permit can stop the batch for good.
CHECK_DEADLOCK FALSE
CONSTANTS
  NumCases = 3
  Docker <- MCDocker
  MinWidth = 1
  MaxWidth = 2
  Sessions = 2
  VerifierSlots = 1
  BatchLimit = 2
  TaskLimit = 2
  MaxErrors = 2
  Faults = {"worker", "startup"}
INVARIANTS
  NothingLost
  StopJustified
PROPERTIES
  TripEndsBatch
  StartupNotBlocked
  QuietBatchEnds
