SPECIFICATION FairSpec
CONSTANTS
  w1 = w1
  w2 = w2
  r1 = r1
  None = None
  Call <- MCWriters
  ReadOnly = {}
  VerifyAfterEach = FALSE
  Faults = {"kill_in_commit", "orphan", "exit_in_call", "late_error"}
INVARIANTS
  SuccessKept
  AnswersMatchTrace
PROPERTIES
  EveryCallAnswered
