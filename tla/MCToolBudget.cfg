SPECIFICATION FairSpec
CONSTANTS
  server = server
  h1 = h1
  h2 = h2
  Proc <- MCProc
  Server = server
  Limit = 2
  MaxCalls = 5
INVARIANTS
  BudgetBound
  BudgetStopJustified
PROPERTIES
  NoGrantAfterDenial
  BudgetStopsRun
  AtomicSpec
