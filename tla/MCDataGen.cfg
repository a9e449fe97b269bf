SPECIFICATION FairSpec
CHECK_DEADLOCK FALSE
CONSTANTS
  j1 = j1
  j2 = j2
  Job <- MCJob
  Namings <- MCNamings
  Ascii <- MCAscii
  Concurrency = 2
  MaxAttempts = 2
  ResearchAttempts = 2
  Rounds = 3
  IdleRounds = 2
  MaxBatches = 2
INVARIANTS ReportIsTrue OneTier
PROPERTIES PackageStays BatchEnds
