SPECIFICATION FairSpec
CONSTANTS
  TaskLimit <- MCTaskLimit
  MaxErrors <- MCMaxErrors
INVARIANT JudgedRunsAreClean
INVARIANT EnvironmentTroubleClassified
PROPERTY StopEndsRun
