SPECIFICATION FairSpec
CONSTANTS
  NumRequests <- MCNumRequests
  MaxRetries <- MCMaxRetries
INVARIANTS
  BarredNotForwarded
  ForwardedIsRecorded
PROPERTIES
  StayersAnswered
  NothingSentAfterClose
  AbandonedEnds
