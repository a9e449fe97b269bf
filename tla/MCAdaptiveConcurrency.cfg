SPECIFICATION FairSpec
CONSTANTS
  Kind <- MCKind
  MaxCount = 2
  Minimum = 1
  Maximum = 9
  Window = 3
  Threshold = 2
  StableRun = 3
  BigStep = 4
  SmallStep = 1
PROPERTIES
  Recovers
  BacksOff
