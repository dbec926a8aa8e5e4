CONSTANTS
  MaxTurns = 1
  MaxSentences = 1
  FaultSets <- Late
SPECIFICATION FairSpec
PROPERTY OthersEnd
CHECK_DEADLOCK FALSE
