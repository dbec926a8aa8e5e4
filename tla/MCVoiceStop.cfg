CONSTANTS
  MaxTurns = 1
  MaxSentences = 1
  FaultSets <- Stop
SPECIFICATION FairSpec
PROPERTY OthersEnd
CHECK_DEADLOCK FALSE
