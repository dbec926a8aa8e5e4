CONSTANTS
  MaxTurns = 1
  MaxSentences = 1
  FaultSets <- Escape
SPECIFICATION FairSpec
PROPERTY OthersEnd
CHECK_DEADLOCK FALSE
