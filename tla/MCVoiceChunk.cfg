CONSTANTS
  MaxTurns = 1
  MaxSentences = 1
  FaultSets <- Undisturbed
SPECIFICATION FairSpec
PROPERTY VoiceEnds
CHECK_DEADLOCK FALSE
