CONSTANTS
  MaxTurns = 2
  MaxSentences = 2
  FaultSets <- Mixes
SPECIFICATION FairSpec
INVARIANTS
  MicrophoneFree
  OwnTurn
PROPERTY VoiceRests
CHECK_DEADLOCK FALSE
