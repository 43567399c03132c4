\* Two recordings over a network that fails only before a call is served.
SPECIFICATION FairSpec
CONSTANTS
  MaxRecordings = 2
  MaxChunks = 2
  MaxBytes = 3
  Attempts = 2
  MaxDrops = 2
  AnswersLost = FALSE
INVARIANT ExactlyRecorded
PROPERTIES CompletedIsFrozen StopEnds
CHECK_DEADLOCK FALSE
