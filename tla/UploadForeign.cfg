\* A recording is discarded and the next one started at once.
SPECIFICATION Spec
CONSTANTS
  MaxRecordings = 2
  MaxChunks = 2
  MaxBytes = 4
  Attempts = 2
  MaxDrops = 0
  AnswersLost = FALSE
INVARIANT NoForeignAudio
CHECK_DEADLOCK FALSE
