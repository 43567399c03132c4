\* A recording is discarded while a chunk is on its way.
SPECIFICATION Spec
CONSTANTS
  MaxRecordings = 1
  MaxChunks = 2
  MaxBytes = 4
  Attempts = 2
  MaxDrops = 0
  AnswersLost = FALSE
INVARIANT NoAudioWithoutRow
CHECK_DEADLOCK FALSE
