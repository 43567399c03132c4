\* Two recordings in one page; calls fail, and may have been served all the same.
SPECIFICATION Spec
CONSTANTS
  MaxRecordings = 2
  MaxChunks = 2
  MaxBytes = 2
  Attempts = 2
  MaxDrops = 1
  AnswersLost = TRUE
INVARIANTS NothingMissing NeverLost SizeBounded
CHECK_DEADLOCK FALSE
