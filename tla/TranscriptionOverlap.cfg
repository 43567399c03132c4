\* --scale worker=2: one worker (re)starts while the other is transcribing.
SPECIFICATION Spec
CONSTANTS
  Sessions = {s1}
  Workers = {w1, w2}
  Callers = {c1}
  SttConcurrency = 1
  RetriesErrors = FALSE
  StartsOverlap = TRUE
  MaxPuts = 1
  MaxStops = 0
  MaxCrashes = 0
  MaxApiCrashes = 0
INVARIANT AtMostOneAutoReport
CHECK_DEADLOCK FALSE
