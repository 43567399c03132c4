\* One worker process that is stopped and crashes on the way.
SPECIFICATION FairSpec
CONSTANTS
  Sessions = {s1, s2}
  Workers = {w1}
  Callers = {c1}
  SttConcurrency = 1
  RetriesErrors = FALSE
  StartsOverlap = FALSE
  MaxPuts = 1
  MaxStops = 1
  MaxCrashes = 1
  MaxApiCrashes = 0
PROPERTIES QueuedIsServed TranscribingEnds ResultsExpire
CHECK_DEADLOCK FALSE
