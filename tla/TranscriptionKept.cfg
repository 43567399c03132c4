\* Is everything that was processed removed in the end?
SPECIFICATION FairSpec
CONSTANTS
  Sessions = {s1}
  Workers = {w1}
  Callers = {c1}
  SttConcurrency = 1
  RetriesErrors = FALSE
  StartsOverlap = FALSE
  MaxPuts = 1
  MaxStops = 0
  MaxCrashes = 0
  MaxApiCrashes = 0
PROPERTY ProcessedIsRemoved
CHECK_DEADLOCK FALSE
