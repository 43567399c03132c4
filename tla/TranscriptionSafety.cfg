\* Two worker processes; a worker starts up only while no job is running.
SPECIFICATION Spec
CONSTANTS
  Sessions = {s1, s2}
  Workers = {w1, w2}
  Callers = {c1}
  SttConcurrency = 1
  RetriesErrors = TRUE
  StartsOverlap = FALSE
  MaxPuts = 2
  MaxStops = 1
  MaxCrashes = 1
  MaxApiCrashes = 1
SYMMETRY Symmetry
INVARIANTS ExpiryMatchesStatus AtMostOneAutoReport OneRunPerSession
           NoFilesWithoutRow NoJobLost NoReportLost IInv
PROPERTIES TranscribedIsFinal ImplementsLifecycle
CHECK_DEADLOCK FALSE
