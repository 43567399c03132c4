\* Two diarizations, one of them with the auto report; any one process fails once.
SPECIFICATION PFairSpec
CONSTANTS
  Reports = {r1}
  Workers = {w1}
  LlmConcurrency = 1
  StartsOverlap = FALSE
  MaxStops = 1
  MaxCrashes = 1
  MaxApiCrashes = 1
  Diars = {d1, d2}
  Diarizers = {v1}
  DiarizeConcurrency = 1
  MaxFaults = 1
INVARIANTS LabelsKept ChainUnbroken
PROPERTIES PReportEnds DiarizationEnds
CHECK_DEADLOCK FALSE
