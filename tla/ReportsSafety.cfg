\* Two reports and two workers; a stop, a crash of a worker and of the API.
SPECIFICATION Spec
CONSTANTS
  Reports = {r1, r2}
  Workers = {w1, w2}
  LlmConcurrency = 1
  StartsOverlap = FALSE
  MaxStops = 1
  MaxCrashes = 1
  MaxApiCrashes = 1
INVARIANTS OneRunPerReport NoReportStuck IInv
PROPERTIES EditIsKept ImplementsReportLifecycle
CHECK_DEADLOCK FALSE
