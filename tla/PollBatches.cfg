SPECIFICATION Spec
CONSTANTS
  s1 = s1
  s2 = s2
  Surveys = {s1}
  SourceOf <- MCSourceOf
  Jobs <- MCJobs
  NumSources = 2
  MaxBatch = 2
  MaxAttempts = 2
  MaxBoots = 1
  HasBuffer = TRUE
INVARIANTS
  OneDispatch
  ReportAddsUp
  ActiveIsRunning
PROPERTIES
  DeliveredWasSent
