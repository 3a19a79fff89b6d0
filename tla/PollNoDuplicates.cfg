SPECIFICATION Spec
CONSTANTS
  s1 = s1
  s2 = s2
  Surveys = {s1}
  SourceOf <- MCSourceOf
  Jobs <- MCJobs
  NumSources = 1
  MaxBatch = 1
  MaxAttempts = 3
  MaxBoots = 1
  HasBuffer = TRUE
INVARIANTS
  NoDuplicateNotification
