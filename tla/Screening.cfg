SPECIFICATION Spec
CONSTANTS
  Payloads <- MCPayloads
  Surveys <- MCSurveys
  Profiles <- MCProfiles
  Strict = TRUE
  MinScore = 50
INVARIANTS
  TypeOK
  FirstNameWins
  ReportedScore
  Monotone
  AnnouncedIsEligible
CHECK_DEADLOCK FALSE
