SPECIFICATION Spec
CONSTANTS
  Payloads <- MCPayloads
  Surveys <- MCSurveys
  Profiles <- MCProfiles
  Strict = TRUE
  MinScore = 50
INVARIANT CountryGatekeeper
CHECK_DEADLOCK FALSE
