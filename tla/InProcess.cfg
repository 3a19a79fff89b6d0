SPECIFICATION ProcessSpec
CONSTANTS
  Calls = {c1, c2}
  FailureThreshold = 2
  Timeout = 2
  HalfOpenMax = 2
  SuccessThreshold = 2
  MaxRetries = 2
  NimbleEnabled = TRUE
  PageLimit = 2
  MaxBlobs = 2
  Callers = {c1, c2}
  Burst = 2
  Wants = {2, 3}
  TimeLimits = {1}
  MaxTimeout = 1
  MaxBack = 1
  Threads = {c1, c2, c3}
  NoCycle = none
  Fetchers = {f1, f2, f3}
  Threshold = 2
  ResetTimeout = 1
  Workers = {c1, c2, c3}
  LockTTL = 2
  Nobody = nobody
  Hooks = {h1, h2, h3}
  Tasks = {c1, c2}
INVARIANTS
  ProcessInv
  OpensAfterFetches
  EmptyIsExplained
  OneActiveCycle
  LockExclusive
PROPERTIES
  OpenWaits
  ClosesAfterProbes
  OnlyOverrunsSteal
  Recovers
  FetchEnds
  RateKept
  TimedCallsEnd
  NoLockUp
  LockComesBack
  PausesAfterFailure
  CompleteIsAll
