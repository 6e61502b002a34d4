\* Three calls at a time; a token takes two milliseconds.
SPECIFICATION FairSpec
CONSTANTS
  Callers = {c1, c2, c3}
  Interval = 2
  PerInterval = 1
  MaxBurst = 2
  MaxConsumeRetries = 2
  MaxRetries = 1
  FailureThreshold = 2
  ResetTimeout = 1
  HalfOpenMaxCalls = 2
INVARIANTS TypeOK HalfOpenIsUndecided
PROPERTIES RateIsBounded RecoversWithTheNode
