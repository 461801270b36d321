SPECIFICATION FairBreakerSpec
CONSTANTS
  Calls = {c1, c2, c3}
  FailureThreshold = 3
  ResetTime = 2
  HalfOpenMaxCalls = 2
  Window = 4
INVARIANT
  ClosedMeansFewFailures
PROPERTY
  OpenIsLeft
