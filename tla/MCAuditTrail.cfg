SPECIFICATION FairSpec
CONSTANTS
  MaxRows = 3
  Unacceptable = {1}
  Drains = {d1, d2}
  Requests = {q1, q2}
  NoRequest = NoRequest
  Limit = 2
  MaxMonths = 2
  MaxRetryCount = 0
  MaxFaults = 1
INVARIANTS
  RecordedOnce
  PublishedIsRecorded
  ChainIsLinked
  VerdictIsTrue
PROPERTY
  AcceptableIsDelivered
CHECK_DEADLOCK FALSE
