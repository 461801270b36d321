SPECIFICATION Spec
CONSTANTS
  Cases = {c1}
  Replayers = {r1, r2}
  Reapers = {p1}
  NoCase = NoCase
  MaxVersion = 8
  MaxCrashes = 1
INVARIANT
  LockOnlyInProgress
CHECK_DEADLOCK FALSE
