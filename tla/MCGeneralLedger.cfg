SPECIFICATION FairSpec
CONSTANTS
  e1 = e1
  e2 = e2
  p1 = p1
  p2 = p2
  job = job
  Entries = {e1, e2}
  Dates = {1, 2}
  Refs = {1}
  Desks = {job, p1, p2}
  Job = job
  Nothing = nothing
  MaxDeaths = 1
INVARIANTS
  BalanceIsHistory
  PostedIsBooked
  ReversalFollowsOriginal
PROPERTY
  ReviewEnds
CHECK_DEADLOCK FALSE
