SPECIFICATION FairSpec
CONSTANTS
  Cases = {c1}
  Replayers = {r1, r2}
  Reapers = {p1, p2}
  NoCase = NoCase
  MaxVersion = 8
  MaxCrashes = 1
INVARIANTS
  AttemptNumbersDistinct
  ReaperFencesOnlyTheReaped
  CountCoversLedger
  JournalEvidence
PROPERTY
  StuckReplayIsReclaimed
CHECK_DEADLOCK FALSE
