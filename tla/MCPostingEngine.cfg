SPECIFICATION Spec
CONSTANTS
  Events = {e1}
  Versions = {v1, v2}
  EffectiveFrom <- SameDay
  Requests = {r1, r2}
  Desks = {d1}
  Original = Original
  Nothing = Nothing
  MaxCrashes = 1
INVARIANTS
  OneSubmissionPosts
  PostedNamesItsJournal
  UsedVersionsWereActivated
PROPERTY
  ImplementsContract
SYMMETRY Symmetry
