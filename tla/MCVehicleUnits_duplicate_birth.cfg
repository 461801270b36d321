SPECIFICATION Spec
CONSTANTS
  born = born
  e1 = e1
  e2 = e2
  again = again
  Events = {born, e1, e2}
  EventKeys = {born, e1, e2, again}
  EventOf <- AgainIsFirst
  Units = {"unit"}
  UnitOf <- OneUnit
  Cost <- SmallCosts
  Kinds <- BornThenAny
  Requests = {r1, r2}
  NoEvent = NoEvent
INVARIANTS
  BookIsSumOfComponents
SYMMETRY Symmetry
CHECK_DEADLOCK FALSE
