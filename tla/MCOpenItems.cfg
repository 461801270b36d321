SPECIFICATION ItemsSpec
CONSTANTS
  l1 = l1
  l2 = l2
  w1 = w1
  w2 = w2
  c1 = c1
  c2 = c2
  n1 = n1
  k1 = k1
  k2 = k2
  r1 = r1
  r2 = r2
  None = none
  Lines = {l1, l2, w1, w2}
  FirstLines <- FirstLinesOf
  Controls = {c1, c2}
  Numbers = {n1}
  Keys = {k1, k2}
  WriteOffs = {r1, r2}
  MaxItems = 5
  MaxApps = 4
SYMMETRY Symmetry
INVARIANTS
  ItemsTypeOK
  Conserved
  OnAccountIsAccountedFor
  WrittenOffIsInLedger
CHECK_DEADLOCK FALSE
