SPECIFICATION Spec
CONSTANTS
  t1 = t1
  Drafts = {d1, d2, d3}
  Templates = {t1}
  AutoReverse = {t1}
  Desks = {k1, k2}
  Nobody = nobody
  Typed <- InPeriodTwo
  Generations <- ForPeriodTwo
  TemplateAmount = 1
  MaxPeriod = 3
  MaxJournals = 2
SYMMETRY Symmetry
INVARIANTS
  LinksAreTrue
  ReversalsCancelOnce
  GenerationsTellTrue
CHECK_DEADLOCK FALSE
