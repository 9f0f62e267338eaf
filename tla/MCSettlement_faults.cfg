SPECIFICATION Spec
CONSTANTS
  c1 = c1
  c2 = c2
  i1 = i1
  s1 = s1
  s2 = s2
  t1 = t1
  t2 = t2
  Contribution <- MCContribution
  Cards = {c1}
  Intents = {}
  Settlers = {s1, s2}
  Tabs = {t1}
  Threshold = 2
  LossyPsp = TRUE
  HoldsAge = TRUE
  MaxCrashes = 2
  MaxOverrides = 1
SYMMETRY SettlerSymmetry
INVARIANTS ChargedOnlyOnSuccess RowsMatchProvider RealizedNeverShort
PROPERTIES VerdictFinal
CHECK_DEADLOCK FALSE
