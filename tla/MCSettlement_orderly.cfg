SPECIFICATION FairSpec
CONSTANTS
  c1 = c1
  c2 = c2
  i1 = i1
  s1 = s1
  s2 = s2
  t1 = t1
  t2 = t2
  Contribution <- MCContribution
  Cards = {c1}
  Intents = {i1}
  Settlers = {s1, s2}
  Tabs = {t1}
  Threshold = 2
  LossyPsp = FALSE
  HoldsAge = FALSE
  MaxCrashes = 0
  MaxOverrides = 0
PROPERTIES SuccessIsBacked KeepsPromise DueIsJudged SuccessReachesFunded
CHECK_DEADLOCK FALSE
