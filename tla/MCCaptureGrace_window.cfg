SPECIFICATION Spec
CONSTANTS
  c1 = c1
  i1 = i1
  w1 = w1
  w2 = w2
  o1 = o1
  t1 = t1
  d1 = d1
  NoPledge = NoPledge
  RetryMarks = 1
  Cards = {c1}
  Intents = {i1}
  Limit = 2
  Ticks = {w1, w2}
  Operators = {o1}
  Tabs = {t1}
  Deliveries = {d1}
  MaxCalls = 1
  MaxFaults = 1
INVARIANTS CapturedWasCharged RewardsReserved ChargeIsRecorded
PROPERTIES CapturedStays
CHECK_DEADLOCK FALSE
