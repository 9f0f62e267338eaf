SPECIFICATION Spec
CONSTANTS
  m1 = m1
  m2 = m2
  c1 = c1
  c2 = c2
  o1 = o1
  o2 = o2
  t1 = t1
  t2 = t2
  w1 = w1
  w2 = w2
  ReleasePct <- Halves
  Milestones = {m1, m2}
  Captured = 4
  Late <- Nobody
  Refundable <- Backers
  Operators = {o1}
  Tabs = {t1, t2}
  Workers = {w1}
  Batch = 2
  Lossy = TRUE
  MaxPayouts = 2
  MaxTransfers = 1
  MaxCrashes = 0
INVARIANTS SentIsTransferred DeliveredIsReleased
SYMMETRY FaultSymmetry
CHECK_DEADLOCK FALSE
