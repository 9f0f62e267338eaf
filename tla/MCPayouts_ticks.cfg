SPECIFICATION FairSpec
CONSTANTS
  m1 = m1
  m2 = m2
  c1 = c1
  c2 = c2
  o1 = o1
  o2 = o2
  t1 = t1
  t2 = t2
  w1 = w1
  w2 = w2
  ReleasePct <- Halves
  Milestones = {m1, m2}
  Captured = 4
  Late <- Recovered
  Refundable <- Backers
  Operators = {o1}
  Tabs = {t1}
  Workers = {w1, w2}
  Batch = 1
  Lossy = FALSE
  MaxPayouts = 2
  MaxTransfers = 2
  MaxCrashes = 1
INVARIANTS TransferredOnce TransferredIsNotOffered ReleasedOnce OnlyRefundsOverdraw
 
CHECK_DEADLOCK FALSE
