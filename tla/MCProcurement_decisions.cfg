SPECIFICATION FairSpec
CONSTANTS
  b1 = b1
  b2 = b2
  b3 = b3
  d1 = d1
  d2 = d2
  t1 = t1
  t2 = t2
  NoBid = NoBid
  Bids = {b1, b2, b3}
  Supplier <- TwoSuppliers
  Desks = {d1, d2}
  Tabs = {t1, t2}
  Courses = {"prompt", "overlapping"}
  Silences <- AnySilence
  MaxCalls = 5
INVARIANTS OneWinner NobodyLeftHoping
PROPERTY EveryBidderHears
CHECK_DEADLOCK FALSE
