SPECIFICATION Spec
CONSTANTS
  p1 = p1
  p2 = p2
  p3 = p3
  r1 = r1
  r2 = r2
  NoPledge = NoPledge
  Creator = Creator
  Unlimited = Unlimited
  Pledges = {p1, p2, p3}
  Backer <- TwoBackers
  Deferred = {p3}
  WithAddOn = {p1, p3}
  Requests = {r1, r2}
  Limits = {1, Unlimited}
  Strands = FALSE
  AddOns = 2
  Courses = {"serial", "apart"}
  MaxCalls = 6
  MaxEdits = 1
  MaxFaults = 1
INVARIANTS StockHeld OversoldByOverlap DealStands
SYMMETRY Symmetry
CHECK_DEADLOCK FALSE
