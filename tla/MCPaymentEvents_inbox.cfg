SPECIFICATION Spec
CONSTANTS
  p1 = p1
  p2 = p2
  o1 = o1
  d1 = d1
  NoPledge = NoPledge
  Pledges = {p1, p2}
  Backer <- OneBacker
  DisputeKinds = {"payment_disputed"}
  Operators = {o1}
  Requests = {d1}
  Orderly = TRUE
  QuietRecount = TRUE
  MaxCalls = 2
  MaxFaults = 1
INVARIANTS RefundedWasPaidBack BooksExact RefundLeavesTrace
CHECK_DEADLOCK FALSE
