SPECIFICATION Spec
CONSTANTS
  k1 = k1
  p1 = p1
  p2 = p2
  a1 = a1
  c1 = c1
  c2 = c2
  c3 = c3
  None = None
  Keys = {k1}
  People = {p1, p2}
  Agents = {a1}
  Calls = {c1, c2, c3}
  MaxCrashes = 1
  MaxSwitches = 2
SYMMETRY Symmetry
INVARIANTS RunsOncePerKey NothingUnaudited OutcomeIsTrue TwoPairsOfEyes WithdrawnNeverRuns
PROPERTIES DecidedStaysDecided
