SPECIFICATION FairSpec
CONSTANTS
  o1 = o1
  o2 = o2
  t1 = t1
  t2 = t2
  a1 = a1
  a2 = a2
  Tick = Tick
  NoAppeal = NoAppeal
  Nobody = Nobody
  Operators = {o1, o2}
  Tabs = {t1, t2}
  Appeals = {a1, a2}
  Courses = {"plain", "overlapping"}
  MaxCalls = 8
  MaxRejections = 2
INVARIANTS LiveWasApproved OneLiveAppeal JudgedByAnother
PROPERTIES LaunchStands ScheduledLaunches
CHECK_DEADLOCK FALSE
