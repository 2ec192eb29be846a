SPECIFICATION Spec
CONSTANTS
  g1 = g1
  g2 = g2
  m1 = m1
  m2 = m2
  m3 = m3
  p1 = p1
  p2 = p2
  w1 = w1
  w2 = w2
  Groups = {g1}
  Msgs = {m1, m2}
  Passes = {p1, p2}
  Workers = {w1}
  GroupOf <- OneGroup
  FromMe = {}
  Interval = 2
  LocalTime = 0
  DayLength = 2
  CreditCap = 9
  MaxTime = 3
  MaxJobs = 2
  MaxCrashes = 0
CHECK_DEADLOCK FALSE
INVARIANT WindowsDisjoint
