SPECIFICATION Spec
CONSTANTS
  g1 = g1
  g2 = g2
  m1 = m1
  m2 = m2
  m3 = m3
  p1 = p1
  p2 = p2
  w1 = w1
  w2 = w2
  Groups = {g1}
  Msgs = {m1, m2, m3}
  Passes = {p1}
  Workers = {w1, w2}
  GroupOf <- OneGroup
  FromMe = {}
  Interval = 1
  LocalTime = 0
  DayLength = 4
  CreditCap = 1
  MaxTime = 3
  MaxJobs = 3
  MaxCrashes = 1
CHECK_DEADLOCK FALSE
SYMMETRY Interchangeable
CONSTRAINT OverlapSlice
INVARIANT SummarisedOnce
INVARIANT CreditOverrunBounded
