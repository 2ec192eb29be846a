SPECIFICATION Spec
CONSTANTS
  g1 = g1
  g2 = g2
  s1 = s1
  s2 = s2
  t1 = t1
  t2 = t2
  e1 = e1
  e2 = e2
  q1 = q1
  forged = forged
  Questions = {q1}
  Forged = forged
  Groups = {g1, g2}
  Summaries = {s1, s2}
  GroupOf <- TwoGroups
  Toggles = {t1, t2}
  Edits = {e1, e2}
  Bodies <- PageBodies
  Quoted = {s1}
  Calls <- PageCalls
  b1 = b1
  b2 = b2
  b3 = b3
  w1 = w1
  w2 = w2
  Browsers = {b1, b2}
  Limit = 3
  MaxDeaths = 1
  Writers = {w1, w2}
  MaxKeys = 3
  MaxBoots = 2
  r1 = r1
  r2 = r2
  Requests = {r1, r2}
  MinDays = 1
  MaxDays = 2
  Nothing = Nothing
  a1 = a1
  a2 = a2
  x1 = x1
  x2 = x2
  k1 = k1
  k2 = k2
  Accounts = {a1, a2}
  Errands = {x1, x2}
  Tokens = {k1}
  Nobody = Nobody
SYMMETRY Interchangeable
CHECK_DEADLOCK FALSE
INVARIANT CopiesOutlive
INVARIANT KeptUnlessCrossed
INVARIANT RowTellsTheTruth
INVARIANT CitesWereReadable
INVARIANT CodeConsumed
INVARIANT TermsBeforeSession
INVARIANT ReadableUnlessUnminted
INVARIANT PageTellsTheTruth
INVARIANT PlanFollowsTheFace
INVARIANT ListedWhileOptedIn
