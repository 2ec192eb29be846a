SPECIFICATION Spec
CONSTANTS
  u1 = u1
  u2 = u2
  s1 = s1
  s2 = s2
  s3 = s3
  c1 = c1
  c2 = c2
  Users = {u1, u2}
  Sessions = {s1, s2, s3}
  Requests = {c1}
  UserOf <- TwoAccounts
  MaxOpen = 2
  MaxCrashes = 1
CHECK_DEADLOCK FALSE
INVARIANT SingleOpenGap
INVARIANT HaltGapsEndWithHalt
INVARIANT ConnectionGapsMeanDown
PROPERTY LossOpensGap
