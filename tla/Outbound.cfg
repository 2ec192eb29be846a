SPECIFICATION Spec
CONSTANTS
  u1 = u1
  u2 = u2
  p1 = p1
  p2 = p2
  none = none
  n1 = n1
  n2 = n2
  r1 = r1
  r2 = r2
  Users = {u1, u2}
  Passes = {p1, p2}
  NMentions = 2
  UserOf <- Owners
  Limit = 1
  NoMention = none
  NoSlot = none
  MaxWindows <- Windows
  MaxCrashes = 1
  Recipients = {n1}
  Requests = {r1, r2}
  MaxClaims = 2
  MaxRestarts = 1
INVARIANT QuotaHolds
INVARIANT PingsEarned
INVARIANT ConsentFirst
INVARIANT AskedOnce
PROPERTY YesIsKept
PROPERTY MentionsSettle
