SPECIFICATION FairSpec
CONSTANTS
  i1 = i1
  i2 = i2
  p1 = p1
  p2 = p2
  d1 = d1
  d2 = d2
  Items = {i1}
  Early = {}
  Pushing = {i1}
  Pickers = {p1, p2}
  Clocks = {p1}
  Senders = {d1}
  Bogus = Bogus
  Answers <- AnyAnswer
  MaxPick = 2
  MaxSent = 2
  MaxRepicks = 2
  MaxCrashes = 1
CHECK_DEADLOCK FALSE
PROPERTY EveryDaySpeaks
