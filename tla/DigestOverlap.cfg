SPECIFICATION Spec
CONSTANTS
  i1 = i1
  i2 = i2
  p1 = p1
  p2 = p2
  d1 = d1
  d2 = d2
  Items = {i1, i2}
  Early = {i1}
  Pushing = {i2}
  Pickers = {p1, p2}
  Clocks = {p1}
  Senders = {d1, d2}
  Bogus = Bogus
  Answers <- AnyAnswer
  MaxPick = 2
  MaxSent = 3
  MaxRepicks = 1
  MaxCrashes = 1
CHECK_DEADLOCK FALSE
ACTION_CONSTRAINT OverlapSlice
SYMMETRY Interchangeable
INVARIANT MessagesEarned
INVARIANT DeliveredWasSent
