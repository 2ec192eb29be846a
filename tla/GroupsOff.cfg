SPECIFICATION Spec
CONSTANTS
  a = a
  b = b
  c1 = c1
  c2 = c2
  NoJid = NoJid
  Jids = {a, b}
  MaxSessions = 2
  Requests = {c1}
  FreeCap = 1
  ProCap = 2
  Modes = {}
  MaxSchedules = 1
  MaxClock = 2
CHECK_DEADLOCK FALSE
PROPERTY OffStaysOff
