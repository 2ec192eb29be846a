SPECIFICATION Spec
CONSTANTS
  u1 = u1
  s1 = s1
  j1 = j1
  m1 = m1
  m2 = m2
  m3 = m3
  NoMsg = NoMsg
  Users = {u1}
  Sessions = {s1}
  Jids = {j1}
  Msgs = {m1, m2}
  Handlers = {h1}
  Drains = {d1}
  UserOf <- OneUser
  SessionOf <- OneSession
  JidOf <- OneChat
  Poison = {}
  MessageCap = 1
  MaxEvents = 3
  MaxCrashes = 1
INVARIANT RetentionTakesPayloads
CHECK_DEADLOCK FALSE
