CONSTANTS
  u1 = u1
  u2 = u2
  i1 = i1
  r1 = r1
  r2 = r2
  t1 = t1
  t2 = t2
  UserMsgs <- TwoUsers
  InterMsgs = {}
  Results <- OneResult
  Turns <- OneTurn
  Events = {}
  FirstMode = "agent"
SPECIFICATION Spec
PROPERTIES
  NothingIsDropped
CHECK_DEADLOCK FALSE
