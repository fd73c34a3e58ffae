CONSTANTS
  u1 = u1
  u2 = u2
  i1 = i1
  r1 = r1
  r2 = r2
  t1 = t1
  t2 = t2
  UserMsgs <- OneUser
  InterMsgs <- OneInter
  Results <- OneResult
  Turns <- TwoTurns
  Events <- RareEvents
  FirstMode = "agent"
SPECIFICATION SpecSilent
INVARIANTS
  TypeOK
PROPERTIES
  OnlyLateArrivalsAreDropped
CHECK_DEADLOCK FALSE
