CONSTANTS
  u1 = u1
  u2 = u2
  i1 = i1
  r1 = r1
  r2 = r2
  t1 = t1
  t2 = t2
  UserMsgs <- OneUser
  InterMsgs <- OneInter
  Results <- OneResult
  Turns <- TwoTurns
  Events <- AgentEvents
  FirstMode = "agent"
SPECIFICATION Spec
INVARIANTS
  QueuedIsUnread
PROPERTIES
  StopIsHonored
  QueuedIsDrained
CHECK_DEADLOCK FALSE
