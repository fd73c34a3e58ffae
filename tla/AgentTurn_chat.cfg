CONSTANTS
  u1 = u1
  u2 = u2
  i1 = i1
  r1 = r1
  r2 = r2
  t1 = t1
  t2 = t2
  UserMsgs <- TwoUsers
  InterMsgs = {}
  Results <- TwoResults
  Turns <- TwoTurns
  Events <- ChatEvents
  FirstMode = "chat"
SPECIFICATION Spec
PROPERTIES
  MailboxSpec
  QueuedIsAsked
CHECK_DEADLOCK FALSE
