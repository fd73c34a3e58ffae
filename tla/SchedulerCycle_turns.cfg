CONSTANTS
  a1 = a1
  a2 = a2
  a3 = a3
  t1 = t1
  t2 = t2
  t3 = t3
  NoAgent = NoAgent
  Agents <- ThreeAgents
  Turns <- ThreeTurns
  MaxConcurrent = 2

SPECIFICATION Spec

INVARIANTS
  OneOwnerPerAgent
  NoStaleLock
  OwnersWithinCap

PROPERTIES
  PoolSpec
  NoneIsPassedOver
