CONSTANTS
  small = small
  large = large
  t1 = t1
  t2 = t2
  Models <- TwoModels
  Window <- Windows
  Turns <- TwoTurns
  MaxMessages = 3
  Oversized = {2}
  ToolOnly = {1}
  MinMessages = 3
  MinEmergency = 2
  MaxPasses = 2
  MaxRetries = 2
  MaxEvents = 2
  None = None
  Aliased = Aliased
SPECIFICATION Spec
INVARIANTS
  TypeOK
PROPERTIES
  EverythingIsShown
  ShownInOrder
  ClearedIsForgotten
SYMMETRY Symmetry
CHECK_DEADLOCK FALSE
