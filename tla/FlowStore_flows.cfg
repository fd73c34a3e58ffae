CONSTANTS
  n1 = n1
  n2 = n2
  n3 = n3
  f1 = f1
  f2 = f2
  o1 = o1
  o2 = o2
  NodeOrder <- Order
  Flows <- TwoFlows
  Patches <- SomePatches
  Ops <- TwoOps
  MaxRequests = 3
  MaxCrashes = 1
  None = None
  Torn = Torn
SPECIFICATION Spec
INVARIANTS
  StoredFlowsAreValid
  VersionTellsDefinition
  EditsLast
PROPERTIES
  SnapshotsNeverChange
SYMMETRY Symmetry
CHECK_DEADLOCK FALSE
