CONSTANTS
  a1 = a1
  a2 = a2
  o1 = o1
  o2 = o2
  Agents <- TwoAgents
  Ops <- TwoOps
  MaxVersion = 2
  MaxCrashes = 1
  MaxRequests = 4
  None = None
  Absent = Absent
  Torn = Torn
  Phantom = Phantom
SPECIFICATION Spec
INVARIANTS
  TypeOK
  ListingIsComplete
  DeletedStaysDeleted
  ImportGivesLastSave
  OneCrashLosesNoAgent
SYMMETRY Symmetry
CHECK_DEADLOCK FALSE
