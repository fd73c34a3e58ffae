CONSTANTS
  n1 = n1
  n2 = n2
  n3 = n3
  n4 = n4
  None = None
  Nodes <- TwoNodes
  Declaring = {n1}
  Flows <- TwoFlows
  Loops = 2
  MaxRetries <- TwoRetries
  MaxReprompts = 1
  Overlaps = FALSE
  MaxMishaps = 1
SPECIFICATION Spec
INVARIANTS
  InputsFirst
  ResultsAreFresh
  ResultsFitTogether
  ContractsHold
PROPERTIES
  NotRunAgain
  LoopsWearDown
CHECK_DEADLOCK FALSE
