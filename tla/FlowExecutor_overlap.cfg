CONSTANTS
  n1 = n1
  n2 = n2
  n3 = n3
  n4 = n4
  None = None
  Nodes <- OneNode
  Declaring = {n1}
  Flows = {{}}
  Loops = 2
  MaxRetries <- OneRetry
  MaxReprompts = 1
  Overlaps = TRUE
  MaxMishaps = 3
SPECIFICATION Spec
INVARIANTS
  EndedRunsAreClosed
PROPERTIES
  LoopsEnd
CHECK_DEADLOCK FALSE
