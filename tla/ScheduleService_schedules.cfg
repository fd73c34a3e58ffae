CONSTANTS
  j1 = j1
  j2 = j2
  Count = 2
  Period <- TwoPeriods
  Limit <- TwoLimits
  From <- TwoStarts
  Until <- TwoEnds
  Jobs <- TwoJobs
  MaxTime = 3
  MaxUpsets = 1
  MaxCrashes = 1
  Many = 3
SPECIFICATION Spec
INVARIANTS
  RunsWithinLimit
  OncePerDate
PROPERTIES
  DueIsHandled
  FileCatchesUp
