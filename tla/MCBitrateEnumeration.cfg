CONSTANTS
  Links        <- MCLinks
  FinNd        = 8
  Enter        <- MCEnter
  Leave        <- MCLeave
  CostFirmware = 2
  MinSize      <- MCMinSize
  Conflicts    <- MCConflicts
  Needs        <- MCNeeds
  Obvious      = {}
  Parallelism  = 2
  Counts       = {0, 1, 99}
  SizeMax      = 1000
SPECIFICATION Spec
INVARIANTS
  Complete
  LowestRateFirst
  BoundHolds
PROPERTIES
  Ends
