CONSTANTS
  Links        <- MCLinks
  FinNd        = 9
  Enter        <- MCEnter
  Leave        <- MCLeave
  CostFirmware = 2
  Conflicts    <- MCConflicts
  Obvious      <- MCObvious
  MinSize      <- MCMinSize
  Needs        = {}
  Parallelism  = 2
  Counts       <- MCCounts
  SizeMax      = 1000
SPECIFICATION Spec
INVARIANTS
  NoNullDeref
  CountExact
  Complete
  SlowestFirst
  BoundHolds
PROPERTIES
  Ends
