CONSTANTS
  Links        <- MCLinks
  FinNd        = 7
  Enter        <- MCEnter
  Leave        <- MCLeave
  CostFirmware = 1
  MinSize      <- MCMinSize
  Conflicts    = {}
  Needs        = {}
  Obvious      = {}
  Parallelism  = 1
  Counts       = {99}
  SizeMax      = 1000
SPECIFICATION Spec
INVARIANTS
  ReportedOnce
