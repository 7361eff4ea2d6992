CONSTANTS
  Links        <- MCLinks
  FinNd        = 5
  Enter        <- MCEnter
  Leave        <- MCLeave
  CostFirmware = 224
  Conflicts    = {}
  Obvious      = {}
  MinSize      <- MCMinSize
  Needs        = {}
  Parallelism  = 1
  Counts       = {99}
  SizeMax      = 1000
SPECIFICATION Spec
INVARIANTS
  SlowestFirst
