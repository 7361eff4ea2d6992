CONSTANTS
  Workers = {w1, w2}
  Main    = main
  MaxJobs = 3
  MaxScopes = 2
  MaxItems = 3
  IndexRange = 3
SPECIFICATION OCSpec
INVARIANTS
  NoStrandedCallback
  NoUseAfterScope
PROPERTIES
  InOrder
  UsesPool
  LoopEnds
