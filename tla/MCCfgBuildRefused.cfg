CONSTANTS
  Listings <- WholeLoop
  Options  <- NoLimit
  FinId    = 15000
  NoNode   = NoNode
  MaxUnsat = 0
SPECIFICATION Spec
INVARIANTS
  LoopsRefused
CHECK_DEADLOCK FALSE
