CONSTANTS
  Listings <- MCListings
  Options  <- MCOptions
  FinId    = 9
  NoNode   = NoNode
  MaxUnsat = 1
SPECIFICATION Spec
INVARIANTS
  LinksConsistent
  MergeKeepsRuns
  OnlyRuns
  UnrollSound
  UnrollComplete
  SortSound
  GraphReady
PROPERTIES
  Finishes
CHECK_DEADLOCK FALSE
