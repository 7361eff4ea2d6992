CONSTANTS
  Programs     <- MCPrograms
  CostFirmware = 2
  MaxUInt      = 999
SPECIFICATION Spec
INVARIANTS
  Overestimate
  InfoSound
