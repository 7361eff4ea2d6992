CONSTANTS
  Byte            = 2
  LenBits         = 3
  Programs       <- MCPrograms
  Packets        <- MCPackets
  Env            <- MCEnv
  Places         <- MCPlaces
  MIN_PACKETSIZE  = 2
  MTU             = 7
  PACKET_HEADROOM = 128
SPECIFICATION Spec
INVARIANTS
  Describes
  EdgesSound
  PathExact
CHECK_DEADLOCK FALSE
