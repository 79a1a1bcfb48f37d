CONSTANTS
  Producers <- BothProducers
  Ttys <- TwoTtys
  NoProducer = "nobody"
  NoTty = "none"
  Remembers <- OnlyInverter
  Device <- TwoDevices
  Static <- TwoStatic
  Live <- ThreeLive
  Units <- AllUnits
  Implements <- KnowsAll
  Length <- ThreeLengths
  NoUnit = "off"
  None = None
  Lines <- LateLine
  MaxPending = 2
  MAX_SILENT_CYCLES = 3
SPECIFICATION Spec
INVARIANT IdentityIsItsOwn
