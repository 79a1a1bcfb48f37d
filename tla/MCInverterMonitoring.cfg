CONSTANTS
  Producers <- BothProducers
  Ttys <- TwoTtys
  NoProducer = "nobody"
  NoTty = "none"
  Remembers <- OnlyInverter
  Device <- TwoDevices
  Static <- TwoStatic
  Live <- TwoLive
  Units <- OddUnits
  Implements <- KnowsOdd
  Length <- TwoLengths
  NoUnit = "off"
  None = None
  Lines <- ThreeLines
  MaxPending = 2
  MAX_SILENT_CYCLES = 3
SPECIFICATION FairSpec
INVARIANT BusyMeansHeld
PROPERTY ArbitratesPorts
PROPERTY OneFoundThenAll
INVARIANT CleanCycleIsWhole
INVARIANT NullsAreCounted
INVARIANT GivenUpIsUnimplemented
INVARIANT AnsweringUnitIsKept
PROPERTY DeadPortEndsTheRun
PROPERTY OldSerialGoesAway
CHECK_DEADLOCK FALSE
