CONSTANTS
  Bytes <- ThreeBytes
  Modulus = 3
  HEADER <- TwoByteHeader
  FRAME_LEN = 4
  MaxStream = 8
  Interval = 4
  FrameTimeout = 2
  SettingsInterval = 10
  PostTime = 2
  QueueLength = 1
  MaxSilentCycles = 3
  Lines <- BothLines
SPECIFICATION FairSpec
INVARIANT EveryByteCounted
INVARIANT ChunksDoNotMatter
PROPERTY NextFrameReturns
INVARIANT SettingsStayCurrent
INVARIANT TalkingPackIsKept
PROPERTY PublishedIsNews
PROPERTY SilentPackEndsTheRun
CHECK_DEADLOCK FALSE
