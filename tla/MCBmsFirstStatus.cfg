CONSTANTS
  Bytes <- ThreeBytes
  Modulus = 3
  HEADER <- TwoByteHeader
  FRAME_LEN = 4
  MaxStream = 8
  Interval = 4
  FrameTimeout = 2
  SettingsInterval = 10
  PostTime = 2
  QueueLength = 2
  MaxSilentCycles = 3
  Lines <- OnlyClean
SPECIFICATION Spec
INVARIANT FirstStatusAtOnce
