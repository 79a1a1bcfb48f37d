CONSTANTS
  Clients <- OneClient
  Dialers <- OneDialer
  Nobody = "nobody"
  Leftover = "leftover"
  MaxChunks = 1
SPECIFICATION TunnelFairSpec
INVARIANT CutShortOnlyByFailure
PROPERTY EndsReachEveryone
PROPERTY TunnelComesBack
CHECK_DEADLOCK FALSE
