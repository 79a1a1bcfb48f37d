CONSTANTS
  Clients = {}
  Dialers <- TwoDialers
  Nobody = "nobody"
  Leftover = "leftover"
  MaxChunks = 0
SPECIFICATION TunnelSpec
INVARIANT NoSocketStolen
