SPECIFICATION Spec
CONSTANTS
  SlLog2 = 3
  FlMax = 10
  SizeBits = 13
  PoolSize = 240
  MaxLive = 3
  Request <- MCRequest
  Pair <- MCPair
  Boundary <- MCBoundary
INVARIANTS BlocksTile FreeListed LiveHaveRoom RefusedForWant
