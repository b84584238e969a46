\* A pong that comes in a read call which then blocks.
SPECIFICATION Spec
CONSTANTS
  FrameSize = 2
  MaxBufSize = 3
  FrameBudget = 2
  MaxFloodScore = 10
  MaxPayload = 2
  MaxArrivals = 1
  MaxBuilt = 1
  MaxConnections = 1
  ServerFrames <- MCPongs
INVARIANT TimeoutMeansSilence
