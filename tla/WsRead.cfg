\* Receiving: whole and fragmented messages, control frames, bursts and trickles.
SPECIFICATION Spec
CONSTANTS
  FrameSize = 2
  MaxBufSize = 3
  FrameBudget = 3
  MaxFloodScore = 2
  MaxPayload = 2
  MaxArrivals = 4
  MaxBuilt = 0
  MaxConnections = 1
  ServerFrames <- MCStreams
INVARIANTS MessageIsWhole FloodIsCut TrickleIsNoFlood
